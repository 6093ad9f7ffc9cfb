----------------------------- MODULE RepairPlan -----------------------------
(***************************************************************************)
(* Which tasks the next attempt of the final verification splits, read     *)
(* from the brief of the attempt that ended (task_graph_builder.py).       *)
(* A brief is a record: id and focus, the number and the name of the task  *)
(* that ended it; titles, those of the completed tasks by number; named,   *)
(* all titles; deep, TRUE when it lists the tail of a graph with every     *)
(* frontend task split; RepairTopics describes the rest.                   *)
(***************************************************************************)
EXTENDS RepairTree, FiniteSets

NarrowedLocale == "i18n locale sources"   \* same title, fewer files
Title(task) == IF task = NarrowedLocale THEN "i18n locale contracts" ELSE task

DeepTail ==
  {"API and integration test contracts", "component and composable test contracts",
   "view router i18n utility test contracts", "test config and fixture contracts"}

DeepIds == 56 .. 59

Completed(b) == DOMAIN b.titles
Ids(b) == Completed(b) \cup {b.id} \cup (IF b.deep THEN DeepIds ELSE {})
Names(b, titles) == titles \cap b.named # {}
NamesParts(b, whole) == ToSet(Parts[whole]) \subseteq b.named

\* The failed task is in window, and a title is named or its files are those of tasks.
Asked(b, window, titles, tasks) == b.id \in window /\ (Names(b, titles) \/ b.focus \in tasks)

\* whole was split before: its parts are listed, or are all behind the failed task.
Kept(b, whole, parts, window) ==
  NamesParts(b, whole) \/ (parts \subseteq Ids(b) /\ b.id \in window)

-----------------------------------------------------------------------------
\* A likely mistake: only the tasks completed so far tell that the graph was deep.
DeepByTitles(b) ==
  \/ b.focus = "test and fixture contracts"
  \/ b.id \in 50 .. 90 /\ DeepIds \subseteq Completed(b)

\* should_preserve_final_frontend_deep_tail_split
Deep(b) ==
  \/ b.deep
  \/ b.focus = "test and fixture contracts"
  \/ b.id \in 50 .. 90 /\
       (DeepIds \subseteq Completed(b) \/
        Names(b, {"table navigation composables", "channel monitor format composable",
                  "onboarding quota composables"}))

\* Tasks with files of an area, from their relevant_files.
AnnouncementFiles ==
  Family("admin announcement backup promo files") \cup {"admin dashboard settings view contracts"}

EmailFiles ==
  Family("admin email template editor file") \cup {"admin settings email compliance files"}

SettingsFiles ==
  EmailFiles \cup {"admin dashboard settings view contracts", "admin settings view file",
                  "admin compliance dialog file"}

DashboardFiles ==
  (Family("admin announcement backup promo files")
     \ {"admin announcement components support files"}) \cup
  {"admin dashboard settings view contracts", "admin dashboard view file",
   "admin settings email compliance files", "admin settings view file"}

AdminViewFiles ==
  DashboardFiles \cup EmailFiles \cup {"admin view page contracts"} \cup
  (ToSet(Parts["admin view page contracts"]))

PublicViewFiles ==
  Family("auth public setup view contracts") \ {"auth public setup support files"}

ViewFiles ==
  AdminViewFiles \cup PublicViewFiles \cup
  {"user payment view page contracts", "view page contracts", "view and component contracts",
   "routes views and tests", "view router i18n utility test contracts"}

PaymentFiles ==
  Family("admin usage payment components") \cup
  {"admin user usage redeem view contracts", "admin payment order plan view contracts"}

AdminTitles ==
  Family("admin operation component contracts") \cup Family("admin view page contracts") \cup
  {"admin billing API contract leaf", "admin API build lint contracts",
   "admin ops audit surface contracts", "forbidden admin route surface contracts"}

PaymentTitles ==
  (Family("admin usage payment components") \ {"admin usage component"}) \cup
  {"admin payment order plan view contracts", "user payment view page contracts",
   "payment usage API contract leaf"}

Announcements(b) ==
  \/ Asked(b, 34 .. 40, {"admin announcement backup promo files", "admin announcements view file",
             "admin backup view file", "admin promo codes view file"},
           AnnouncementFiles)
  \/ Kept(b, "admin announcement backup promo files", 34 .. 37, 38 .. 55)

CreateEdit(b) ==
  \/ Asked(b, 18 .. 19, {"admin user create edit components", "admin user create modal component",
             "admin user edit modal component"}, {"admin user account components"})
  \/ Kept(b, "admin user create edit components", 18 .. 19, 20 .. 55)
  \/ Announcements(b)

Refund(b) ==
  \/ b.id = 26 /\ Names(b, {"admin payment refund dialog component",
                            "admin payment refund dialog file"})
  \/ Names(b, {"admin payment refund dialog file"})
  \/ b.id \in 27 .. 35 /\ 26 \in Ids(b)
  \/ Announcements(b)

Payment(b) ==
  \/ b.id \in 25 .. 27 /\ Names(b, PaymentTitles)
  \/ Kept(b, "admin payment component", 25 .. 27, 28 .. 35)
  \/ Refund(b)

UsagePayment(b) ==
  \/ Asked(b, 24 .. 25, ToSet(Parts["admin usage payment components"]) \cup
             {"admin usage payment components"}, PaymentFiles)
  \/ Kept(b, "admin usage payment components", 24 .. 25, 26 .. 35)
  \/ Payment(b)

UserAccount(b) ==
  \/ Asked(b, 16 .. 18, ToSet(Parts["admin user account components"]) \cup
             {"admin user account components"}, Family("admin user account components"))
  \/ b.id = 16 /\ b.focus = "locale component boundary contracts"
  \/ Kept(b, "admin user account components", 16 .. 18, 19 .. 55)
  \/ CreateEdit(b)

AccountModal(b) ==
  \/ Asked(b, {12}, {"admin account modal components"},
           Family("admin account modal components") \cup
             {"admin account table components", "admin connector channel components"})
  \/ UserAccount(b)

AccountIdentity(b) ==
  \/ Asked(b, {11}, {"admin account identity components"},
           Family("admin account identity components"))
  \/ AccountModal(b)

AdminComponents(b) ==
  \/ Names(b, {"admin operation component contracts"})
  \/ b.id = 11 /\ Names(b, AdminTitles)
  \/ AccountIdentity(b) \/ UsagePayment(b)

-----------------------------------------------------------------------------
EmailLeaf(b) ==
  \/ Asked(b, 31 .. 35, {"admin email template editor file"}, EmailFiles)
  \/ {"admin settings view file", "admin email template editor leaf file",
      "admin compliance dialog file", "admin settings support files"} \subseteq b.named
  \/ b.id \in 32 .. 50 /\ 29 .. 31 \subseteq Ids(b)
  \/ Announcements(b)

SettingsEmail(b) ==
  \/ Asked(b, 30 .. 34, {"admin settings email compliance files"}, SettingsFiles)
  \/ Kept(b, "admin settings email compliance files", 29 .. 33, 34 .. 50)
  \/ EmailLeaf(b)

DashboardSettings(b) ==
  \/ Asked(b, 29 .. 33, {"admin dashboard settings view contracts"}, DashboardFiles)
  \/ Kept(b, "admin dashboard settings view contracts", 29 .. 32, 33 .. 48)
  \/ SettingsEmail(b)

AdminViewPages(b) ==
  \/ Asked(b, 29 .. 32, {"admin view page contracts"}, AdminViewFiles)
  \/ Kept(b, "admin view page contracts", 29 .. 33, 34 .. 55)
  \/ DashboardSettings(b)

SetupNotFound(b) ==
  \/ Names(b, {"setup and not-found view contracts"})
  \/ Kept(b, "setup and not-found view contracts", 46 .. 47, 48 .. 65)

AuthPublicSetup(b) ==
  \/ Asked(b, 31 .. 55, {"auth public setup view contracts", "auth public setup support files"},
           PublicViewFiles)
  \/ Names(b, {"auth public setup view contracts"}) /\ b.focus \in PublicViewFiles
  \/ NamesParts(b, "auth public setup view contracts")
  \/ b.id \in 45 .. 60 /\ Names(b, {"state composable utility contracts"})
  \/ SetupNotFound(b)

ViewPages(b) ==
  \/ Asked(b, 29 .. 31, ToSet(Parts["view page contracts"]) \cup {"view page contracts"}, ViewFiles)
  \/ Kept(b, "view page contracts", 29 .. 31, 32 .. 55)
  \/ AdminViewPages(b) \/ AuthPublicSetup(b)

ViewComponents(b) ==
  \/ Names(b, {"view and component contracts"}) \/ b.id = 10
  \/ Kept(b, "view and component contracts", 9 .. 10, 11 .. 55)
  \/ AdminComponents(b) \/ ViewPages(b)

-----------------------------------------------------------------------------
Metering(b) ==
  \/ b.focus = "metering entitlement composables"
  \/ Kept(b, "metering entitlement composables", 51 .. 53, 54 .. 75)

Composables(b) ==
  \/ b.focus = "composable contracts"
  \/ Kept(b, "composable contracts", 50 .. 52, 53 .. 70)
  \/ Metering(b)

StateComposableUtility(b) ==
  \/ b.focus = "state composable utility contracts"
  \/ Kept(b, "state composable utility contracts", 49 .. 51, 52 .. 65)
  \/ Composables(b)

TestFixtures(b) ==
  \/ b.id \in 56 .. 90 /\
       (Names(b, {"test and fixture contracts"}) \/
        b.focus \in {"routes views and tests", "test config and fixture contracts"} \/
        DeepIds \subseteq Completed(b))
  \/ NamesParts(b, "test and fixture contracts")

ComponentComposableTests(b) == b.focus = "component and composable test contracts"

RouteShell(b) == b.id = 9 /\ Names(b, {"route and app shell contracts"})

RoutesViews(b) == b.id = 9 \/ Names(b, {"routes views and tests"})

LocaleLeaf(b) == b.id = 7 /\ Names(b, {"i18n locale contracts"})

\* A likely mistake: the split of the routes does not keep the one of the API tasks.
ApiI18nAlone(b) ==
  \/ Names(b, {"API and i18n contracts"}) \/ b.id = 6
  \/ NamesParts(b, "API and i18n contracts")
  \/ LocaleLeaf(b)
  \/ ViewComponents(b) \/ StateComposableUtility(b) \/ TestFixtures(b)

ApiI18n(b) ==
  \/ Names(b, {"API and i18n contracts"}) \/ b.id = 6
  \/ NamesParts(b, "API and i18n contracts")
  \/ RoutesViews(b) \/ LocaleLeaf(b)
  \/ ViewComponents(b) \/ StateComposableUtility(b) \/ TestFixtures(b)

ApiLeaf(b) == b.id = 6 /\ Names(b, {"API module contracts", "admin billing API contract leaf"})
NarrowerApiLeaf(b) == b.id = 6 /\ Names(b, {"admin billing API contract leaf"})

-----------------------------------------------------------------------------
FrontendWholes ==
  DOMAIN (RouteParts @@ ComposableParts @@ StateParts @@ TestParts @@ AccountParts @@ UserParts @@
          IdentityParts @@ PaymentParts @@ AdminParts @@ ViewParts @@ SettingsParts @@
          AnnouncementParts @@ DashboardParts @@ AdminViewParts @@ PublicViewParts @@
          ViewPageParts @@ ApiParts)
  \ {"route and app shell contracts", "component and composable test contracts"}

Frontend(b) ==
  {w \in {"API and i18n contracts"} : ApiI18n(b)} \cup
  {w \in {"routes views and tests"} :
     RoutesViews(b) \/ ViewComponents(b) \/ StateComposableUtility(b) \/ RouteShell(b)} \cup
  {w \in {"view and component contracts"} : ViewComponents(b)} \cup
  {w \in {"admin operation component contracts"} : AdminComponents(b)} \cup
  {w \in {"admin account identity components"} : AccountIdentity(b)} \cup
  {w \in {"admin account modal components"} : AccountModal(b)} \cup
  {w \in {"admin user account components"} : UserAccount(b)} \cup
  {w \in {"admin user create edit components"} : CreateEdit(b)} \cup
  {w \in {"admin usage payment components"} : UsagePayment(b)} \cup
  {w \in {"admin payment component"} : Payment(b)} \cup
  {w \in {"admin payment refund dialog component"} : Refund(b)} \cup
  {w \in {"view page contracts"} : ViewPages(b)} \cup
  {w \in {"admin view page contracts"} : AdminViewPages(b)} \cup
  {w \in {"admin dashboard settings view contracts"} : DashboardSettings(b)} \cup
  {w \in {"admin settings email compliance files"} : SettingsEmail(b)} \cup
  {w \in {"admin email template editor file"} : EmailLeaf(b)} \cup
  {w \in {"admin announcement backup promo files"} : Announcements(b)} \cup
  {w \in {"auth public setup view contracts"} : AuthPublicSetup(b)} \cup
  {w \in {"setup and not-found view contracts"} : SetupNotFound(b)} \cup
  {w \in {"state composable utility contracts"} : StateComposableUtility(b)} \cup
  {w \in {"composable contracts"} : Composables(b)} \cup
  {w \in {"metering entitlement composables"} : Metering(b)} \cup
  {w \in {"test and fixture contracts"} : TestFixtures(b)}

Backend(b) ==
  {w \in {"backend domain and repository contracts"} : b.id = 4} \cup
  {w \in {"backend domain repository contract leftovers"} : b.id = 4 /\ Names(b, {w})} \cup
  {w \in {"backend service handler server contracts"} : b.id = 5}

Leaves(b) ==
  {w \in {"API module contracts"} : ApiLeaf(b)} \cup
  {w \in {"admin billing API contract leaf"} : NarrowerApiLeaf(b)} \cup
  {w \in {"i18n locale contracts"} : LocaleLeaf(b)} \cup
  {w \in {"route and app shell contracts"} : RouteShell(b)} \cup
  {w \in {"component and composable test contracts"} : ComponentComposableTests(b)}

\* final_verification_repair_task_specs: the tasks replaced by their parts.
Cuts(b) ==
  Backend(b) \cup Leaves(b) \cup
  IF Deep(b) THEN FrontendWholes ELSE Frontend(b)
=============================================================================
