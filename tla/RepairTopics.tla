---------------------------- MODULE RepairTopics ----------------------------
(***************************************************************************)
(* The graph of an attempt of the final verification                       *)
(* (task_graph_builder.py): the tasks of RepairPlan, a task for each topic *)
(* that the brief's text names, and the choice among them.  A brief has    *)
(* also: words, the topics that a reported finding and the line about the  *)
(* earlier brief name, a topic being called like its task; files, the      *)
(* tasks that have a file the finding asks to change; timeout, whether a   *)
(* worker ran out of time; older, the numbers and titles in the brief      *)
(* before; rerun, whether a gate failed or was refused.                    *)
(***************************************************************************)
EXTENDS RepairPlan

Alone(tasks) == [t \in tasks |-> {t}]

\* Titles that name a topic wherever they are listed.
NamedBy ==
  Alone({"delivery artifact contracts", "dependency audit contracts",
         "locale settings boundary contracts", "route/sidebar contract leftovers",
         "forbidden admin route surface contracts", "RPM override route contract leftovers",
         "admin settings legacy surface contracts"}) @@
  ("embedded runtime asset contracts" :> {"Veyra portal branding contracts"}) @@
  ("platform RPM capacity surface contracts" :> {"backend admin RPM capacity contracts"}) @@
  ("remaining source boundary" :>
     {"backend handler server quarantine leftovers",
      "backend provider proxy ops service quarantine exact files"})

CapacityScreens ==
  {"platform RPM capacity surface contracts", "admin settings RPM capacity contracts",
   "admin RPM capacity settings contracts"}

AdminRoutes ==
  CapacityScreens \cup
  {"RPM override route contract leftovers", "admin dashboard access policy route contracts"}

\* Tasks whose files or description name a topic when one of them fails.
RoutesOf ==
  ("forbidden admin route surface contracts" :>
     AdminRoutes \cup {"route/sidebar contract leftovers"}) @@
  ("admin dashboard access policy route contracts" :>
     AdminRoutes \cup {"forbidden admin route surface contracts"}) @@
  ("admin ops audit surface contracts" :>
     {"admin ops audit surface contracts", "forbidden admin route surface contracts"})

SurfacesOf ==
  Alone({"embedded runtime asset contracts"}) @@
  ("Veyra portal branding contracts" :> {"Veyra portal branding contracts"}) @@
  ("locale component boundary contracts" :>
     CapacityScreens \cup
     {NarrowedLocale, "locale component boundary contracts", "locale settings boundary contracts",
      "admin settings legacy surface contracts", "admin settings legacy contracts",
      "view component typecheck leftovers"}) @@
  ("admin API build lint contracts" :>
     CapacityScreens \cup
     {"admin billing API contract leaf", "payment usage API contract leaf",
      "admin API build lint contracts", "admin settings legacy surface contracts",
      "admin settings legacy contracts", "admin user group quota surface contracts",
      "user quota typecheck import"})

BackendOf ==
  Alone({"backend startup contract wiring", "backend active migration model routing contracts",
         "backend runtime protocol identity contracts"}) @@
  ("backend account repository predicate contracts" :>
     {"backend domain repository contract leftovers",
      "backend domain account repository contract leaf",
      "backend account repository predicate contracts",
      "backend repository domain quarantine exact files"}) @@
  ("platform RPM capacity surface contracts" :>
     {"platform RPM capacity surface contracts", "user platform capacity API contracts"}) @@
  ("backend production identity string leftovers" :>
     {"backend production identity string leftovers",
      "backend admin handler quarantine exact files"})

FailedOf == RoutesOf @@ SurfacesOf @@ BackendOf

\* A route named in one line and a path in another are read as one finding.
NamesRoutes(b) ==
  Names(b, {"route and app shell contracts", "route registration file",
            "route/sidebar contract leftovers", "RPM override route contract leftovers",
            "admin dashboard access policy route contracts",
            "backend admin RPM route settings contracts"})

RoutedSurface ==
  {"admin account identity components", "admin announcement backup promo files",
   "admin announcement compliance components", "admin announcement components support files",
   "admin announcements view file", "admin dashboard settings view contracts",
   "legacy admin view cleanup"}

RoutedOps ==
  {"admin API build lint contracts", "admin operations view contracts",
   "API settings typecheck leftovers", "backend admin handler quarantine exact files",
   "backend production identity string leftovers"}

ReadAsRoutes(b) ==
  {t \in {"forbidden admin route surface contracts"} : 
     (NamesRoutes(b) \/ Names(b, {"table navigation composables"})) /\ b.focus \in RoutedSurface} \cup
  {t \in {"admin ops audit surface contracts"} :
     (NamesRoutes(b) \/ Names(b, {"forbidden admin route surface contracts"})) /\
     b.focus \in RoutedOps}

\* The topics the text of the brief names.
Topics(b) ==
  b.words \cup ReadAsRoutes(b) \cup
  {t \in DOMAIN NamedBy : Names(b, NamedBy[t])} \cup
  {t \in DOMAIN FailedOf : b.focus \in FailedOf[t]}

-----------------------------------------------------------------------------
\* should_split_final_admin_settings_legacy_timeout
SettingsLegacy(b) ==
  IF Names(b, {"admin settings legacy surface contracts"})
  THEN <<"backend admin settings legacy contracts", "admin settings legacy contracts">>
  ELSE <<"admin settings legacy surface contracts">>

SimulationTasks ==
  <<"UsageTable simulation contracts", "backend admin simulation contracts",
    "backend DTO usage simulation contracts">>

\* Three levels of splits; the narrowest title listed decides, after a time-out only.
Capacity(b) ==
  CASE b.timeout /\ Names(b, {"backend admin RPM capacity contracts"}) ->
         <<"backend admin RPM route settings contracts",
           "backend admin user capacity handler contracts">>
    [] b.timeout /\ ~Names(b, {"backend admin RPM capacity contracts"})
                 /\ Names(b, {"admin settings RPM capacity contracts"}) ->
         <<"backend admin RPM capacity contracts", "admin RPM capacity settings contracts">>
    [] b.timeout /\ ~Names(b, {"backend admin RPM capacity contracts",
                               "admin settings RPM capacity contracts"})
                 /\ Names(b, {"platform RPM capacity surface contracts"}) ->
         <<"user platform capacity API contracts", "admin settings RPM capacity contracts">>
    [] OTHER -> <<"platform RPM capacity surface contracts">>

RetiredTasks ==
  <<"retired API type source-boundary leftovers",
    "retired composable store source-boundary leftovers",
    "retired view component source-boundary leftovers">>

Sweep(b) ==
  <<"backend migration source-boundary leftovers", "backend production source-boundary leftovers">>
  \o (IF Names(b, {"retired source-boundary leftovers"})
      THEN RetiredTasks ELSE <<"retired source-boundary leftovers">>)

LegacyParts ==
  <<"backend handler server quarantine leftovers",
    "backend service repository quarantine leftovers",
    "backend config runtime quarantine leftovers">>

HandlerServerParts ==
  <<"backend admin handler quarantine exact files",
    "backend gateway protocol handler exact files",
    "backend server middleware quarantine exact files",
    "backend service repository quarantine leftovers",
    "backend config runtime quarantine leftovers">>

ServiceRepositoryParts ==
  <<"backend repository domain quarantine exact files",
    "backend gateway OpenAI service quarantine exact files",
    "backend provider proxy ops service quarantine exact files",
    "backend config runtime quarantine leftovers">>

ProviderProxyParts ==
  <<"backend account OAuth service quarantine exact files",
    "backend channel monitor service quarantine exact files",
    "backend proxy upstream service quarantine exact files",
    "backend ops settings service quarantine exact files",
    "backend config runtime quarantine leftovers">>

\* The quarantine of the old backend: the first of these that is named replaces the rest.
Quarantine ==
  << <<"backend provider proxy ops service quarantine exact files", ProviderProxyParts>>,
     <<"backend service repository quarantine leftovers", ServiceRepositoryParts>>,
     <<"backend handler server quarantine leftovers", HandlerServerParts>>,
     <<"backend legacy production quarantine leftovers", LegacyParts>> >>

Remaining(b) ==
  LET named == {k \in DOMAIN Quarantine : Names(b, {Quarantine[k][1]})}
  IN  (IF named = {} THEN <<"backend legacy production quarantine leftovers">>
       ELSE Quarantine[CHOOSE k \in named : \A n \in named : k <= n][2]) \o
      <<"API settings typecheck leftovers", "view component typecheck leftovers">>

-----------------------------------------------------------------------------
\* The order in which final_verification_repair_task_specs adds tasks.
DeliveryTopics ==
  <<"delivery artifact contracts", "embedded runtime asset contracts",
    "Veyra portal branding contracts", "backend startup contract wiring",
    "backend account repository predicate contracts">>

SurfaceTopics ==
  <<"locale component boundary contracts", "locale settings boundary contracts",
    "admin API build lint contracts", "forbidden admin route surface contracts">>

SettingsTopics ==
  <<"route/sidebar contract leftovers", "admin settings legacy surface contracts",
    "dependency audit contracts">>

PolicyTopics ==
  <<"admin ops audit surface contracts", "admin dashboard access policy route contracts",
    "admin user group quota surface contracts">>

SimulationTopics ==
  <<"RPM override route contract leftovers", "backend settings advanced scheduler contract",
    "backend settings API contract test", "user quota typecheck import", "simulation suite",
    "platform RPM capacity surface contracts">>

BackendTopics ==
  <<"backend active migration model routing contracts",
    "backend runtime protocol identity contracts",
    "backend production identity string leftovers", "source-boundary sweep",
    "remaining source boundary">>

TopicOrder ==
  DeliveryTopics \o SurfaceTopics \o SettingsTopics \o PolicyTopics \o SimulationTopics \o
  BackendTopics

Tasks(b, topic) ==
  CASE topic = "admin settings legacy surface contracts" -> SettingsLegacy(b)
    [] topic = "simulation suite" -> SimulationTasks
    [] topic = "platform RPM capacity surface contracts" ->
         IF "simulation suite" \in b.words THEN <<>> ELSE Capacity(b)
    [] topic = "source-boundary sweep" -> Sweep(b)
    [] topic = "remaining source boundary" -> Remaining(b)
    [] OTHER -> <<topic>>

Topical(b, topics) ==
  LET named == SelectSeq(TopicOrder, LAMBDA t : t \in topics)
  IN  FlattenSeq([i \in DOMAIN named |-> Tasks(b, named[i])])

\* A narrow topic lets no other task in: the first of these that is named decides.
Narrow(topics, tasks) == [topics |-> topics, tasks |-> tasks]

Narrowings(b) ==
  <<Narrow({"remaining source boundary"}, Remaining(b) \o <<"locale settings boundary contracts">>),
    Narrow({"source-boundary sweep"}, Sweep(b)),
    Narrow({"backend production identity string leftovers"},
           <<"backend production identity string leftovers">>),
    Narrow({"user quota typecheck import", "backend settings API contract test",
            "backend settings advanced scheduler contract"},
           SubSeq(SimulationTopics, 1, 4)),
    Narrow({"simulation suite", "RPM override route contract leftovers"},
           <<"RPM override route contract leftovers">> \o SimulationTasks),
    Narrow({"platform RPM capacity surface contracts"}, Capacity(b)),
    Narrow({"route/sidebar contract leftovers"}, <<"route/sidebar contract leftovers">>),
    Narrow({"forbidden admin route surface contracts"},
           <<"forbidden admin route surface contracts">>),
    Narrow({"admin dashboard access policy route contracts",
            "admin user group quota surface contracts"}, Tail(PolicyTopics)),
    Narrow({"admin ops audit surface contracts",
            "backend active migration model routing contracts"},
           <<"admin ops audit surface contracts",
             "backend active migration model routing contracts">>),
    Narrow(IF Names(b, {"admin settings legacy surface contracts"})
           THEN {"admin settings legacy surface contracts"} ELSE {}, SettingsLegacy(b)),
    Narrow(IF b.timeout THEN {"dependency audit contracts"} ELSE {},
           <<"forbidden admin route surface contracts", "dependency audit contracts",
             "backend migration contracts", "backend service contract leftovers",
             "backend service handler server contracts", "locale settings boundary contracts">>)>>

\* Left out of a graph that keeps its numbers.
NotDeep == {"admin ops audit surface contracts", "forbidden admin route surface contracts"}

\* final_verification_repair_task_specs
Repairs(b) ==
  LET topics == Topics(b)
      broad  == Unfold(Cuts(b))
      narrow == SelectSeq(Narrowings(b), LAMBDA n : n.topics \cap topics # {})
      all    == broad \o Topical(b, topics)
  IN  IF Deep(b)
      THEN SelectSeq(broad \o Topical(b, topics \ {"remaining source boundary"}),
                     LAMBDA t : t \notin NotDeep)
      ELSE IF narrow = <<>> THEN all
           ELSE SelectSeq(Head(narrow).tasks, LAMBDA t : t \in ToSet(all))

-----------------------------------------------------------------------------
\* A task with a target file of the finding makes way for a narrower one that has one.
Broadest ==
  {"backend service handler server contracts", "API and i18n contracts",
   "routes views and tests", "delivery artifact contracts"}

ForContracts ==
  <<Narrow({"locale component boundary contracts"},
           {"API and i18n contracts", "i18n locale contracts", "routes views and tests"}),
    Narrow({"locale settings boundary contracts"}, {"locale component boundary contracts"}),
    Narrow({"backend runtime protocol identity contracts", "backend startup contract wiring"},
           {"backend service handler server contracts"}),
    Narrow({"backend account repository predicate contracts"},
           {"backend Ent schema contracts", "backend domain and repository contracts"}),
    Narrow({"Veyra portal branding contracts"},
           {"embedded runtime asset contracts", "backend Ent schema contracts",
            "backend service handler server contracts"}),
    Narrow({"admin API build lint contracts"},
           Broadest \ {"backend service handler server contracts"}),
    Narrow({"dependency audit contracts"},
           (Broadest \ {"backend service handler server contracts"}) \cup
             {"backend Ent schema contracts", "backend domain and repository contracts",
              "admin ops audit surface contracts"})>>

ForSurfaces ==
  <<Narrow({"admin ops audit surface contracts"}, Broadest),
    Narrow(CapacityScreens \cup ToSet(Tail(PolicyTopics)) \cup
             {"user platform capacity API contracts", "backend admin RPM capacity contracts",
              "backend admin RPM route settings contracts",
              "backend admin user capacity handler contracts",
              "RPM override route contract leftovers"},
           Broadest \cup NotDeep),
    Narrow({"forbidden admin route surface contracts"},
           Broadest \cup {"admin ops audit surface contracts"}),
    Narrow({"route/sidebar contract leftovers"},
           Broadest \cup {"forbidden admin route surface contracts"}),
    Narrow({"backend production identity string leftovers"},
           (Broadest \ {"API and i18n contracts"}) \cup
             {"backend runtime protocol identity contracts", "route/sidebar contract leftovers"})>>

Yielding(hit) ==
  UNION {n.tasks : n \in {n \in ToSet(ForContracts \o ForSurfaces) : n.topics \cap hit # {}}}

\* Tasks of the topics named stay without a target file.
Answering(b, topics) ==
  {t \in {"backend migration contracts", "backend service handler server contracts"} :
     "old domain surface" \in b.words} \cup
  UNION {ToSet(Tasks(b, t)) : t \in topics \cap
    ({"locale settings boundary contracts", "dependency audit contracts",
      "route/sidebar contract leftovers", "platform RPM capacity surface contracts",
      "backend production identity string leftovers"} \cup
     ToSet(Tail(PolicyTopics)) \cup ToSet(SubSeq(SimulationTopics, 1, 4)) \cup
     (IF topics \cap ToSet(SubSeq(SimulationTopics, 2, 4)) = {} THEN {"simulation suite"} ELSE {}))}

\* final_verification_repair_specs_for_target_files
ForTargets(b, tasks) ==
  LET topics == Topics(b)
      hit  == ToSet(tasks) \cap b.files
      left ==
        IF Names(b, {"admin settings legacy surface contracts"}) THEN ToSet(SettingsLegacy(b))
        ELSE {t \in hit : Title(t) \notin Yielding(hit)} \
             (IF "embedded assets resolved" \in b.words
              THEN {"embedded runtime asset contracts"} ELSE {})
      kept ==
        CASE "remaining source boundary" \in topics ->
               ToSet(Remaining(b)) \cup {"locale settings boundary contracts"}
          [] {"remaining source boundary", "source-boundary sweep"} \cap topics
               = {"source-boundary sweep"} -> ToSet(Sweep(b))
          [] OTHER -> left \cup Answering(b, topics)
      always == topics \cap {"admin settings legacy surface contracts",
                             "forbidden admin route surface contracts"}
  IN  IF hit = {} THEN tasks ELSE SelectSeq(tasks, LAMBDA t : t \in kept \cup always)

-----------------------------------------------------------------------------
Planning == "Use deterministic final verification graph"
Gates ==
  <<"Audit final requirements and phase evidence", "Run final simulation probes",
    "Run final real repository checks", "Review final handoff markers">>

GateIds(graph) == {i \in DOMAIN graph : graph[i] \in ToSet(Gates)}

\* _build_final_verification_graph
FirstGraph == <<Planning>> \o Gates
Graph(b) == <<Planning>> \o ForTargets(b, Repairs(b)) \o Gates

\* A likely mistake: a number is taken for the task that had it.
PreservedByNumber(b, graph) == Completed(b) \cap DOMAIN graph

\* The numbers the brief lists keep their status when the task is not a repair, or has
\* a title the brief or the one before gives, and no target file.
Preserved(b, graph) ==
  {i \in Completed(b) \cap DOMAIN graph :
     IF graph[i] \in {Planning} \cup ToSet(Gates)
     THEN ~(b.rerun /\ i \in GateIds(graph))
     ELSE /\ graph[i] \notin b.files
          /\ Title(graph[i]) = b.titles[i] \/ <<i, Title(graph[i])>> \in b.older}

\* repair_completed_task_ids_to_reopen
Reopened(graph, done, files) == {d \in done : graph[d] \in files}

\* repair_focus_task_ids: the task that ended an attempt, none when i is 0 (a refusal).
FocusTask(graph, i) == IF i = 0 THEN "none" ELSE graph[i]

\* exclude_final_verification_gate_task_ids
WithoutGates(graph, ids) == ids \ GateIds(graph)

\* phase_focused_repair_lines: the completed tasks a brief lists.
Listed(graph, done, files) == WithoutGates(graph, done) \ Reopened(graph, done, files)

\* Its note on a graph whose frontend tasks are all split.
IsDeep(graph) == DeepIds \subseteq DOMAIN graph /\ {graph[d] : d \in DeepIds} = DeepTail
=============================================================================
