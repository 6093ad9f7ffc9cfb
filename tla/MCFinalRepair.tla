---------------------------- MODULE MCFinalRepair ----------------------------
(***************************************************************************)
(* What the gates report in the runs: five findings of                     *)
(* tests/test_document_to_plan.py with the topics and the tasks that the   *)
(* text and the target files of each name.                                 *)
(***************************************************************************)
EXTENDS FinalRepairProperties

Finding(words, files) == [words |-> words, files |-> files]

\* test_final_audit_i18n_source_boundary_failure_creates_locale_repair
LocaleFinding == Finding({"locale settings boundary contracts"}, {})

\* test_final_audit_remaining_source_boundary_after_frontend_split_creates_followups
RemainingFinding ==
  Finding({"locale component boundary contracts", "remaining source boundary"}, {})

\* test_final_gate_embedded_runtime_assets_create_focused_repair_task
AssetsFinding ==
  Finding({"embedded runtime asset contracts"},
          {"Veyra portal branding contracts", "embedded runtime asset contracts"})

\* test_final_audit_settings_api_contract_failure_adds_exact_task
SettingsFinding ==
  Finding({"admin settings legacy surface contracts", "backend settings API contract test"},
          {"admin dashboard access policy route contracts", "admin ops audit surface contracts",
           "backend handler server quarantine leftovers",
           "backend legacy production quarantine leftovers",
           "backend production source-boundary leftovers",
           "backend server middleware quarantine exact files",
           "backend service handler server contracts", "backend settings API contract test",
           "platform RPM capacity surface contracts"})

\* test_final_audit_dashboard_access_policy_and_user_quota_failure_uses_exact_tasks
QuotaFinding ==
  Finding({"admin API build lint contracts", "admin dashboard access policy route contracts",
           "admin ops audit surface contracts", "admin user group quota surface contracts"},
          {"API and i18n contracts", "API module contracts", "API settings typecheck leftovers",
           "admin API build lint contracts", "admin user group quota surface contracts",
           "retired API type source-boundary leftovers", "retired source-boundary leftovers",
           "user quota typecheck import"})

MCFindings == {LocaleFinding, RemainingFinding, AssetsFinding, SettingsFinding, QuotaFinding}
MCSignals == {"forbidden admin route surface contracts"}
==============================================================================
