----------------------------- MODULE HealthRules ---------------------------
(***************************************************************************)
(* LocalOperationsHealth: which rows of the ledger need the operator.      *)
(***************************************************************************)

\* What is an issue in which status: at once, or when it is old.
Rule(kind, statuses, stale, type, severity) ==
    {[kind |-> kind, status |-> s, stale |-> stale, type |-> type,
      severity |-> severity] : s \in statuses}

\* "error" is as "failed" here, and "active" as "ready".
SourceRules ==
    Rule("source", {"failed", "needs_authorization"}, FALSE,
         "source_connector_unavailable", "high")
    \cup Rule("source", {"partial", "missing", "needs_configuration"}, FALSE,
              "source_connector_unavailable", "medium")
    \cup Rule("source", {"ready", "syncing"}, TRUE,
              "stale_source_connector", "medium")

DocumentRules ==
    Rule("review", {"pending", "in_review"}, TRUE,
         "stale_review_item", "medium")
    \cup Rule("document", {"imported", "processing", "needs_review"}, TRUE,
              "stuck_document", "medium")
    \cup Rule("document", {"failed"}, FALSE, "failed_document", "high")

RouteRules ==
    Rule("route", {"blocked_duplicate", "blocked_review", "blocked_status",
                   "needs_review", "unsupported_target"}, FALSE,
         "routing_block", "medium")
    \cup Rule("route", {"draft_prepared", "needs_confirmation", "queued"},
              TRUE, "stale_routing_draft", "low")

\* A deferred export is old when its retry is due.  Supervised exports wait
\* for the operator without an issue.
ExportRules ==
    Rule("export", {"approval_required", "prepared"}, TRUE,
         "stale_export_approval", "low")
    \cup Rule("export", {"approved"}, TRUE, "stale_export_approved", "medium")
    \cup Rule("export", {"execution_in_progress"}, TRUE,
              "stuck_export_execution", "high")
    \cup Rule("export", {"deferred"}, TRUE, "deferred_export_retry_due", "low")
    \cup Rule("export", {"failed"}, FALSE, "failed_export_attempt", "high")

\* A failed run with a recovery run is none.
RunRules ==
    Rule("run", {"running"}, TRUE, "stale_workflow_run", "high")
    \cup Rule("run", {"failed", "error", "completed_with_errors"}, FALSE,
              "failed_workflow_run", "medium")
    \cup Rule("picker", {"creating", "awaiting_user_selection", "collecting"},
              TRUE, "stale_picker_session", "medium")
    \cup Rule("picker", {"partial", "completed_cleanup_required"}, FALSE,
              "picker_session_attention", "medium")

ReportRules ==
    Rule("report", {"failed"}, FALSE, "failed_financial_report_run", "medium")
    \cup Rule("report", {"prepared_needs_review"}, FALSE,
              "financial_report_needs_review", "low")
    \cup Rule("report", {"running"}, TRUE,
              "stale_financial_report_run", "high")

\* An invoice is due soon, and old when it is overdue.
WaveRules ==
    Rule("sync", {"failed", "partial"}, FALSE,
         "failed_wave_entity_sync", "medium")
    \cup Rule("sync", {"completed", "running"}, TRUE,
              "stale_wave_entity_sync", "low")
    \cup Rule("invoice", {"due"}, FALSE, "wave_invoice_due_soon", "low")
    \cup Rule("invoice", {"unpaid"}, TRUE, "wave_invoice_overdue", "medium")
    \cup Rule("entities", {"missing"}, FALSE,
              "wave_entities_missing_downstream", "medium")

\* Findings of the latest assessment, blocked rows of the master ledger, and
\* exhausted quotas.
OtherRules ==
    Rule("finding", {"open", "acknowledged"}, FALSE, "compliance_finding",
         "high")
    \cup Rule("master", {"blocked"}, FALSE, "master_ledger_blockers", "medium")
    \cup Rule("quota", {"exhausted"}, FALSE, "api_quota_exhausted", "high")

Rules == SourceRules \cup DocumentRules \cup RouteRules \cup ExportRules
         \cup RunRules \cup ReportRules \cup WaveRules \cup OtherRules

RulesOf(kind) == {r \in Rules : r.kind = kind}
=============================================================================
