CONSTANTS
  MinimumCases = 5
  Content <- MCContent
  Facts <- MCFacts
  FirstContent = "in_order"
  BuildDir = {"build", "build-pi", "sanitizers"}
  Arguments <- MCArguments
  ReportName = {"hil_smoke_test", "sensor_timeout", "fdir", "monte_carlo", "pi_package", "protocol", "requirements", "assistant_eval"}
  MaxRuns = 1
  MaxActs = 3
  Edits <- MCEdits
SPECIFICATION Spec
INVARIANTS EvidenceAgrees ManifestNamesTested AcceptedIsVerified ReportsAreFresh PassedWasReviewed
CHECK_DEADLOCK FALSE
