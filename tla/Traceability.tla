---------------------------- MODULE Traceability ----------------------------
(***************************************************************************)
(* The traceability checker (tools/check_requirements.py) and the baseline *)
(* of reviewed fingerprints that it compares with                          *)
(* (tools/traceability_baseline.py, tools/update_traceability_baseline.py).*)
(*                                                                         *)
(* The documents are a record: "requirements" is the set of rows of        *)
(* REQUIREMENTS.md, each with the set of reports that its evidence names   *)
(* ("text" is its text and method), "matrix" the rows of                   *)
(* VERIFICATION_MATRIX.csv with their verification cases, "tests" the       *)
(* registered CTests, "scenarios" maps a scenario to the requirements it   *)
(* lists, "controlled" is CONTROLLED_INTERFACE_PATHS and "interfaces" the   *)
(* contents of the files that exist.                                       *)
(***************************************************************************)
EXTENDS Naturals, FiniteSets

Ids(rows) == {row.id : row \in rows}

UniqueIds(rows) == Cardinality(Ids(rows)) = Cardinality(rows)

ParseRequirementsDoc(docs) == docs.requirements # {} /\ UniqueIds(docs.requirements)

ParseVerificationMatrix(docs) ==
  /\ UniqueIds(docs.matrix)
  /\ \A entry \in docs.matrix : entry.status = "Planned" \/ entry.cases # {}

-----------------------------------------------------------------------------
(* What is reviewed: the evidence of a requirement is not part of it. *)
RequirementFingerprint(row) == [id |-> row.id, text |-> row.text, status |-> row.status]

(* update_traceability_baseline.py refuses documents it cannot read and a missing   *)
(* interface; what it writes is the fingerprints of the moment.                     *)
CanBuildPayload(docs) == ParseRequirementsDoc(docs) /\ docs.controlled \subseteq DOMAIN docs.interfaces

BuildTraceabilityPayload(docs) ==
  [requirements          |-> {RequirementFingerprint(row) : row \in docs.requirements},
   controlled_interfaces |-> [path \in docs.controlled |-> docs.interfaces[path]]]

(* The baseline file is missing. *)
NoBaseline == [requirements |-> {}, controlled_interfaces |-> [path \in {} |-> 0]]

-----------------------------------------------------------------------------
(* The problems that the checker reports. *)
MatrixConsistencyProblems(docs) ==
  {<<"missing from matrix", id>> : id \in Ids(docs.requirements) \ Ids(docs.matrix)}
  \cup {<<"unknown requirement", id>> : id \in Ids(docs.matrix) \ Ids(docs.requirements)}
  \cup {<<"status mismatch", row.id>> :
          row \in {r \in docs.requirements :
                     \E entry \in docs.matrix : entry.id = r.id /\ entry.status # r.status}}

ReverseTestAllocationProblems(docs) ==
  {<<"no requirement allocation", test>> :
     test \in docs.tests \ UNION {entry.cases : entry \in docs.matrix}}

(* Mutant: a requirement that was reviewed and is gone is not noticed. *)
MutReviewedRequirementProblems(docs, baseline) ==
  {<<"requirement added or changed", row.id>> :
     row \in {r \in docs.requirements : RequirementFingerprint(r) \notin baseline.requirements}}

ReviewedRequirementProblems(docs, baseline) ==
  {<<"requirement added or changed", row.id>> :
     row \in {r \in docs.requirements : RequirementFingerprint(r) \notin baseline.requirements}}
  \cup {<<"requirement removed", id>> : id \in Ids(baseline.requirements) \ Ids(docs.requirements)}

ReviewedInterfaceProblems(docs, baseline) ==
  LET reviewed == DOMAIN baseline.controlled_interfaces
  IN  {<<"interface missing from baseline", path>> : path \in docs.controlled \ reviewed}
      \cup {<<"unexpected interface", path>> : path \in reviewed \ docs.controlled}
      \cup {<<"interface missing or changed", path>> :
              path \in {p \in docs.controlled \cap reviewed :
                          \/ p \notin DOMAIN docs.interfaces
                          \/ docs.interfaces[p] # baseline.controlled_interfaces[p]}}

ReviewedBaselineProblems(docs, baseline) ==
  IF baseline = NoBaseline THEN {<<"baseline is missing", "">>}
  ELSE ReviewedRequirementProblems(docs, baseline) \cup ReviewedInterfaceProblems(docs, baseline)

ScenarioProblems(docs) ==
  UNION {{<<"scenario references unknown requirement", id>> :
            id \in docs.scenarios[s] \ Ids(docs.requirements)} : s \in DOMAIN docs.scenarios}

Problems(docs, baseline) ==
  MatrixConsistencyProblems(docs) \cup ReverseTestAllocationProblems(docs)
  \cup ReviewedBaselineProblems(docs, baseline) \cup ScenarioProblems(docs)

-----------------------------------------------------------------------------
(* The disposition of a requirement, given the reports that say they passed.        *)
Linked(docs, row) == {s \in DOMAIN docs.scenarios : row.id \in docs.scenarios[s]}

RequirementResult(docs, row, passing) ==
  CASE row.status = "Planned"    -> "PLANNED"
    [] row.status = "Historical" -> "HISTORICAL"
    [] OTHER ->
         IF ~(Linked(docs, row) \subseteq passing) THEN "FAIL"
         ELSE IF Linked(docs, row) # {} \/ row.evidence \cap passing # {} THEN "PASS"
         ELSE "MANUAL"

RequirementResults(docs, passing) ==
  [id \in Ids(docs.requirements) |->
     RequirementResult(docs, CHOOSE row \in docs.requirements : row.id = id, passing)]

(* A document that cannot be read ends the checker before it writes its report. *)
Readable(docs) == ParseRequirementsDoc(docs) /\ ParseVerificationMatrix(docs)

RequirementCheckPasses(docs, baseline, passing) ==
  /\ Readable(docs)
  /\ Problems(docs, baseline) = {}
  /\ \A id \in Ids(docs.requirements) : RequirementResults(docs, passing)[id] # "FAIL"
=============================================================================
