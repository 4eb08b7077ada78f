-------------------------- MODULE AssuranceWorkflow --------------------------
(***************************************************************************)
(* The assurance workflow (tools/run_astra_os_assurance.py) with the tools *)
(* that its stages start, above all tools/run_all_scenarios.py, and the    *)
(* evidence that they leave on disk: reports, the summary and the          *)
(* provenance manifest.  The workflow shares the working tree with a       *)
(* developer, who edits, reviews, commits and starts single tools while it *)
(* runs; it may be interrupted or killed.                                  *)
(*                                                                         *)
(* What is true of the content of a tree is a record: the documents of     *)
(* Traceability, the permissions of AssuranceAssistant, the tables of the  *)
(* protocol, and of its code that it "passes" its unit tests, "flies" its  *)
(* scenarios, has so many "guards" for the mutation, "kills" the mutant.    *)
(***************************************************************************)
EXTENDS Traceability, AssuranceAssistant

CONSTANTS
  Content,          \* contents of a tree
  Facts,            \* what is true of each of them
  FirstContent,     \* the content at the beginning, reviewed and committed
  BuildDir,         \* directories with binaries
  Arguments,        \* command lines of the workflow
  ReportName,       \* names of reports: the scenarios and the other tools
  MaxRuns,          \* bound on the runs of the workflow
  MaxActs,          \* bound on what the developer does
  Edits             \* bound: the contents that an edit turns into one another

(* The reports that are not of a scenario. *)
ToolReport == {"fdir", "monte_carlo", "pi_package", "protocol", "requirements", "assistant_eval"}

ASSUME WorkflowAssumption ==
  /\ {"build", "sanitizers"} \subseteq BuildDir
  /\ Arguments # {}
  /\ Arguments \subseteq [quick : BOOLEAN, skip_monte_carlo : BOOLEAN, skip_pi_package : BOOLEAN,
                          build_dir : BuildDir \ {"sanitizers"}]
  /\ FirstContent \in Content /\ CanBuildPayload(Facts[FirstContent])
  /\ ToolReport \subseteq ReportName
  /\ \A c \in Content : /\ DOMAIN Facts[c].scenarios \subseteq ReportName \ ToolReport
                        /\ IsFiniteSet(Facts[c].requirements)
  /\ {MaxRuns, MaxActs} \subseteq Nat
  /\ Edits \subseteq Content \X Content

VARIABLES
  tree,       \* the working tree: its content and its traceability baseline
  head,       \* what is committed
  acts,       \* how often the developer has done something
  binary,     \* the content that the binaries of a directory were built from, if any
  reports,    \* the reports on disk
  summary,    \* reports/latest/assurance_summary.json
  manifest,   \* reports/latest/baseline_manifest.json
  work,       \* the workflow process: its last run
  saw,        \* history: the content that the stages of the run looked at, "nothing" or "several"
  moved,      \* history: the sources changed during the run, and no trace of it is left
  reviewed    \* history: what has been reviewed

repositoryVars == <<tree, head, acts, moved, reviewed>>
vars == <<repositoryVars, binary, reports, summary, manifest, work, saw>>

NoBinary == [built |-> FALSE]

Built(content) == [built |-> TRUE, content |-> content]

Sources == Facts[tree.content]

See(content, seen) == IF seen \in {"nothing", content} THEN content ELSE "several"

-----------------------------------------------------------------------------
(* The planned stages; full_verification is the sequence of tools of               *)
(* run_all_scenarios.py.                                                           *)
VerificationTools ==
  {"build_and_unit_tests", "scenarios", "fdir", "monte_carlo", "pi_package", "protocol",
   "requirements", "assistant_eval"}

FullVerification(args) ==
  <<"build_and_unit_tests", "scenarios", "fdir">>
  \o (IF args.skip_monte_carlo THEN <<>> ELSE <<"monte_carlo">>)
  \o (IF args.skip_pi_package THEN <<>> ELSE <<"pi_package">>)
  \o <<"protocol", "requirements", "assistant_eval">>

FullOnly == <<"configure_sanitizers", "build_sanitizers", "test_sanitizers", "controlled_mutation">>

Planned(args) ==
  <<"source_cleanliness", "python_tool_tests">> \o FullVerification(args)
  \o (IF args.quick THEN <<>> ELSE FullOnly)

StageOf(tool) == IF tool \in VerificationTools THEN "full_verification" ELSE tool

PlannedStages(args) == {StageOf(tool) : tool \in ToSet(Planned(args))}

Following(tool) ==
  LET plan == Planned(work.args)
      next == CHOOSE i \in DOMAIN plan : plan[i] = tool
  IN  IF next = Len(plan) THEN "write_summary" ELSE plan[next + 1]

(* A tool has ended.  The first one that fails ends the planned stages. *)
Conclude(ok) ==
  LET next == IF ok THEN Following(work.pc) ELSE "write_summary"
      over == ~ok \/ StageOf(work.pc) # StageOf(next)
  IN  work' = [work EXCEPT !.pc = next,
                           !.status = IF ok THEN @ ELSE "failed",
                           !.results = IF over THEN @ \cup {<<StageOf(work.pc), ok>>} ELSE @]

-----------------------------------------------------------------------------
(* The reports of an earlier time that are in the repository. *)
CommittedReports(docs) ==
  [name \in ReportName |->
     IF name = "requirements"
       THEN [run |-> 0, result |-> "PASS", of |-> BuildTraceabilityPayload(docs)]
       ELSE [run |-> 0, result |-> "PASS"]]

Init ==
  /\ tree = [content |-> FirstContent, baseline |-> BuildTraceabilityPayload(Facts[FirstContent])]
  /\ binary = [dir \in BuildDir |-> IF dir \in {"build", "sanitizers"} THEN NoBinary ELSE Built(FirstContent)]
  /\ head = tree
  /\ acts = 0
  /\ reports = CommittedReports(Sources)
  /\ summary = [run |-> 0, status |-> "passed", stages |-> {}]
  /\ manifest = [run |-> 0, status |-> "passed", inputs |-> tree, commit |-> head, source_dirty |-> FALSE]
  /\ work = [run |-> 0, pc |-> "idle", args |-> CHOOSE args \in Arguments : TRUE,
             status |-> "passed", error |-> FALSE, results |-> {}, exit |-> "none"]
  /\ saw = "nothing"
  /\ moved = FALSE
  /\ reviewed = {tree.baseline}

Start(args) ==
  /\ work.pc = "idle" /\ work.run < MaxRuns
  /\ work' = [run |-> work.run + 1, pc |-> Head(Planned(args)), args |-> args,
              status |-> "passed", error |-> FALSE, results |-> {}, exit |-> "none"]
  /\ saw' = "nothing" /\ moved' = FALSE
  /\ UNCHANGED <<tree, head, acts, reviewed, binary, reports, summary, manifest>>

Running == work.pc # "idle"

-----------------------------------------------------------------------------
(* What git status lists besides the sources: any changes below reports/ and dist/. *)
Generated == {"reports/", "dist/"}

(* Mutant: configuration counts as generated. *)
MutSourceDirtyPaths(paths) == paths \ (Generated \cup {"baseline"})

SourceDirtyPaths(paths) == paths \ Generated

DirtyPaths(generated) == {path \in DOMAIN tree : tree[path] # head[path]} \cup generated

SourceDirty(generated) == SourceDirtyPaths(DirtyPaths(generated)) # {}

(* check_source_cleanliness.py: git may fail. *)
SourceCleanliness ==
  /\ work.pc = "source_cleanliness"
  /\ saw' = See(tree.content, saw)
  /\ \E git_works \in BOOLEAN, generated \in SUBSET Generated :
       Conclude(git_works /\ ~SourceDirty(generated))
  /\ UNCHANGED <<repositoryVars, binary, reports, summary, manifest>>

(* A stage that only reads the tree and may fail for reasons of its own. *)
ExternalStage ==
  /\ work.pc \in {"python_tool_tests", "configure_sanitizers"}
  /\ saw' = See(tree.content, saw)
  /\ \E ok \in BOOLEAN : Conclude(ok)
  /\ UNCHANGED <<repositoryVars, binary, reports, summary, manifest>>

(* Mutant: the script goes on after ctest has failed. *)
MutBuildAndUnitTests ==
  /\ work.pc = "build_and_unit_tests"
  /\ saw' = See(tree.content, saw)
  /\ \E compiles, ok \in BOOLEAN :
       /\ binary' = [binary EXCEPT !["build"] = IF compiles THEN Built(tree.content) ELSE NoBinary]
       /\ Conclude(compiles /\ ok)
  /\ UNCHANGED <<repositoryVars, reports, summary, manifest>>

(* ci/run_local_tests.sh removes build/, builds and tests there, whatever directory  *)
(* the other tools are told to use.                                                 *)
BuildAndUnitTests ==
  /\ work.pc = "build_and_unit_tests"
  /\ saw' = See(tree.content, saw)
  /\ \E compiles, ok \in BOOLEAN :
       /\ binary' = [binary EXCEPT !["build"] = IF compiles THEN Built(tree.content) ELSE NoBinary]
       /\ Conclude(compiles /\ ok /\ Sources.code.passes)
  /\ UNCHANGED <<repositoryVars, reports, summary, manifest>>

(* The sanitizer build has a directory of its own, which is not emptied. *)
BuildSanitizers ==
  /\ work.pc = "build_sanitizers"
  /\ saw' = See(tree.content, saw)
  /\ \E compiles \in BOOLEAN :
       /\ binary' = IF compiles THEN [binary EXCEPT !["sanitizers"] = Built(tree.content)] ELSE binary
       /\ Conclude(compiles)
  /\ UNCHANGED <<repositoryVars, reports, summary, manifest>>

TestSanitizers ==
  /\ work.pc = "test_sanitizers"
  /\ saw' = See(binary["sanitizers"].content, saw)
  /\ \E ok \in BOOLEAN : Conclude(ok /\ Facts[binary["sanitizers"].content].code.passes)
  /\ UNCHANGED <<repositoryVars, binary, reports, summary, manifest>>

-----------------------------------------------------------------------------
(* The tools that run the flight program of the chosen directory, and their reports. *)
Binary == binary[work.args.build_dir]

Flies == Binary.built /\ Facts[Binary.content].code.flies

Report(result) == [run |-> work.run, result |-> result]

(* run_scenario.py writes a report, unless the program is missing or a command       *)
(* cannot be sent: then an older report stays.                                       *)
AfterScenarios(outcome) ==
  [name \in ReportName |->
     IF name \in DOMAIN outcome /\ outcome[name] # "CRASH" THEN Report(outcome[name])
     ELSE reports[name]]

(* All scenarios are run, also after one has failed, and there has to be one. *)
ScenariosPass(outcome) ==
  DOMAIN outcome # {} /\ \A name \in DOMAIN outcome : outcome[name] = "PASS"

SeeBinary == IF Binary.built THEN See(Binary.content, See(tree.content, saw)) ELSE See(tree.content, saw)

ScenarioOutcomes ==
  {outcome \in [DOMAIN Sources.scenarios -> {"PASS", "FAIL", "CRASH"}] :
     /\ ~Flies => \E name \in DOMAIN outcome : outcome[name] # "PASS"
     /\ ~Binary.built => \A name \in DOMAIN outcome : outcome[name] = "CRASH"}

RunScenarios ==
  /\ work.pc = "scenarios"
  /\ saw' = SeeBinary
  /\ \E outcome \in ScenarioOutcomes :
       /\ reports' = AfterScenarios(outcome)
       /\ Conclude(ScenariosPass(outcome))
  /\ UNCHANGED <<repositoryVars, binary, summary, manifest>>

(* What the trials of a campaign end in, if they can all pass or not; "TIMEOUT" is one   *)
(* that had printed something.                                                         *)
TrialOutcomes(can_pass) ==
  SUBSET {"PASS", "FAIL", "QUIET_TIMEOUT", "TIMEOUT"} \ (IF can_pass THEN {{}} ELSE {{}, {"PASS"}})

Verdict(outcomes) == IF outcomes = {"PASS"} THEN "PASS" ELSE "FAIL"

(* run_fdir_campaign.py joins the printed bytes with a text: it ends without a report. *)
AfterFdir(outcomes) ==
  IF "TIMEOUT" \in outcomes THEN reports
  ELSE [reports EXCEPT !["fdir"] = Report(Verdict(outcomes))]

FdirCampaign ==
  /\ work.pc = "fdir"
  /\ saw' = SeeBinary
  /\ \E outcomes \in TrialOutcomes(Flies) :
       /\ reports' = AfterFdir(outcomes)
       /\ Conclude(outcomes = {"PASS"})
  /\ UNCHANGED <<repositoryVars, binary, summary, manifest>>

(* Mutant: the report is written for the failures only. *)
MutMonteCarloReport(outcomes) ==
  IF outcomes = {"PASS"} THEN reports["monte_carlo"] ELSE Report("FAIL")

(* run_monte_carlo.py records a time-out as a failed trial; the reports of single     *)
(* trials are removed.                                                              *)
MonteCarloReport(outcomes) == Report(Verdict(outcomes))

MonteCarlo ==
  /\ work.pc = "monte_carlo"
  /\ saw' = SeeBinary
  /\ \E outcomes \in TrialOutcomes(Binary.built) :
       /\ reports' = [reports EXCEPT !["monte_carlo"] = MonteCarloReport(outcomes)]
       /\ Conclude(outcomes = {"PASS"})
  /\ UNCHANGED <<repositoryVars, binary, summary, manifest>>

(* package_pi_deployment.sh builds the chosen directory, after the campaigns used it. *)
AfterPackaging == [reports EXCEPT !["pi_package"] = Report("PASS")]

PiPackage ==
  /\ work.pc = "pi_package"
  /\ saw' = See(tree.content, saw)
  /\ \E builds, ok \in BOOLEAN :
       /\ ok => builds
       /\ binary' = IF builds THEN [binary EXCEPT ![work.args.build_dir] = Built(tree.content)] ELSE binary
       /\ reports' = IF ok THEN AfterPackaging ELSE reports
       /\ Conclude(ok)
  /\ UNCHANGED <<repositoryVars, summary, manifest>>

-----------------------------------------------------------------------------
(* The tools that look at the tree. *)

(* check_protocol_conformance.py: every copy of the tables against the manifest's; a  *)
(* table that is absent ends it without a report.                                    *)
Tables == Sources.protocol

ProtocolAgrees(protocol) == \A copy \in DOMAIN protocol : protocol[copy] = protocol["manifest"]

TablesFound == \A copy \in DOMAIN Tables : Tables[copy] # "absent"

AfterProtocolCheck ==
  IF ~TablesFound THEN reports
  ELSE [reports EXCEPT !["protocol"] = Report(IF ProtocolAgrees(Tables) THEN "PASS" ELSE "FAIL")]

CheckProtocol ==
  /\ work.pc = "protocol"
  /\ saw' = See(tree.content, saw)
  /\ reports' = AfterProtocolCheck
  /\ Conclude(TablesFound /\ ProtocolAgrees(Tables))
  /\ UNCHANGED <<repositoryVars, binary, summary, manifest>>

(* What check_requirements.py finds on disk: the reports that say they passed, the     *)
(* summary of an earlier run among them.  The reports on the protocol and on the        *)
(* requirements have other words.                                                      *)
Passing ==
  {name \in ReportName \ {"protocol", "requirements"} : reports[name].result = "PASS"}
  \cup (IF summary.status = "passed" THEN {"summary"} ELSE {})

RequirementsVerdict == RequirementCheckPasses(Sources, tree.baseline, Passing)

AfterRequirementCheck(run) ==
  IF ~Readable(Sources) THEN reports
  ELSE [reports EXCEPT !["requirements"] =
          [run |-> run, result |-> IF RequirementsVerdict THEN "PASS" ELSE "FAIL",
           of |-> BuildTraceabilityPayload(Sources)]]

CheckRequirements ==
  /\ work.pc = "requirements"
  /\ saw' = See(tree.content, saw)
  /\ reports' = AfterRequirementCheck(work.run)
  /\ Conclude(RequirementsVerdict)
  /\ UNCHANGED <<repositoryVars, binary, summary, manifest>>

AssistantObeys == EvaluationPasses(Sources.cases, Sources.policy, Sources.files)

AfterEvaluation ==
  IF ~EvaluationLoads(Sources.cases) THEN reports
  ELSE [reports EXCEPT !["assistant_eval"] = Report(IF AssistantObeys THEN "PASS" ELSE "FAIL")]

AssistantEval ==
  /\ work.pc = "assistant_eval"
  /\ saw' = See(tree.content, saw)
  /\ reports' = AfterEvaluation
  /\ Conclude(EvaluationLoads(Sources.cases) /\ AssistantObeys)
  /\ UNCHANGED <<repositoryVars, binary, summary, manifest>>

(* run_controlled_mutation.py works on a copy of the tree; the guard must be there     *)
(* once, the copy must build, and its tests must fail.                                *)
ControlledMutation ==
  /\ work.pc = "controlled_mutation"
  /\ saw' = See(tree.content, saw)
  /\ \E compiles \in BOOLEAN :
       Conclude(Sources.code.guards = 1 /\ compiles /\ Sources.code.kills)
  /\ UNCHANGED <<repositoryVars, binary, reports, summary, manifest>>

-----------------------------------------------------------------------------
(* The end of a run. *)

(* What a tool that is stopped with the process may have left: ci/run_local_tests.sh      *)
(* removes build/ before it builds, some of the scenarios have been run and reported,     *)
(* and every other tool writes its report as the last thing it does.                      *)
HalfBuilt ==
  CASE work.pc = "build_and_unit_tests" -> {[binary EXCEPT !["build"] = b] : b \in {NoBinary, Built(tree.content)}}
    [] work.pc = "build_sanitizers"     -> {[binary EXCEPT !["sanitizers"] = Built(tree.content)]}
    [] work.pc = "pi_package"           -> {[binary EXCEPT ![work.args.build_dir] = Built(tree.content)]}
    [] OTHER                            -> {}

HalfReported ==
  CASE work.pc = "scenarios"      -> {AfterScenarios(outcome) : outcome \in ScenarioOutcomes}
    [] work.pc = "fdir"           -> {AfterFdir(outcomes) : outcomes \in TrialOutcomes(Flies)}
    [] work.pc = "monte_carlo"    ->
         {[reports EXCEPT !["monte_carlo"] = MonteCarloReport(outcomes)] :
            outcomes \in TrialOutcomes(Binary.built)}
    [] work.pc = "pi_package"     -> {AfterPackaging}
    [] work.pc = "protocol"       -> {AfterProtocolCheck}
    [] work.pc = "requirements"   -> {AfterRequirementCheck(work.run)}
    [] work.pc = "assistant_eval" -> {AfterEvaluation}
    [] OTHER                      -> {}

HalfDone ==
  /\ binary' \in {binary} \cup HalfBuilt
  /\ reports' \in {reports} \cup HalfReported

(* Ctrl-C, or a program that cannot be started: the stage leaves no result. *)
Interrupt ==
  /\ work.pc \in ToSet(Planned(work.args))
  /\ work' = [work EXCEPT !.pc = "write_summary", !.status = "failed"]
  /\ HalfDone
  /\ UNCHANGED <<repositoryVars, summary, manifest, saw>>

(* An exception that main does not expect, such as output that is no text: the summary *)
(* and the manifest are written with the status of the stages before, and then the       *)
(* process ends with the exception.                                                      *)
UnexpectedError ==
  /\ work.pc \in ToSet(Planned(work.args))
  /\ work' = [work EXCEPT !.pc = "write_summary", !.error = TRUE]
  /\ HalfDone
  /\ UNCHANGED <<repositoryVars, summary, manifest, saw>>

Summary(status) == [run |-> work.run, status |-> status, stages |-> work.results]

WriteSummary ==
  /\ work.pc = "write_summary"
  /\ summary' = Summary(work.status)
  /\ work' = [work EXCEPT !.pc = "generate_manifest"]
  /\ UNCHANGED <<repositoryVars, binary, reports, manifest, saw>>

Exit(w) == IF w.status = "passed" /\ ~w.error THEN "0" ELSE "1"

(* The manifest describes the tree at the end of the run. *)
BuildManifest(generated) ==
  [run |-> work.run, status |-> work.status, inputs |-> tree, commit |-> head,
   source_dirty |-> SourceDirty(generated)]

GenerateManifest ==
  /\ work.pc = "generate_manifest"
  /\ \E generated \in SUBSET Generated : manifest' = BuildManifest(generated)
  /\ work' = [work EXCEPT !.pc = "idle", !.exit = Exit(work)]
  /\ UNCHANGED <<repositoryVars, binary, reports, summary, saw>>

(* Mutant: the summary is left as it was written. *)
MutManifestFails ==
  /\ work.pc = "generate_manifest"
  /\ work' = [work EXCEPT !.pc = "idle", !.status = "failed", !.exit = "1"]
  /\ UNCHANGED <<repositoryVars, binary, reports, summary, manifest, saw>>

(* The manifest cannot be generated: an older one stays. *)
ManifestFails ==
  /\ work.pc = "generate_manifest"
  /\ work' = [work EXCEPT !.pc = "rewrite_summary", !.status = "failed"]
  /\ UNCHANGED <<repositoryVars, binary, reports, summary, manifest, saw>>

RewriteSummary ==
  /\ work.pc = "rewrite_summary"
  /\ summary' = Summary(work.status)
  /\ work' = [work EXCEPT !.pc = "idle", !.exit = Exit(work)]
  /\ UNCHANGED <<repositoryVars, binary, reports, manifest, saw>>

(* The process is killed, or interrupted again while it tidies up. *)
Kill ==
  /\ Running
  /\ work' = [work EXCEPT !.pc = "idle", !.exit = "killed"]
  /\ HalfDone
  /\ UNCHANGED <<repositoryVars, summary, manifest, saw>>

-----------------------------------------------------------------------------
(* The developer. *)

(* Nothing shows any more that the sources have changed during the run. *)
NoteMove(same) == moved' = (moved \/ (Running /\ same))

Edit(content) ==
  /\ content # tree.content /\ <<tree.content, content>> \in Edits
  /\ tree' = [tree EXCEPT !.content = content]
  /\ NoteMove(tree' = head)
  /\ UNCHANGED <<head, reviewed, binary, reports, summary, manifest, work, saw>>

(* update_traceability_baseline.py, once the documents have been reviewed. *)
UpdateTraceabilityBaseline ==
  /\ CanBuildPayload(Sources)
  /\ tree' = [tree EXCEPT !.baseline = BuildTraceabilityPayload(Sources)]
  /\ tree' # tree
  /\ reviewed' = reviewed \cup {tree'.baseline}
  /\ NoteMove(tree' = head)
  /\ UNCHANGED <<head, binary, reports, summary, manifest, work, saw>>

Commit ==
  /\ tree # head
  /\ head' = tree
  /\ NoteMove(TRUE)
  /\ UNCHANGED <<tree, reviewed, binary, reports, summary, manifest, work, saw>>

Checkout ==
  /\ tree # head
  /\ tree' = head
  /\ NoteMove(TRUE)
  /\ UNCHANGED <<head, reviewed, binary, reports, summary, manifest, work, saw>>

(* Single tools, whose reports are not of a run of the workflow. *)
CheckRequirementsAlone ==
  /\ reports' = AfterRequirementCheck(0)
  /\ UNCHANGED <<tree, head, moved, reviewed, binary, summary, manifest, work, saw>>

(* run_hil_smoke_test.py is one scenario of its own. *)
HilSmokeTest(dir) ==
  /\ "hil_smoke_test" \in DOMAIN Sources.scenarios
  /\ binary[dir].built
  /\ \E result \in {"PASS", "FAIL"} :
       /\ result = "PASS" => Facts[binary[dir].content].code.flies
       /\ reports' = [reports EXCEPT !["hil_smoke_test"] = [run |-> 0, result |-> result]]
  /\ UNCHANGED <<tree, head, moved, reviewed, binary, summary, manifest, work, saw>>

(* Bound: once the last run has failed, broken off or ended nobody does anything more. *)
Developer ==
  /\ acts < MaxActs
  /\ work.run < MaxRuns \/ (Running /\ work.status = "passed" /\ ~work.error)
  /\ acts' = acts + 1
  /\ \/ \E content \in Content : Edit(content)
     \/ UpdateTraceabilityBaseline \/ Commit \/ Checkout
     \/ CheckRequirementsAlone
     \/ \E dir \in BuildDir \ {"sanitizers"} : HilSmokeTest(dir)

Workflow ==
  \/ SourceCleanliness \/ ExternalStage \/ BuildAndUnitTests \/ RunScenarios \/ FdirCampaign
  \/ MonteCarlo \/ PiPackage \/ CheckProtocol \/ CheckRequirements \/ AssistantEval
  \/ BuildSanitizers \/ TestSanitizers \/ ControlledMutation
  \/ WriteSummary \/ GenerateManifest \/ ManifestFails \/ RewriteSummary

Next ==
  \/ \E args \in Arguments : Start(args)
  \/ Workflow \/ Interrupt \/ UnexpectedError \/ Kill
  \/ Developer

Spec == Init /\ [][Next]_vars

-----------------------------------------------------------------------------
Accepted == work.pc = "idle" /\ work.exit = "0"

(* The summary says passed and lists every stage that the run had to go through. *)
Complete ==
  /\ summary.run = work.run /\ summary.status = "passed"
  /\ summary.stages = {<<stage, TRUE>> : stage \in PlannedStages(work.args)}

(* The exit code and the files agree on a run that came to its end: exactly if it is    *)
(* accepted, its summary says passed and lists all its stages, and the manifest is its   *)
(* own.  (Of a run that ended with an unexpected error both files say passed; only the   *)
(* list of stages and the exit code tell.)                                              *)
EvidenceAgrees ==
  work.pc = "idle" /\ work.exit \in {"0", "1"} =>
    /\ summary.run = work.run
    /\ Accepted <=> Complete
    /\ Accepted => manifest.run = work.run /\ manifest.status = "passed"

(* The manifest is written at the end of a run and describes the sources of that       *)
(* moment.  It is to be trusted if it calls them clean; but a change that is committed   *)
(* or taken back during the run leaves nothing that generate_baseline_manifest.py could  *)
(* see, and then it describes what was not tested.                                      *)
Trustworthy == Accepted /\ ~manifest.source_dirty /\ ~moved

(* The workflow flies what it has built: with another directory the scenarios and       *)
(* campaigns use binaries of an earlier time.                                           *)
FliesOwnBuild == work.args.build_dir = "build"

(* The sources that the manifest names are committed, and every stage looked at them,    *)
(* unless the campaigns were told to use a directory that is not built first.            *)
ManifestNamesTested ==
  Trustworthy => /\ manifest.commit = manifest.inputs
                 /\ FliesOwnBuild => saw = manifest.inputs.content

(* All that an accepted run is taken to say holds of the sources that its manifest     *)
(* names, that they fly their scenarios with the same exception: no failure of one of    *)
(* several trials, scenarios, cases or comparisons is lost on its way through three      *)
(* levels of exit codes.                                                               *)
AcceptedIsVerified ==
  Trustworthy =>
    LET c == Facts[manifest.inputs.content]
    IN  /\ c.code.passes
        /\ FliesOwnBuild => c.code.flies
        /\ ~work.args.quick => c.code.guards = 1 /\ c.code.kills
        /\ ProtocolAgrees(c.protocol)
        /\ EvaluationPasses(c.cases, c.policy, c.files)
        /\ manifest.inputs.baseline = BuildTraceabilityPayload(c)

(* No report of an earlier run passes for one of an accepted run: whatever the run was  *)
(* not told to skip has left a report of its own that says PASS, unless somebody has    *)
(* started that tool alone.                                                            *)
Alone == {"requirements", "hil_smoke_test"}

ReportsAreFresh ==
  Accepted =>
    \A name \in (ToolReport \cap ToSet(Planned(work.args)))
               \cup DOMAIN Facts[manifest.inputs.content].scenarios :
      \/ name \in Alone /\ reports[name].run = 0
      \/ reports[name].run = work.run /\ reports[name].result = "PASS"
      \/ moved \/ manifest.source_dirty

(* The requirement check passes only for requirements and interfaces that somebody has  *)
(* reviewed just as they are, through any order of edits, reviews, commits and           *)
(* checkouts.                                                                          *)
PassedWasReviewed == reports["requirements"].result = "PASS" => reports["requirements"].of \in reviewed
=============================================================================
