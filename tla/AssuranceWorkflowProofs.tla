----------------------- MODULE AssuranceWorkflowProofs -----------------------
(***************************************************************************)
(* The evidence of the assurance workflow for any sources, any command     *)
(* lines, any number of runs and any interleaving with a developer.        *)
(***************************************************************************)
EXTENDS AssuranceWorkflow, FiniteSetTheorems, SequenceTheorems, TLAPS

-----------------------------------------------------------------------------
(* The traceability checker. *)

(* Distinct rows have distinct identifiers: counting them is enough.                 *)
LEMMA UniqueIdsDistinguish ==
  ASSUME NEW rows, IsFiniteSet(rows), UniqueIds(rows)
  PROVE  \A r1, r2 \in rows : r1.id = r2.id => r1 = r2
<1> DEFINE f == [row \in rows |-> row.id]
<1>1. f \in Surjection(rows, Ids(rows))
  BY DEF Surjection, Ids
<1>2. f \in Injection(rows, Ids(rows))
  <2>1. Cardinality(rows) = Cardinality(Ids(rows))
    BY DEF UniqueIds
  <2> HIDE DEF f
  <2> QED
    BY <1>1, <2>1, FS_SurjSameCardinalityImpliesInj
<1> QED
  BY <1>2 DEF Injection, IsInjective

(* A check that passes against a baseline written for readable documents passes for  *)
(* the documents that were reviewed: same requirements, same interfaces.              *)
LEMMA PassingMatchesBaseline ==
  ASSUME NEW docs, NEW reviewedDocs, NEW passing,
         IsFiniteSet(reviewedDocs.requirements), CanBuildPayload(reviewedDocs),
         RequirementCheckPasses(docs, BuildTraceabilityPayload(reviewedDocs), passing)
  PROVE  BuildTraceabilityPayload(docs) = BuildTraceabilityPayload(reviewedDocs)
<1> DEFINE baseline == BuildTraceabilityPayload(reviewedDocs)
<1>1. /\ baseline.requirements = {RequirementFingerprint(row) : row \in reviewedDocs.requirements}
      /\ baseline.controlled_interfaces =
           [path \in reviewedDocs.controlled |-> reviewedDocs.interfaces[path]]
  BY DEF BuildTraceabilityPayload
<1>2. ReviewedRequirementProblems(docs, baseline) = {} /\ ReviewedInterfaceProblems(docs, baseline) = {}
  BY DEF RequirementCheckPasses, Problems, ReviewedBaselineProblems
<1> HIDE DEF baseline
<1>3. {RequirementFingerprint(row) : row \in docs.requirements} = baseline.requirements
  <2>1. \A row \in docs.requirements : RequirementFingerprint(row) \in baseline.requirements
    BY <1>2 DEF ReviewedRequirementProblems
  <2>2. \A id \in Ids(baseline.requirements) : id \in Ids(docs.requirements)
    BY <1>2 DEF ReviewedRequirementProblems
  <2>3. \A r1, r2 \in reviewedDocs.requirements : r1.id = r2.id => r1 = r2
    BY UniqueIdsDistinguish DEF CanBuildPayload, ParseRequirementsDoc
  <2>4. ASSUME NEW old \in baseline.requirements
        PROVE  \E row \in docs.requirements : RequirementFingerprint(row) = old
    <3>1. PICK r1 \in reviewedDocs.requirements : old = RequirementFingerprint(r1)
      BY <1>1
    <3>2. old.id = r1.id
      BY <3>1 DEF RequirementFingerprint
    <3>3. PICK row \in docs.requirements : row.id = r1.id
      BY <2>2, <3>2 DEF Ids
    <3>4. PICK r2 \in reviewedDocs.requirements : RequirementFingerprint(row) = RequirementFingerprint(r2)
      BY <1>1, <2>1
    <3>5. r2.id = row.id
      BY <3>4 DEF RequirementFingerprint
    <3> QED
      BY <2>3, <3>1, <3>3, <3>4, <3>5
  <2> QED
    BY <2>1, <2>4
<1> DEFINE known == DOMAIN baseline.controlled_interfaces
           changed == {p \in docs.controlled \cap known :
                         \/ p \notin DOMAIN docs.interfaces
                         \/ docs.interfaces[p] # baseline.controlled_interfaces[p]}
<1>4. docs.controlled \ known = {} /\ known \ docs.controlled = {} /\ changed = {}
  <2>1. /\ {<<"interface missing from baseline", path>> : path \in docs.controlled \ known} = {}
        /\ {<<"unexpected interface", path>> : path \in known \ docs.controlled} = {}
        /\ {<<"interface missing or changed", path>> : path \in changed} = {}
    BY <1>2 DEF ReviewedInterfaceProblems
  <2> HIDE DEF known, changed
  <2> QED
    BY <2>1
<1>5. /\ docs.controlled = reviewedDocs.controlled
      /\ \A path \in docs.controlled : docs.interfaces[path] = reviewedDocs.interfaces[path]
  BY <1>1, <1>4
<1>6. [path \in docs.controlled |-> docs.interfaces[path]] = baseline.controlled_interfaces
  BY <1>1, <1>5
<1> QED
  BY <1>1, <1>3, <1>6 DEF BuildTraceabilityPayload

-----------------------------------------------------------------------------
(* The plan of a run. *)

Tool == VerificationTools \cup {"source_cleanliness", "python_tool_tests", "configure_sanitizers",
                                "build_sanitizers", "test_sanitizers", "controlled_mutation"}

(* The place of a tool in the order of all plans; what follows the tools comes last.  *)
Rank(tool) ==
  CASE tool = "source_cleanliness"   -> 1
    [] tool = "python_tool_tests"    -> 2
    [] tool = "build_and_unit_tests" -> 3
    [] tool = "scenarios"            -> 4
    [] tool = "fdir"                 -> 5
    [] tool = "monte_carlo"          -> 6
    [] tool = "pi_package"           -> 7
    [] tool = "protocol"             -> 8
    [] tool = "requirements"         -> 9
    [] tool = "assistant_eval"       -> 10
    [] tool = "configure_sanitizers" -> 11
    [] tool = "build_sanitizers"     -> 12
    [] tool = "test_sanitizers"      -> 13
    [] tool = "controlled_mutation"  -> 14
    [] OTHER                         -> 15

Tools(args) == ToSet(Planned(args))

(* A part of a plan: its tools are in order and take places from a to b.               *)
Segment(s, a, b) ==
  /\ s \in Seq(Tool)
  /\ \A i \in 1 .. Len(s) : Rank(s[i]) \in a .. b
  /\ \A i, j \in 1 .. Len(s) : i < j => Rank(s[i]) < Rank(s[j])

LEMMA SegmentsJoin ==
  ASSUME NEW a \in Nat, NEW b \in Nat, NEW c \in Nat, NEW d \in Nat, a <= b, b < c, c <= d,
         NEW s, NEW t, Segment(s, a, b), Segment(t, c, d)
  PROVE  Segment(s \o t, a, d) /\ ToSet(s \o t) = ToSet(s) \cup ToSet(t)
<1>1. s \in Seq(Tool) /\ t \in Seq(Tool) /\ Len(s) \in Nat /\ Len(t) \in Nat
  BY DEF Segment
<1>2. /\ s \o t \in Seq(Tool) /\ Len(s \o t) = Len(s) + Len(t)
      /\ \A i \in 1 .. Len(s) : (s \o t)[i] = s[i]
      /\ \A i \in 1 .. Len(t) : (s \o t)[Len(s) + i] = t[i]
      /\ \A i \in 1 .. Len(s \o t) : i \in 1 .. Len(s) \/ i - Len(s) \in 1 .. Len(t)
  BY <1>1
<1> DEFINE u == s \o t
<1>3. \A i \in 1 .. Len(u) : \/ i \in 1 .. Len(s) /\ u[i] = s[i]
                             \/ i - Len(s) \in 1 .. Len(t) /\ u[i] = t[i - Len(s)]
  BY <1>1, <1>2
<1> HIDE DEF u
<1>4. \A i \in 1 .. Len(u) : Rank(u[i]) \in a .. d
  BY <1>3 DEF Segment
<1>5. ASSUME NEW i \in 1 .. Len(u), NEW j \in 1 .. Len(u), i < j
      PROVE  Rank(u[i]) < Rank(u[j])
  <2>1. CASE i \in 1 .. Len(s) /\ u[i] = s[i] /\ j \in 1 .. Len(s) /\ u[j] = s[j]
    BY <1>5, <2>1 DEF Segment
  <2>2. CASE i \in 1 .. Len(s) /\ u[i] = s[i] /\ j - Len(s) \in 1 .. Len(t) /\ u[j] = t[j - Len(s)]
    <3>1. Rank(s[i]) \in a .. b /\ Rank(t[j - Len(s)]) \in c .. d
      BY <2>2 DEF Segment
    <3> QED
      BY <2>2, <3>1
  <2>3. CASE /\ i - Len(s) \in 1 .. Len(t) /\ u[i] = t[i - Len(s)]
             /\ j - Len(s) \in 1 .. Len(t) /\ u[j] = t[j - Len(s)]
    <3>1. i - Len(s) < j - Len(s)
      BY <1>1, <1>5
    <3> QED
      BY <2>3, <3>1 DEF Segment
  <2> QED
    BY <1>1, <1>3, <1>5, <2>1, <2>2, <2>3
<1>6. ToSet(u) = ToSet(s) \cup ToSet(t)
  <2>1. DOMAIN u = 1 .. Len(u) /\ DOMAIN s = 1 .. Len(s) /\ DOMAIN t = 1 .. Len(t)
    BY <1>1, <1>2 DEF u
  <2>2. /\ \A i \in 1 .. Len(s) : i \in 1 .. Len(u) /\ u[i] = s[i]
        /\ \A i \in 1 .. Len(t) : Len(s) + i \in 1 .. Len(u) /\ u[Len(s) + i] = t[i]
    BY <1>1, <1>2 DEF u
  <2>3. ToSet(u) \subseteq ToSet(s) \cup ToSet(t)
    BY <1>3, <2>1 DEF ToSet
  <2>4. ToSet(s) \subseteq ToSet(u)
    <3> SUFFICES ASSUME NEW i \in 1 .. Len(s) PROVE s[i] \in ToSet(u)
      BY <2>1 DEF ToSet
    <3> QED
      BY <2>1, <2>2 DEF ToSet
  <2>5. ToSet(t) \subseteq ToSet(u)
    <3> SUFFICES ASSUME NEW i \in 1 .. Len(t) PROVE t[i] \in ToSet(u)
      BY <2>1 DEF ToSet
    <3> QED
      BY <2>1, <2>2 DEF ToSet
  <2> QED
    BY <2>3, <2>4, <2>5
<1> QED
  BY <1>2, <1>4, <1>5, <1>6 DEF Segment, u

(* Every plan is in the order of the ranks, and these are its tools.                   *)
LEMMA PlanInOrder ==
  ASSUME NEW args \in Arguments
  PROVE  /\ Segment(Planned(args), 1, 14)
         /\ Tools(args) = {"source_cleanliness", "python_tool_tests", "build_and_unit_tests",
                           "scenarios", "fdir", "protocol", "requirements", "assistant_eval"}
              \cup (IF args.skip_monte_carlo THEN {} ELSE {"monte_carlo"})
              \cup (IF args.skip_pi_package THEN {} ELSE {"pi_package"})
              \cup (IF args.quick THEN {} ELSE {"configure_sanitizers", "build_sanitizers",
                                               "test_sanitizers", "controlled_mutation"})
         /\ Head(Planned(args)) = "source_cleanliness"
<1> DEFINE s1 == <<"source_cleanliness", "python_tool_tests">>
           s2 == <<"build_and_unit_tests", "scenarios", "fdir">>
           s3 == IF args.skip_monte_carlo THEN <<>> ELSE <<"monte_carlo">>
           s4 == IF args.skip_pi_package THEN <<>> ELSE <<"pi_package">>
           s5 == <<"protocol", "requirements", "assistant_eval">>
           s6 == IF args.quick THEN <<>> ELSE FullOnly
<1>0. /\ Segment(<<>>, 6, 6) /\ Segment(<<>>, 7, 7) /\ Segment(<<>>, 11, 14) /\ ToSet(<<>>) = {}
  BY DEF Segment, ToSet
<1>1. Segment(s1, 1, 2) /\ ToSet(s1) = {"source_cleanliness", "python_tool_tests"}
  BY DEF Segment, Rank, Tool, ToSet
<1>2. Segment(s2, 3, 5) /\ ToSet(s2) = {"build_and_unit_tests", "scenarios", "fdir"}
  BY DEF Segment, Rank, Tool, VerificationTools, ToSet
<1>3. Segment(s3, 6, 6) /\ ToSet(s3) = IF args.skip_monte_carlo THEN {} ELSE {"monte_carlo"}
  <2>1. Segment(<<"monte_carlo">>, 6, 6) /\ ToSet(<<"monte_carlo">>) = {"monte_carlo"}
    BY DEF Segment, Rank, Tool, VerificationTools, ToSet
  <2> QED
    BY <1>0, <2>1
<1>4. Segment(s4, 7, 7) /\ ToSet(s4) = IF args.skip_pi_package THEN {} ELSE {"pi_package"}
  <2>1. Segment(<<"pi_package">>, 7, 7) /\ ToSet(<<"pi_package">>) = {"pi_package"}
    BY DEF Segment, Rank, Tool, VerificationTools, ToSet
  <2> QED
    BY <1>0, <2>1
<1>5. Segment(s5, 8, 10) /\ ToSet(s5) = {"protocol", "requirements", "assistant_eval"}
  <2>1. s5 \in Seq(Tool) /\ Len(s5) = 3 /\ DOMAIN s5 = 1 .. 3
        /\ s5[1] = "protocol" /\ s5[2] = "requirements" /\ s5[3] = "assistant_eval"
    BY DEF Tool, VerificationTools
  <2>2. Rank("protocol") = 8 /\ Rank("requirements") = 9 /\ Rank("assistant_eval") = 10
    BY DEF Rank
  <2>3. \A i \in 1 .. 3 : i = 1 \/ i = 2 \/ i = 3
    OBVIOUS
  <2> HIDE DEF s5
  <2>4. \A i \in 1 .. 3 : Rank(s5[i]) = 7 + i
    BY <2>1, <2>2, <2>3
  <2>5. Segment(s5, 8, 10)
    BY <2>1, <2>4 DEF Segment
  <2> QED
    BY <2>1, <2>3, <2>5 DEF ToSet
<1>6. /\ Segment(s6, 11, 14)
      /\ ToSet(s6) = IF args.quick THEN {} ELSE {"configure_sanitizers", "build_sanitizers",
                                                 "test_sanitizers", "controlled_mutation"}
  <2>1. FullOnly \in Seq(Tool) /\ Len(FullOnly) = 4 /\ DOMAIN FullOnly = 1 .. 4
        /\ FullOnly[1] = "configure_sanitizers" /\ FullOnly[2] = "build_sanitizers"
        /\ FullOnly[3] = "test_sanitizers" /\ FullOnly[4] = "controlled_mutation"
    BY DEF Tool, FullOnly
  <2>2. Rank("configure_sanitizers") = 11 /\ Rank("build_sanitizers") = 12
        /\ Rank("test_sanitizers") = 13 /\ Rank("controlled_mutation") = 14
    BY DEF Rank
  <2>3. \A i \in 1 .. 4 : i = 1 \/ i = 2 \/ i = 3 \/ i = 4
    OBVIOUS
  <2>4. \A i \in 1 .. 4 : Rank(FullOnly[i]) = 10 + i
    BY <2>1, <2>2, <2>3
  <2>5. Segment(FullOnly, 11, 14)
    BY <2>1, <2>4 DEF Segment
  <2>6. ToSet(FullOnly) = {"configure_sanitizers", "build_sanitizers",
                           "test_sanitizers", "controlled_mutation"}
    BY <2>1, <2>3 DEF ToSet
  <2> QED
    BY <1>0, <2>5, <2>6
<1>7. Planned(args) = (s1 \o (((s2 \o s3) \o s4) \o s5)) \o s6
  BY DEF Planned, FullVerification
<1>8. Head(Planned(args)) = "source_cleanliness"
  BY DEF Planned, FullVerification, FullOnly
<1> HIDE DEF s1, s2, s3, s4, s5, s6
<1> DEFINE t1 == s2 \o s3
           t2 == t1 \o s4
           t3 == t2 \o s5
           t4 == s1 \o t3
<1>9. Segment(t1, 3, 6) /\ ToSet(t1) = ToSet(s2) \cup ToSet(s3)
  BY <1>2, <1>3, SegmentsJoin
<1> HIDE DEF t1
<1>10. Segment(t2, 3, 7) /\ ToSet(t2) = ToSet(t1) \cup ToSet(s4)
  BY <1>4, <1>9, SegmentsJoin
<1> HIDE DEF t2
<1>11. Segment(t3, 3, 10) /\ ToSet(t3) = ToSet(t2) \cup ToSet(s5)
  BY <1>5, <1>10, SegmentsJoin
<1> HIDE DEF t3
<1>12. Segment(t4, 1, 10) /\ ToSet(t4) = ToSet(s1) \cup ToSet(t3)
  BY <1>1, <1>11, SegmentsJoin
<1> HIDE DEF t4
<1>13. Segment(t4 \o s6, 1, 14) /\ ToSet(t4 \o s6) = ToSet(t4) \cup ToSet(s6)
  BY <1>6, <1>12, SegmentsJoin
<1>14. Planned(args) = t4 \o s6
  BY <1>7 DEF t1, t2, t3, t4
<1> QED
  BY <1>1, <1>2, <1>3, <1>4, <1>5, <1>6, <1>8, <1>9, <1>10, <1>11, <1>12, <1>13, <1>14 DEF Tools

LEMMA RankTells ==
  /\ \A t \in Tool : Rank(t) \in 1 .. 14 /\ (t \in VerificationTools <=> Rank(t) \in 3 .. 10)
  /\ \A t, u \in Tool : Rank(t) = Rank(u) => t = u
  /\ Rank("write_summary") = 15 /\ Rank("generate_manifest") = 15
  /\ {"idle", "write_summary", "generate_manifest", "rewrite_summary", "full_verification"} \cap Tool = {}
  /\ VerificationTools \subseteq Tool
<1>1. \A t \in Tool : Rank(t) \in 1 .. 14 /\ (t \in VerificationTools <=> Rank(t) \in 3 .. 10)
  <2>1. ASSUME NEW t \in Tool PROVE Rank(t) \in 1 .. 14
    BY DEF Rank, Tool, VerificationTools
  <2>2. ASSUME NEW t \in VerificationTools PROVE Rank(t) \in 3 .. 10
    BY DEF Rank, VerificationTools
  <2>3. ASSUME NEW t \in Tool \ VerificationTools PROVE Rank(t) \notin 3 .. 10
    BY DEF Rank, Tool
  <2> QED
    BY <2>1, <2>2, <2>3
<1>2. \A t, u \in Tool : Rank(t) = Rank(u) => t = u
  <2> DEFINE Name(n) ==
        CASE n = 1 -> "source_cleanliness"    [] n = 2 -> "python_tool_tests"
          [] n = 3 -> "build_and_unit_tests"  [] n = 4 -> "scenarios"
          [] n = 5 -> "fdir"                  [] n = 6 -> "monte_carlo"
          [] n = 7 -> "pi_package"            [] n = 8 -> "protocol"
          [] n = 9 -> "requirements"          [] n = 10 -> "assistant_eval"
          [] n = 11 -> "configure_sanitizers" [] n = 12 -> "build_sanitizers"
          [] n = 13 -> "test_sanitizers"      [] n = 14 -> "controlled_mutation"
  <2>1. ASSUME NEW t \in Tool PROVE Name(Rank(t)) = t
    BY DEF Rank, Tool, VerificationTools
  <2> HIDE DEF Name
  <2> QED
    BY <2>1
<1> QED
  BY <1>1, <1>2 DEF Rank, Tool, VerificationTools

(* The stage of a tool is left for good: full_verification is in one piece.             *)
LEMMA StagesInOnePiece ==
  ASSUME NEW t \in Tool, NEW u \in Tool, NEW v \in Tool \cup {"write_summary"},
         Rank(t) <= Rank(u), Rank(u) < Rank(v), StageOf(u) # StageOf(v)
  PROVE  StageOf(t) # StageOf(v)
<1>1. CASE v \in Tool
  BY <1>1, RankTells DEF StageOf
<1>2. CASE v = "write_summary"
  BY <1>2, RankTells DEF StageOf
<1> QED
  BY <1>1, <1>2

(* The tool that follows is the next one of the plan.                                   *)
LEMMA FollowingIsNext ==
  ASSUME work.args \in Arguments, NEW tool \in Tools(work.args)
  PROVE  /\ Following(tool) \in Tools(work.args) \cup {"write_summary"}
         /\ \A t \in Tools(work.args) : Rank(t) < Rank(Following(tool)) <=> Rank(t) <= Rank(tool)
<1> DEFINE plan == Planned(work.args)
           n == Len(plan)
           k == CHOOSE i \in DOMAIN plan : plan[i] = tool
           Place(i) == Rank(plan[i])
<1>1. /\ DOMAIN plan = 1 .. n /\ n \in Nat
      /\ \A i \in 1 .. n : Place(i) \in 1 .. 14
      /\ \A i, j \in 1 .. n : i < j => Place(i) < Place(j)
  BY PlanInOrder DEF Segment
<1>2. k \in 1 .. n /\ plan[k] = tool
  BY <1>1 DEF Tools, ToSet
<1>3. Following(tool) = IF k = n THEN "write_summary" ELSE plan[k + 1]
  BY DEF Following
<1>4. \A t \in Tools(work.args) : \E j \in 1 .. n : t = plan[j]
  BY <1>1 DEF Tools, ToSet
<1>5. \A j \in 1 .. n : plan[j] \in Tools(work.args)
  BY <1>1 DEF Tools, ToSet
<1> DEFINE After == IF k = n THEN 15 ELSE Place(k + 1)
<1>6. ASSUME NEW j \in 1 .. n PROVE Place(j) < After <=> Place(j) <= Place(k)
  <2> HIDE DEF plan, n, k, Place
  <2>1. CASE k = n
    BY <1>1, <1>2, <2>1
  <2>2. CASE k # n
    <3>1. k + 1 \in 1 .. n /\ k < k + 1 /\ (j < k \/ j = k \/ j = k + 1 \/ j > k + 1)
      BY <1>1, <1>2, <2>2
    <3>2. /\ Place(j) \in Int /\ Place(k) \in Int /\ Place(k + 1) \in Int
          /\ Place(k) < Place(k + 1)
          /\ j < k => Place(j) < Place(k)
          /\ j > k + 1 => Place(k + 1) < Place(j)
      BY <1>1, <1>2, <3>1
    <3> QED
      BY <2>2, <3>1, <3>2
  <2> QED
    BY <2>1, <2>2
<1>7. After = Rank(Following(tool)) /\ Place(k) = Rank(tool)
  BY <1>2, <1>3, RankTells
<1>8. Following(tool) \in Tools(work.args) \cup {"write_summary"}
  <2> HIDE DEF plan, n, k
  <2>1. k # n => k + 1 \in 1 .. n
    BY <1>1, <1>2
  <2> QED
    BY <1>3, <1>5, <2>1
<1>9. ASSUME NEW t \in Tools(work.args)
      PROVE  Rank(t) < Rank(Following(tool)) <=> Rank(t) <= Rank(tool)
  <2>1. PICK j \in 1 .. n : t = plan[j]
    BY <1>4
  <2>2. Rank(t) = Place(j)
    BY <2>1
  <2> HIDE DEF plan, n, k, Place, After
  <2> QED
    BY <1>6, <1>7, <2>2
<1> QED
  BY <1>8, <1>9

-----------------------------------------------------------------------------
(* The shape of the state, and what was reviewed. *)

Payload == {BuildTraceabilityPayload(Facts[c]) : c \in {d \in Content : CanBuildPayload(Facts[d])}}

TreeState == [content: Content, baseline: Payload]

AfterTools == {"write_summary", "generate_manifest", "rewrite_summary"}

Shape ==
  /\ tree \in TreeState /\ head \in TreeState
  /\ DOMAIN reports = ReportName
  /\ DOMAIN binary = BuildDir
  /\ work = [run |-> work.run, pc |-> work.pc, args |-> work.args, status |-> work.status,
             error |-> work.error, results |-> work.results, exit |-> work.exit]
  /\ work.args \in Arguments
  /\ work.error \in BOOLEAN
  /\ work.pc \in Tools(work.args) \cup AfterTools \cup {"idle"}
  /\ work.pc \in Tools(work.args) => work.status = "passed" /\ work.error = FALSE

Reviews ==
  /\ reviewed \subseteq Payload
  /\ tree.baseline \in reviewed /\ head.baseline \in reviewed
  /\ PassedWasReviewed

(* How a tool ends: the run goes on with the next one, or with the summary.              *)
LEMMA ConcludeEffect ==
  ASSUME Shape, work.pc \in Tools(work.args), NEW ok \in BOOLEAN, Conclude(ok)
  PROVE  LET next == IF ok THEN Following(work.pc) ELSE "write_summary"
         IN  work' = [run |-> work.run, pc |-> next, args |-> work.args,
                      status |-> IF ok THEN work.status ELSE "failed", error |-> work.error,
                      results |-> IF ~ok \/ StageOf(work.pc) # StageOf(next)
                                    THEN work.results \cup {<<StageOf(work.pc), ok>>}
                                    ELSE work.results,
                      exit |-> work.exit]
<1> DEFINE next == IF ok THEN Following(work.pc) ELSE "write_summary"
           status == IF ok THEN work.status ELSE "failed"
           results == IF ~ok \/ StageOf(work.pc) # StageOf(next)
                        THEN work.results \cup {<<StageOf(work.pc), ok>>} ELSE work.results
<1>1. work' = [work EXCEPT !.pc = next, !.status = status, !.results = results]
  BY DEF Conclude
<1> HIDE DEF next, status, results
<1>2. work' = [run |-> work.run, pc |-> next, args |-> work.args, status |-> status,
               error |-> work.error, results |-> results, exit |-> work.exit]
  BY <1>1 DEF Shape
<1> QED
  BY <1>2 DEF next, status, results

(* The steps of the tools.                                                              *)
ToolStep ==
  \/ SourceCleanliness \/ ExternalStage \/ BuildAndUnitTests \/ RunScenarios \/ FdirCampaign
  \/ MonteCarlo \/ PiPackage \/ CheckProtocol \/ CheckRequirements \/ AssistantEval
  \/ BuildSanitizers \/ TestSanitizers \/ ControlledMutation

(* Whatever a tool does, it is the planned one, it ends in one way or the other, and it  *)
(* leaves the sources and the summary alone.                                            *)
LEMMA ToolStepEffect ==
  ASSUME Shape, ToolStep
  PROVE  /\ work.pc \in Tools(work.args)
         /\ \E ok \in BOOLEAN : Conclude(ok)
         /\ UNCHANGED <<repositoryVars, summary, manifest>>
         /\ DOMAIN reports' = ReportName /\ DOMAIN binary' = BuildDir
         /\ CheckRequirements \/ reports'["requirements"] = reports["requirements"]
<1>1. work.pc \in Tool
  BY DEF ToolStep, SourceCleanliness, ExternalStage, BuildAndUnitTests, RunScenarios, FdirCampaign,
         MonteCarlo, PiPackage, CheckProtocol, CheckRequirements, AssistantEval, BuildSanitizers,
         TestSanitizers, ControlledMutation, Tool, VerificationTools
<1>2. work.pc \in Tools(work.args)
  BY <1>1, RankTells DEF Shape, AfterTools
<1> SUFFICES /\ \E ok \in BOOLEAN : Conclude(ok)
             /\ UNCHANGED <<repositoryVars, summary, manifest>>
             /\ DOMAIN reports' = ReportName /\ DOMAIN binary' = BuildDir
             /\ CheckRequirements \/ reports'["requirements"] = reports["requirements"]
  BY <1>2
<1>3. /\ DOMAIN reports = ReportName /\ DOMAIN binary = BuildDir /\ "requirements" \in ReportName
      /\ "requirements" \notin DOMAIN Sources.scenarios
  BY WorkflowAssumption DEF Shape, TreeState, Sources, ToolReport
<1>4. CASE SourceCleanliness
  BY <1>3, <1>4 DEF SourceCleanliness
<1>5. CASE ExternalStage
  BY <1>3, <1>5 DEF ExternalStage
<1>6. CASE BuildAndUnitTests
  BY <1>3, <1>6 DEF BuildAndUnitTests
<1>7. CASE RunScenarios
  BY <1>3, <1>7 DEF RunScenarios, ScenarioOutcomes, ScenariosPass, AfterScenarios
<1>8. CASE FdirCampaign
  BY <1>3, <1>8 DEF FdirCampaign, AfterFdir
<1>9. CASE MonteCarlo
  BY <1>3, <1>9 DEF MonteCarlo
<1>10. CASE PiPackage
  BY <1>3, <1>10 DEF PiPackage, AfterPackaging
<1>11. CASE CheckProtocol
  BY <1>3, <1>11 DEF CheckProtocol, AfterProtocolCheck, TablesFound
<1>12. CASE CheckRequirements
  BY <1>3, <1>12 DEF CheckRequirements, RequirementsVerdict, RequirementCheckPasses, AfterRequirementCheck
<1>13. CASE AssistantEval
  BY <1>3, <1>13 DEF AssistantEval, AfterEvaluation, EvaluationLoads, AssistantObeys, EvaluationPasses
<1>14. CASE BuildSanitizers
  BY <1>3, <1>14 DEF BuildSanitizers
<1>15. CASE TestSanitizers
  BY <1>3, <1>15 DEF TestSanitizers
<1>16. CASE ControlledMutation
  BY <1>3, <1>16 DEF ControlledMutation
<1> QED
  BY <1>4, <1>5, <1>6, <1>7, <1>8, <1>9, <1>10, <1>11, <1>12, <1>13, <1>14, <1>15, <1>16 DEF ToolStep

(* What the developer does to the sources.                                              *)
LEMMA DeveloperEffect ==
  ASSUME Developer
  PROVE  /\ UNCHANGED <<binary, summary, manifest, work, saw>>
         /\ \/ /\ UNCHANGED <<tree, head, moved, reviewed>>
               /\ \/ reports' = AfterRequirementCheck(0)
                  \/ \E result \in {"PASS", "FAIL"} :
                       /\ "hil_smoke_test" \in DOMAIN Sources.scenarios
                       /\ reports' = [reports EXCEPT !["hil_smoke_test"] = [run |-> 0, result |-> result]]
            \/ /\ UNCHANGED reports
               /\ \/ \E content \in Content : Edit(content)
                  \/ UpdateTraceabilityBaseline \/ Commit \/ Checkout
<1>1. CASE \E content \in Content : Edit(content)
  BY <1>1, Zenon DEF Edit
<1>2. CASE UpdateTraceabilityBaseline
  BY <1>2, Zenon DEF UpdateTraceabilityBaseline
<1>3. CASE Commit
  BY <1>3, Zenon DEF Commit
<1>4. CASE Checkout
  BY <1>4, Zenon DEF Checkout
<1>5. CASE CheckRequirementsAlone
  BY <1>5, Zenon DEF CheckRequirementsAlone
<1>6. CASE \E dir \in BuildDir \ {"sanitizers"} : HilSmokeTest(dir)
  BY <1>6, Zenon DEF HilSmokeTest
<1> QED
  BY <1>1, <1>2, <1>3, <1>4, <1>5, <1>6 DEF Developer

(* A positive verdict: the documents are those of the baseline in the tree.               *)
LEMMA VerdictMatchesBaseline ==
  ASSUME Shape, Reviews, RequirementsVerdict
  PROVE  BuildTraceabilityPayload(Sources) = tree.baseline
<1>1. tree.baseline \in Payload
  BY DEF Reviews
<1>2. PICK c \in Content : CanBuildPayload(Facts[c]) /\ tree.baseline = BuildTraceabilityPayload(Facts[c])
  BY <1>1 DEF Payload
<1>3. IsFiniteSet(Facts[c].requirements)
  BY WorkflowAssumption
<1>4. RequirementCheckPasses(Sources, BuildTraceabilityPayload(Facts[c]), Passing)
  BY <1>2 DEF RequirementsVerdict
<1> QED
  BY <1>2, <1>3, <1>4, PassingMatchesBaseline

(* The requirement check writes a report that passes only for what was reviewed.         *)
LEMMA RequirementsReport ==
  ASSUME Shape, Reviews, NEW run, reports' = AfterRequirementCheck(run)
  PROVE  /\ DOMAIN reports' = ReportName
         /\ reports'["requirements"].result = "PASS" => reports'["requirements"].of \in reviewed
<1>1. DOMAIN reports = ReportName /\ "requirements" \in ReportName
  BY WorkflowAssumption DEF Shape, ToolReport
<1>2. CASE ~Readable(Sources)
  BY <1>1, <1>2 DEF AfterRequirementCheck, Reviews, PassedWasReviewed
<1>3. CASE Readable(Sources)
  <2> DEFINE report == [run |-> run, result |-> IF RequirementsVerdict THEN "PASS" ELSE "FAIL",
                        of |-> BuildTraceabilityPayload(Sources)]
  <2>1. reports' = [reports EXCEPT !["requirements"] = report]
    BY <1>3 DEF AfterRequirementCheck
  <2>2. DOMAIN reports' = ReportName /\ reports'["requirements"] = report
    BY <1>1, <2>1
  <2>3. ASSUME RequirementsVerdict PROVE BuildTraceabilityPayload(Sources) \in reviewed
    BY <2>3, VerdictMatchesBaseline DEF Reviews
  <2> QED
    BY <2>2, <2>3
<1> QED
  BY <1>2, <1>3

(* The ends of a run, apart from those of its tools.                                     *)
EndStep ==
  WriteSummary \/ GenerateManifest \/ ManifestFails \/ RewriteSummary
  \/ Interrupt \/ UnexpectedError \/ Kill

LEMMA NextCases ==
  ASSUME Next
  PROVE  \/ \E args \in Arguments : Start(args)
         \/ ToolStep \/ EndStep \/ Developer
BY DEF Next, Workflow, ToolStep, EndStep

(* What a tool that was stopped has left: it may have built, and of the report on the       *)
(* requirements the same holds as if it had come to its end.                               *)
LEMMA HalfDoneEffect ==
  ASSUME Shape, HalfDone
  PROVE  /\ DOMAIN binary' = BuildDir /\ DOMAIN reports' = ReportName
         /\ \/ reports' = AfterRequirementCheck(work.run)
            \/ reports'["requirements"] = reports["requirements"]
<1>1. /\ DOMAIN reports = ReportName /\ DOMAIN binary = BuildDir /\ "requirements" \in ReportName
      /\ "requirements" \notin DOMAIN Sources.scenarios
  BY WorkflowAssumption DEF Shape, TreeState, Sources, ToolReport
<1>2. DOMAIN binary' = BuildDir
  <2>1. \A b \in HalfBuilt : DOMAIN b = BuildDir
    BY <1>1 DEF HalfBuilt
  <2> QED
    BY <1>1, <2>1 DEF HalfDone
<1>3. DOMAIN AfterRequirementCheck(work.run) = ReportName
  BY <1>1 DEF AfterRequirementCheck
<1>4. \A r \in HalfReported : \/ r = AfterRequirementCheck(work.run)
                              \/ DOMAIN r = ReportName /\ r["requirements"] = reports["requirements"]
  <2>1. CASE work.pc = "scenarios"
    BY <1>1, <2>1 DEF HalfReported, ScenarioOutcomes, AfterScenarios
  <2>2. CASE work.pc = "fdir"
    BY <1>1, <2>2 DEF HalfReported, AfterFdir
  <2>3. CASE work.pc = "monte_carlo"
    BY <1>1, <2>3 DEF HalfReported
  <2>4. CASE work.pc = "pi_package"
    BY <1>1, <2>4 DEF HalfReported, AfterPackaging
  <2>5. CASE work.pc = "protocol"
    BY <1>1, <2>5 DEF HalfReported, AfterProtocolCheck
  <2>6. CASE work.pc = "requirements"
    BY <2>6 DEF HalfReported
  <2>7. CASE work.pc = "assistant_eval"
    BY <1>1, <2>7 DEF HalfReported, AfterEvaluation
  <2>8. CASE work.pc \notin {"scenarios", "fdir", "monte_carlo", "pi_package", "protocol", "requirements",
                             "assistant_eval"}
    BY <2>8 DEF HalfReported
  <2> QED
    BY <2>1, <2>2, <2>3, <2>4, <2>5, <2>6, <2>7, <2>8
<1> QED
  BY <1>1, <1>2, <1>3, <1>4 DEF HalfDone

(* The ends of a run leave the sources alone, and the reports, unless they stop a tool.     *)
LEMMA EndStepEffect ==
  ASSUME Shape, EndStep
  PROVE  /\ UNCHANGED <<repositoryVars, saw>>
         /\ DOMAIN binary' = BuildDir /\ DOMAIN reports' = ReportName
         /\ \/ reports' = AfterRequirementCheck(work.run)
            \/ reports'["requirements"] = reports["requirements"]
         /\ work' = [run |-> work.run, pc |-> work'.pc, args |-> work.args, status |-> work'.status,
                     error |-> work'.error, results |-> work.results, exit |-> work'.exit]
         /\ work'.error \in BOOLEAN
         /\ work'.pc \in AfterTools \cup {"idle"}
<1>1. DOMAIN binary = BuildDir /\ DOMAIN reports = ReportName /\ work.error \in BOOLEAN
      /\ work = [run |-> work.run, pc |-> work.pc, args |-> work.args, status |-> work.status,
                 error |-> work.error, results |-> work.results, exit |-> work.exit]
  BY DEF Shape
<1>3. CASE WriteSummary
  BY <1>1, <1>3 DEF WriteSummary, AfterTools
<1>4. CASE GenerateManifest
  BY <1>1, <1>4 DEF GenerateManifest, AfterTools
<1>5. CASE ManifestFails
  BY <1>1, <1>5 DEF ManifestFails, AfterTools
<1>6. CASE RewriteSummary
  BY <1>1, <1>6 DEF RewriteSummary, AfterTools
<1>7. CASE Interrupt
  BY <1>1, <1>7, HalfDoneEffect DEF Interrupt, AfterTools
<1>8. CASE UnexpectedError
  BY <1>1, <1>8, HalfDoneEffect DEF UnexpectedError, AfterTools
<1>9. CASE Kill
  BY <1>1, <1>9, HalfDoneEffect DEF Kill, AfterTools
<1> QED
  BY <1>3, <1>4, <1>5, <1>6, <1>7, <1>8, <1>9 DEF EndStep

(* Tools have the names of no other place of the program.                                *)
LEMMA PlannedAreTools ==
  ASSUME NEW args \in Arguments
  PROVE  /\ Tools(args) \subseteq Tool
         /\ Tools(args) \cap (AfterTools \cup {"idle"}) = {}
         /\ "source_cleanliness" \in Tools(args)
<1>1. Tools(args) \subseteq Tool
  BY PlanInOrder DEF Tool, VerificationTools
<1>2. "source_cleanliness" \in Tools(args)
  BY PlanInOrder
<1> QED
  BY <1>1, <1>2, RankTells DEF AfterTools

LEMMA ShapeInductive ==
  /\ Init => Shape /\ Reviews
  /\ Shape /\ Reviews /\ [Next]_vars => (Shape /\ Reviews)'
<1>1. ASSUME Init PROVE Shape /\ Reviews
  <2> DEFINE payload == BuildTraceabilityPayload(Facts[FirstContent])
  <2>1. payload \in Payload /\ FirstContent \in Content
    BY WorkflowAssumption DEF Payload
  <2>2. /\ tree = [content |-> FirstContent, baseline |-> payload] /\ head = tree
        /\ reviewed = {tree.baseline}
    BY <1>1 DEF Init
  <2>3. /\ tree \in TreeState /\ head \in TreeState
        /\ reviewed \subseteq Payload /\ tree.baseline \in reviewed /\ head.baseline \in reviewed
        /\ tree.baseline = payload /\ Sources = Facts[FirstContent]
    <3> HIDE DEF payload
    <3> QED
      BY <2>1, <2>2 DEF TreeState, Sources
  <2>4. DOMAIN reports = ReportName /\ reports["requirements"].of = payload
    BY <1>1, <2>3, WorkflowAssumption DEF Init, CommittedReports, ToolReport
  <2>5. DOMAIN binary = BuildDir
    BY <1>1 DEF Init
  <2>6. work = [run |-> 0, pc |-> "idle", args |-> CHOOSE args \in Arguments : TRUE,
                status |-> "passed", error |-> FALSE, results |-> {}, exit |-> "none"]
    BY <1>1 DEF Init
  <2>7. (CHOOSE args \in Arguments : TRUE) \in Arguments
    BY WorkflowAssumption
  <2>8. /\ work = [run |-> work.run, pc |-> work.pc, args |-> work.args, status |-> work.status,
                   error |-> work.error, results |-> work.results, exit |-> work.exit]
        /\ work.args \in Arguments /\ work.error = FALSE /\ work.status = "passed" /\ work.pc = "idle"
    BY <2>6, <2>7
  <2> QED
    BY <2>3, <2>4, <2>5, <2>8 DEF Shape, Reviews, PassedWasReviewed
<1>2. ASSUME Shape, Reviews, [Next]_vars PROVE Shape' /\ Reviews'
  <2>1. CASE UNCHANGED vars
    BY <1>2, <2>1 DEF vars, repositoryVars, Shape, Reviews, PassedWasReviewed
  <2>2. ASSUME NEW args \in Arguments, Start(args) PROVE Shape' /\ Reviews'
    <3>1. /\ UNCHANGED <<tree, head, reviewed, binary, reports>>
          /\ work' = [run |-> work.run + 1, pc |-> "source_cleanliness", args |-> args,
                      status |-> "passed", error |-> FALSE, results |-> {}, exit |-> "none"]
      BY <2>2, PlanInOrder DEF Start
    <3> QED
      BY <1>2, <3>1, PlannedAreTools DEF Shape, Reviews, PassedWasReviewed
  <2>3. CASE ToolStep
    <3>1. /\ work.pc \in Tools(work.args)
          /\ UNCHANGED repositoryVars
          /\ DOMAIN reports' = ReportName /\ DOMAIN binary' = BuildDir
          /\ CheckRequirements \/ reports'["requirements"] = reports["requirements"]
      BY <1>2, <2>3, ToolStepEffect
    <3>2. PICK ok \in BOOLEAN : Conclude(ok)
      BY <1>2, <2>3, ToolStepEffect
    <3> DEFINE next == IF ok THEN Following(work.pc) ELSE "write_summary"
               results == IF ~ok \/ StageOf(work.pc) # StageOf(next)
                            THEN work.results \cup {<<StageOf(work.pc), ok>>} ELSE work.results
               status == IF ok THEN work.status ELSE "failed"
    <3>3. work' = [run |-> work.run, pc |-> next, args |-> work.args, status |-> status,
                   error |-> work.error, results |-> results, exit |-> work.exit]
      BY <1>2, <3>1, <3>2, ConcludeEffect
    <3>4. /\ next \in Tools(work.args) \cup {"write_summary"}
          /\ next \in Tools(work.args) => status = "passed"
          /\ work.error = FALSE
      BY <1>2, <3>1, FollowingIsNext, PlannedAreTools DEF Shape, AfterTools
    <3> HIDE DEF next, results, status
    <3>5. Shape'
      BY <1>2, <3>1, <3>3, <3>4 DEF Shape, repositoryVars, AfterTools
    <3>6. Reviews'
      <4>1. CASE CheckRequirements
        <5>1. reports' = AfterRequirementCheck(work.run)
          BY <4>1 DEF CheckRequirements
        <5> QED
          BY <1>2, <3>1, <5>1, RequirementsReport DEF Reviews, PassedWasReviewed, repositoryVars
      <4>2. CASE reports'["requirements"] = reports["requirements"]
        BY <1>2, <3>1, <4>2 DEF Reviews, PassedWasReviewed, repositoryVars
      <4> QED
        BY <3>1, <4>1, <4>2
    <3> QED
      BY <3>5, <3>6
  <2>4. CASE EndStep
    <3>1. /\ UNCHANGED repositoryVars
          /\ DOMAIN binary' = BuildDir /\ DOMAIN reports' = ReportName
          /\ \/ reports' = AfterRequirementCheck(work.run)
             \/ reports'["requirements"] = reports["requirements"]
          /\ work' = [run |-> work.run, pc |-> work'.pc, args |-> work.args, status |-> work'.status,
                      error |-> work'.error, results |-> work.results, exit |-> work'.exit]
          /\ work'.error \in BOOLEAN
          /\ work'.pc \in AfterTools \cup {"idle"}
      BY <1>2, <2>4, EndStepEffect
    <3>2. work'.args = work.args /\ work'.run = work.run /\ work'.results = work.results
      BY <3>1
    <3>3. work'.pc \notin Tools(work.args)
      BY <1>2, <3>1, PlannedAreTools DEF Shape
    <3>4. Shape'
      BY <1>2, <3>1, <3>2, <3>3 DEF Shape, repositoryVars
    <3>5. CASE reports' = AfterRequirementCheck(work.run)
      BY <1>2, <3>1, <3>4, <3>5, RequirementsReport DEF Reviews, PassedWasReviewed, repositoryVars
    <3>6. CASE reports'["requirements"] = reports["requirements"]
      BY <1>2, <3>1, <3>4, <3>6 DEF Reviews, PassedWasReviewed, repositoryVars
    <3> QED
      BY <3>1, <3>5, <3>6
  <2>5. CASE Developer
    <3>1. UNCHANGED <<binary, work>>
      BY <2>5, DeveloperEffect
    <3>2. CASE UNCHANGED <<tree, head, reviewed>> /\ reports' = AfterRequirementCheck(0)
      BY <1>2, <3>1, <3>2, RequirementsReport DEF Shape, Reviews, PassedWasReviewed
    <3>3. ASSUME NEW result, UNCHANGED <<tree, head, reviewed>>,
                 "hil_smoke_test" \in DOMAIN Sources.scenarios,
                 reports' = [reports EXCEPT !["hil_smoke_test"] = [run |-> 0, result |-> result]]
          PROVE  Shape' /\ Reviews'
      <4>1. DOMAIN reports' = ReportName /\ reports'["requirements"] = reports["requirements"]
        BY <1>2, <3>3, WorkflowAssumption DEF Shape, ToolReport
      <4> QED
        BY <1>2, <3>1, <3>3, <4>1 DEF Shape, Reviews, PassedWasReviewed
    <3>4. ASSUME UNCHANGED reports, tree' \in TreeState, head' \in TreeState, reviewed' \subseteq Payload,
                 reviewed \subseteq reviewed', tree'.baseline \in reviewed', head'.baseline \in reviewed'
          PROVE  Shape' /\ Reviews'
      BY <1>2, <3>1, <3>4 DEF Shape, Reviews, PassedWasReviewed
    <3>5. ASSUME NEW content \in Content, Edit(content), UNCHANGED reports PROVE Shape' /\ Reviews'
      <4>1. tree' = [content |-> content, baseline |-> tree.baseline] /\ UNCHANGED <<head, reviewed>>
        BY <1>2, <3>5 DEF Edit, Shape, TreeState
      <4> QED
        BY <1>2, <3>4, <3>5, <4>1 DEF Shape, Reviews, TreeState
    <3>6. CASE UpdateTraceabilityBaseline /\ UNCHANGED reports
      <4> DEFINE payload == BuildTraceabilityPayload(Sources)
      <4>1. payload \in Payload
        BY <1>2, <3>6 DEF UpdateTraceabilityBaseline, Payload, Sources, Shape, TreeState
      <4>2. /\ tree' = [content |-> tree.content, baseline |-> payload]
            /\ reviewed' = reviewed \cup {tree'.baseline} /\ UNCHANGED head
        BY <1>2, <3>6 DEF UpdateTraceabilityBaseline, Shape, TreeState
      <4> HIDE DEF payload
      <4> QED
        BY <1>2, <3>4, <3>6, <4>1, <4>2 DEF Shape, Reviews, TreeState
    <3>7. CASE Commit /\ UNCHANGED reports
      BY <1>2, <3>4, <3>7 DEF Commit, Shape, Reviews
    <3>8. CASE Checkout /\ UNCHANGED reports
      BY <1>2, <3>4, <3>8 DEF Checkout, Shape, Reviews
    <3> QED
      BY <2>5, <3>2, <3>3, <3>5, <3>6, <3>7, <3>8, DeveloperEffect
  <2> QED
    BY <1>2, <2>1, <2>2, <2>3, <2>4, <2>5, NextCases
<1> QED
  BY <1>1, <1>2

(* A requirement check that passes was made on requirements and interfaces that somebody   *)
(* reviewed just as they are: check_requirements.py compares with nothing but a baseline   *)
(* that update_traceability_baseline.py wrote, through any history of the repository.      *)
THEOREM NothingPassesUnreviewed == Spec => []PassedWasReviewed
<1>1. Init => Shape /\ Reviews
  BY ShapeInductive
<1>2. Shape /\ Reviews /\ [Next]_vars => (Shape /\ Reviews)'
  BY ShapeInductive
<1>3. Reviews => PassedWasReviewed
  BY DEF Reviews
<1> QED
  BY <1>1, <1>2, <1>3, PTL DEF Spec

-----------------------------------------------------------------------------
(* The exit code, the summary and the manifest. *)

(* The results of a run that has got to pc without a failure.                             *)
PassedStages(args, pc) ==
  {<<StageOf(t), TRUE>> : t \in {u \in Tools(args) : Rank(u) < Rank(pc) /\ StageOf(u) # StageOf(pc)}}

OnCourse ==
  /\ work.pc \in Tools(work.args) \cup {"write_summary", "generate_manifest"}
  /\ work.status = "passed" /\ work.error = FALSE

(* A stage is missing in the results of a run that ended with an unexpected error.         *)
StageMissing == \E t \in Tools(work.args) : <<StageOf(t), TRUE>> \notin work.results

Evidence ==
  /\ OnCourse => work.results = PassedStages(work.args, work.pc)
  /\ work.error => StageMissing
  /\ work.pc = "generate_manifest" => summary = Summary(work.status)
  /\ work.pc = "rewrite_summary" => work.status = "failed"
  /\ EvidenceAgrees

(* After the last tool the stages are those that were planned.                            *)
LEMMA AllStagesPassed ==
  ASSUME NEW args \in Arguments, NEW pc \in {"write_summary", "generate_manifest"}
  PROVE  PassedStages(args, pc) = {<<stage, TRUE>> : stage \in PlannedStages(args)}
<1>1. Tools(args) \subseteq Tool
  BY PlannedAreTools
<1>2. \A t \in Tool : Rank(t) < Rank(pc) /\ StageOf(t) # StageOf(pc)
  BY RankTells DEF StageOf
<1>3. PlannedStages(args) = {StageOf(t) : t \in Tools(args)}
  BY DEF PlannedStages, Tools
<1>4. {u \in Tools(args) : Rank(u) < Rank(pc) /\ StageOf(u) # StageOf(pc)} = Tools(args)
  BY <1>1, <1>2
<1>5. PassedStages(args, pc) = {<<StageOf(t), TRUE>> : t \in Tools(args)}
  BY <1>4, Zenon DEF PassedStages
<1>6. {<<StageOf(t), TRUE>> : t \in Tools(args)} = {<<stage, TRUE>> : stage \in {StageOf(t) : t \in Tools(args)}}
  BY Zenon
<1> QED
  BY <1>3, <1>5, <1>6, Zenon

(* A tool that succeeds adds its stage when it is the last one of it.                      *)
LEMMA StageAdded ==
  ASSUME work.args \in Arguments, NEW pc \in Tools(work.args)
  PROVE  PassedStages(work.args, Following(pc)) =
           IF StageOf(pc) # StageOf(Following(pc))
             THEN PassedStages(work.args, pc) \cup {<<StageOf(pc), TRUE>>}
             ELSE PassedStages(work.args, pc)
<1> DEFINE P == Tools(work.args)
           next == Following(pc)
<1>1. P \subseteq Tool /\ pc \in P
  BY PlannedAreTools
<1>2. next \in P \cup {"write_summary"} /\ \A t \in P : Rank(t) < Rank(next) <=> Rank(t) <= Rank(pc)
  BY FollowingIsNext
<1>3. \A t \in P : Rank(t) \in Int
  BY <1>1, RankTells
<1>4. \A t \in P : Rank(t) <= Rank(pc) <=> Rank(t) < Rank(pc) \/ t = pc
  BY <1>1, <1>3, RankTells
<1> HIDE DEF P, next
<1>5. ASSUME StageOf(pc) = StageOf(next)
      PROVE  PassedStages(work.args, next) = PassedStages(work.args, pc)
  BY <1>2, <1>4, <1>5 DEF PassedStages, P
<1>6. ASSUME StageOf(pc) # StageOf(next)
      PROVE  PassedStages(work.args, next) = PassedStages(work.args, pc) \cup {<<StageOf(pc), TRUE>>}
  <2>1. Rank(pc) < Rank(next)
    BY <1>1, <1>2, <1>3
  <2>2. \A t \in P : Rank(t) < Rank(next) => StageOf(t) # StageOf(next)
    BY <1>1, <1>2, <1>6, <2>1, StagesInOnePiece
  <2>3. PassedStages(work.args, next) = {<<StageOf(t), TRUE>> : t \in {u \in P : Rank(u) <= Rank(pc)}}
    BY <1>2, <2>2 DEF PassedStages, P
  <2>4. {<<StageOf(t), TRUE>> : t \in {u \in P : Rank(u) <= Rank(pc)}}
          \subseteq PassedStages(work.args, pc) \cup {<<StageOf(pc), TRUE>>}
    BY <1>4 DEF PassedStages, P
  <2>5. PassedStages(work.args, pc) \cup {<<StageOf(pc), TRUE>>}
          \subseteq {<<StageOf(t), TRUE>> : t \in {u \in P : Rank(u) <= Rank(pc)}}
    BY <1>1, <1>4 DEF PassedStages, P
  <2> QED
    BY <2>3, <2>4, <2>5
<1> QED
  BY <1>5, <1>6 DEF next

LEMMA EvidenceInductive ==
  /\ Init => Evidence
  /\ Shape /\ Evidence /\ [Next]_vars => Evidence'
<1>1. ASSUME Init PROVE Evidence
  <2>1. work.pc = "idle" /\ work.error = FALSE /\ work.exit = "none" /\ work.args \in Arguments
    BY <1>1, WorkflowAssumption DEF Init
  <2>2. "idle" \notin Tools(work.args)
    BY <2>1, PlannedAreTools
  <2> QED
    BY <2>1, <2>2 DEF Evidence, OnCourse, EvidenceAgrees
<1>2. ASSUME Shape, Evidence, [Next]_vars PROVE Evidence'
  <2>0. /\ work.args \in Arguments /\ work.error \in BOOLEAN
        /\ Tools(work.args) \cap (AfterTools \cup {"idle"}) = {}
    BY <1>2, PlannedAreTools DEF Shape
  <2>1. CASE UNCHANGED <<work, summary, manifest>>
    BY <1>2, <2>1 DEF Evidence, OnCourse, StageMissing, EvidenceAgrees, Accepted, Complete, Summary
  <2>2. ASSUME NEW args \in Arguments, Start(args) PROVE Evidence'
    <3>1. work' = [run |-> work.run + 1, pc |-> "source_cleanliness", args |-> args,
                   status |-> "passed", error |-> FALSE, results |-> {}, exit |-> "none"]
      BY <2>2, PlanInOrder DEF Start
    <3>2. \A t \in Tools(args) : ~(Rank(t) < Rank("source_cleanliness"))
      <4>1. Tools(args) \subseteq Tool /\ Rank("source_cleanliness") = 1
        BY PlannedAreTools DEF Rank
      <4> QED
        BY <4>1, RankTells
    <3>3. PassedStages(args, "source_cleanliness") = {}
      BY <3>2 DEF PassedStages
    <3> QED
      BY <3>1, <3>3 DEF Evidence, OnCourse, EvidenceAgrees
  <2>3. CASE ToolStep
    <3>1. work.pc \in Tools(work.args) /\ UNCHANGED <<summary, manifest>>
      BY <1>2, <2>3, ToolStepEffect
    <3>2. PICK ok \in BOOLEAN : Conclude(ok)
      BY <1>2, <2>3, ToolStepEffect
    <3> DEFINE next == IF ok THEN Following(work.pc) ELSE "write_summary"
               results == IF ~ok \/ StageOf(work.pc) # StageOf(next)
                            THEN work.results \cup {<<StageOf(work.pc), ok>>} ELSE work.results
               status == IF ok THEN work.status ELSE "failed"
    <3>3. work' = [run |-> work.run, pc |-> next, args |-> work.args, status |-> status,
                   error |-> work.error, results |-> results, exit |-> work.exit]
      BY <1>2, <3>1, <3>2, ConcludeEffect
    <3>4. work.status = "passed" /\ work.error = FALSE /\ work.results = PassedStages(work.args, work.pc)
      BY <1>2, <3>1 DEF Shape, Evidence, OnCourse
    <3>5. next \in Tools(work.args) \cup {"write_summary"}
      BY <2>0, <3>1, FollowingIsNext
    <3>6. status = "passed" => results = PassedStages(work.args, next)
      <4> SUFFICES ASSUME ok = TRUE PROVE results = PassedStages(work.args, next)
        OBVIOUS
      <4> QED
        BY <2>0, <3>1, <3>4, StageAdded
    <3> HIDE DEF next, results, status
    <3>7. next # "generate_manifest" /\ next # "rewrite_summary" /\ next # "idle"
      BY <2>0, <3>5 DEF AfterTools
    <3> QED
      BY <3>3, <3>4, <3>6, <3>7 DEF Evidence, OnCourse, EvidenceAgrees
  <2>4. CASE WriteSummary
    <3>1. /\ work' = [work EXCEPT !.pc = "generate_manifest"] /\ summary' = Summary(work.status)
          /\ work.pc = "write_summary"
      BY <2>4 DEF WriteSummary
    <3>2. work' = [run |-> work.run, pc |-> "generate_manifest", args |-> work.args,
                   status |-> work.status, error |-> work.error, results |-> work.results,
                   exit |-> work.exit]
      BY <1>2, <3>1 DEF Shape
    <3>3. PassedStages(work.args, "write_summary") = PassedStages(work.args, "generate_manifest")
      BY <2>0, AllStagesPassed
    <3>4. summary' = Summary(work.status)'
      BY <3>1, <3>2 DEF Summary
    <3> QED
      BY <1>2, <3>1, <3>2, <3>3, <3>4 DEF Evidence, OnCourse, StageMissing, EvidenceAgrees
  <2>5. CASE GenerateManifest
    <3>1. /\ work.pc = "generate_manifest" /\ work' = [work EXCEPT !.pc = "idle", !.exit = Exit(work)]
          /\ UNCHANGED summary
          /\ manifest'.run = work.run /\ manifest'.status = work.status
      BY <2>5 DEF GenerateManifest, BuildManifest
    <3>2. work' = [run |-> work.run, pc |-> "idle", args |-> work.args,
                   status |-> work.status, error |-> work.error, results |-> work.results,
                   exit |-> Exit(work)]
      BY <1>2, <3>1 DEF Shape
    <3>3. summary = [run |-> work.run, status |-> work.status, stages |-> work.results]
      BY <1>2, <3>1 DEF Evidence, Summary
    <3> DEFINE All == {<<stage, TRUE>> : stage \in PlannedStages(work.args)}
    <3>4. work.status = "passed" /\ work.error = FALSE => work.results = All
      BY <1>2, <2>0, <3>1, AllStagesPassed DEF Evidence, OnCourse
    <3>5. work.error => work.results # All
      BY <1>2 DEF Evidence, StageMissing, PlannedStages, Tools
    <3>6. Accepted' <=> work.status = "passed" /\ work.error = FALSE
      BY <2>0, <3>2 DEF Accepted, Exit
    <3>7. Complete' <=> work.status = "passed" /\ work.results = All
      BY <3>1, <3>2, <3>3 DEF Complete
    <3>8. summary'.run = work'.run /\ work'.run = work.run
      BY <3>1, <3>2, <3>3
    <3> HIDE DEF All
    <3>9. EvidenceAgrees'
      BY <2>0, <3>1, <3>4, <3>5, <3>6, <3>7, <3>8 DEF EvidenceAgrees
    <3> QED
      BY <1>2, <2>0, <3>2, <3>9 DEF Evidence, OnCourse, StageMissing, AfterTools
  <2>6. CASE ManifestFails
    <3>1. work' = [run |-> work.run, pc |-> "rewrite_summary", args |-> work.args,
                   status |-> "failed", error |-> work.error, results |-> work.results,
                   exit |-> work.exit]
      BY <1>2, <2>6 DEF Shape, ManifestFails
    <3> QED
      BY <1>2, <2>0, <3>1 DEF Evidence, OnCourse, StageMissing, EvidenceAgrees, AfterTools
  <2>7. CASE RewriteSummary
    <3>1. /\ work' = [work EXCEPT !.pc = "idle", !.exit = Exit(work)]
          /\ summary' = Summary(work.status) /\ work.status = "failed"
      BY <1>2, <2>7 DEF RewriteSummary, Evidence
    <3>2. Exit(work) = "1"
      BY <3>1 DEF Exit
    <3>3. work' = [run |-> work.run, pc |-> "idle", args |-> work.args, status |-> work.status,
                   error |-> work.error, results |-> work.results, exit |-> "1"]
      BY <1>2, <3>1, <3>2 DEF Shape
    <3>4. summary'.run = work.run /\ summary'.status = "failed"
      BY <3>1 DEF Summary
    <3>5. EvidenceAgrees'
      BY <3>3, <3>4 DEF EvidenceAgrees, Accepted, Complete
    <3> QED
      BY <1>2, <2>0, <3>3, <3>5 DEF Evidence, OnCourse, StageMissing, AfterTools
  <2>8. CASE Interrupt
    <3>1. work.error = FALSE
      BY <1>2, <2>8 DEF Interrupt, Shape, Tools
    <3>2. work' = [run |-> work.run, pc |-> "write_summary", args |-> work.args, status |-> "failed",
                   error |-> work.error, results |-> work.results, exit |-> work.exit]
      BY <1>2, <2>8 DEF Shape, Interrupt
    <3> QED
      BY <3>1, <3>2 DEF Evidence, OnCourse, EvidenceAgrees
  <2>9. CASE UnexpectedError
    <3>1. work.pc \in Tools(work.args)
      BY <2>9 DEF UnexpectedError, Tools
    <3>2. work.results = PassedStages(work.args, work.pc)
      BY <1>2, <3>1 DEF Shape, Evidence, OnCourse
    <3>3. <<StageOf(work.pc), TRUE>> \notin work.results
      BY <3>2 DEF PassedStages
    <3>4. work' = [run |-> work.run, pc |-> "write_summary", args |-> work.args, status |-> work.status,
                   error |-> TRUE, results |-> work.results, exit |-> work.exit]
      BY <1>2, <2>9 DEF Shape, UnexpectedError
    <3> QED
      BY <3>1, <3>3, <3>4 DEF Evidence, OnCourse, StageMissing, EvidenceAgrees
  <2>10. CASE Kill
    <3>1. work' = [run |-> work.run, pc |-> "idle", args |-> work.args, status |-> work.status,
                   error |-> work.error, results |-> work.results, exit |-> "killed"]
      BY <1>2, <2>10 DEF Shape, Kill
    <3> QED
      BY <1>2, <2>0, <3>1 DEF Evidence, OnCourse, StageMissing, EvidenceAgrees
  <2>11. CASE Developer
    BY <2>1, <2>11, DeveloperEffect
  <2>12. CASE UNCHANGED vars
    BY <2>1, <2>12 DEF vars
  <2> QED
    BY <1>2, <2>2, <2>3, <2>4, <2>5, <2>6, <2>7, <2>8, <2>9, <2>10, <2>11, <2>12, NextCases DEF EndStep
<1> QED
  BY <1>1, <1>2

(* The exit code of the workflow, its summary and its manifest agree on every run that      *)
(* came to its end, whichever stage failed, was interrupted or broke with an exception      *)
(* (main and write_summary of run_astra_os_assurance.py).                                   *)
THEOREM FilesAgreeWithExit == Spec => []EvidenceAgrees
<1>1. Init => (Shape /\ Reviews) /\ Evidence
  BY ShapeInductive, EvidenceInductive
<1>2. (Shape /\ Reviews) /\ Evidence /\ [Next]_vars => ((Shape /\ Reviews) /\ Evidence)'
  BY ShapeInductive, EvidenceInductive
<1>3. Evidence => EvidenceAgrees
  BY DEF Evidence
<1> QED
  BY <1>1, <1>2, <1>3, PTL DEF Spec

-----------------------------------------------------------------------------
(* What the tools of a run have established. *)

LEMMA ConcludeSuccess ==
  ASSUME Shape, work.pc \in Tools(work.args), NEW ok \in BOOLEAN, Conclude(ok),
         work'.status = "passed"
  PROVE  ok
<1> DEFINE next == IF ok THEN Following(work.pc) ELSE "write_summary"
           results == IF ~ok \/ StageOf(work.pc) # StageOf(next)
                        THEN work.results \cup {<<StageOf(work.pc), ok>>} ELSE work.results
           status == IF ok THEN work.status ELSE "failed"
<1>1. work' = [run |-> work.run, pc |-> next, args |-> work.args, status |-> status,
               error |-> work.error, results |-> results, exit |-> work.exit]
  BY ConcludeEffect
<1>2. work'.status = status
  <2> HIDE DEF next, results, status
  <2> QED
    BY <1>1
<1> QED
  BY <1>2

FreshPass(report) == report.run = work.run /\ report.result = "PASS"

(* What follows from the success of the tool at work.pc.                                   *)
Succeeded ==
  /\ \A name \in ReportName : reports'[name] = reports[name] \/ FreshPass(reports'[name])
  /\ work.pc \in ToolReport => FreshPass(reports'[work.pc])
  /\ \A dir \in BuildDir : binary'[dir] = binary[dir] \/ binary'[dir] = Built(tree.content)
  /\ saw' = IF work.pc \in {"scenarios", "fdir", "monte_carlo"} THEN SeeBinary
            ELSE IF work.pc = "test_sanitizers" THEN See(binary["sanitizers"].content, saw)
            ELSE See(tree.content, saw)
  /\ work.pc = "build_and_unit_tests" => Sources.code.passes /\ binary'["build"] = Built(tree.content)
  /\ work.pc = "build_sanitizers" => binary'["sanitizers"] = Built(tree.content)
  /\ work.pc = "scenarios" =>
       Flies /\ \A name \in DOMAIN Sources.scenarios : FreshPass(reports'[name])
  /\ work.pc = "protocol" => ProtocolAgrees(Sources.protocol)
  /\ work.pc = "requirements" => RequirementsVerdict
  /\ work.pc = "assistant_eval" => EvaluationPasses(Sources.cases, Sources.policy, Sources.files)
  /\ work.pc = "controlled_mutation" => Sources.code.guards = 1 /\ Sources.code.kills

(* A tool reports success only of what it found: no other report is touched, none is left   *)
(* over from an earlier run, and binaries are those of the tree.                            *)
LEMMA SuccessMeans ==
  ASSUME Shape, ToolStep, work'.status = "passed"
  PROVE  Succeeded
<1>0. /\ work.pc \in Tools(work.args)
      /\ DOMAIN reports = ReportName /\ DOMAIN binary = BuildDir
      /\ ToolReport \subseteq ReportName
      /\ DOMAIN Sources.scenarios \subseteq ReportName \ ToolReport
      /\ {"build", "sanitizers", work.args.build_dir} \subseteq BuildDir
      /\ work.args.build_dir # "sanitizers"
  BY ToolStepEffect, WorkflowAssumption DEF Shape, TreeState, Sources
<1>1. CASE SourceCleanliness
  BY <1>1 DEF SourceCleanliness, Succeeded, ToolReport
<1>2. CASE ExternalStage
  BY <1>2 DEF ExternalStage, Succeeded, ToolReport
<1>3. CASE BuildAndUnitTests
  <2>1. PICK compiles \in BOOLEAN, ok \in BOOLEAN :
          /\ binary' = [binary EXCEPT !["build"] = IF compiles THEN Built(tree.content) ELSE NoBinary]
          /\ Conclude(compiles /\ ok /\ Sources.code.passes)
    BY <1>3 DEF BuildAndUnitTests
  <2>2. compiles /\ ok /\ Sources.code.passes
    <3>1. (compiles /\ ok /\ Sources.code.passes) \in BOOLEAN
      OBVIOUS
    <3> QED
      BY <1>0, <2>1, <3>1, ConcludeSuccess
  <2> QED
    BY <1>0, <1>3, <2>1, <2>2 DEF BuildAndUnitTests, Succeeded, ToolReport
<1>4. CASE RunScenarios
  <2>1. PICK outcome \in [DOMAIN Sources.scenarios -> {"PASS", "FAIL", "CRASH"}] :
          /\ ~Flies => \E name \in DOMAIN outcome : outcome[name] # "PASS"
          /\ reports' = AfterScenarios(outcome)
          /\ Conclude(ScenariosPass(outcome))
    BY <1>4 DEF RunScenarios, ScenarioOutcomes
  <2>2. ScenariosPass(outcome)
    <3>1. ScenariosPass(outcome) \in BOOLEAN
      BY DEF ScenariosPass
    <3> QED
      BY <1>0, <2>1, <3>1, ConcludeSuccess
  <2>3. \A name \in DOMAIN Sources.scenarios : outcome[name] = "PASS"
    BY <2>1, <2>2 DEF ScenariosPass
  <2>4. Flies
    BY <2>1, <2>3
  <2>5. \A name \in ReportName : reports'[name] = IF name \in DOMAIN Sources.scenarios
                                                     THEN Report("PASS") ELSE reports[name]
    BY <2>1, <2>3 DEF AfterScenarios
  <2> QED
    BY <1>0, <1>4, <2>4, <2>5 DEF RunScenarios, Succeeded, ToolReport, Report, FreshPass
<1>5. CASE FdirCampaign
  <2>1. PICK outcomes \in TrialOutcomes(Flies) :
          /\ reports' = IF "TIMEOUT" \in outcomes THEN reports
                        ELSE [reports EXCEPT !["fdir"] = Report(Verdict(outcomes))]
          /\ Conclude(outcomes = {"PASS"})
    BY <1>5 DEF FdirCampaign, AfterFdir
  <2>2. outcomes = {"PASS"}
    <3>1. (outcomes = {"PASS"}) \in BOOLEAN
      OBVIOUS
    <3> QED
      BY <1>0, <2>1, <3>1, ConcludeSuccess
  <2>3. reports' = [reports EXCEPT !["fdir"] = Report("PASS")]
    BY <2>1, <2>2 DEF Verdict
  <2> QED
    BY <1>0, <1>5, <2>3 DEF FdirCampaign, Succeeded, ToolReport, Report, FreshPass
<1>6. CASE MonteCarlo
  <2>1. PICK outcomes \in TrialOutcomes(Binary.built) :
          /\ reports' = [reports EXCEPT !["monte_carlo"] = MonteCarloReport(outcomes)]
          /\ Conclude(outcomes = {"PASS"})
    BY <1>6 DEF MonteCarlo
  <2>2. outcomes = {"PASS"}
    <3>1. (outcomes = {"PASS"}) \in BOOLEAN
      OBVIOUS
    <3> QED
      BY <1>0, <2>1, <3>1, ConcludeSuccess
  <2>3. reports' = [reports EXCEPT !["monte_carlo"] = Report("PASS")]
    BY <2>1, <2>2 DEF Verdict, MonteCarloReport
  <2> QED
    BY <1>0, <1>6, <2>3 DEF MonteCarlo, Succeeded, ToolReport, Report, FreshPass
<1>7. CASE PiPackage
  <2>1. PICK builds \in BOOLEAN, ok \in BOOLEAN :
          /\ binary' = IF builds THEN [binary EXCEPT ![work.args.build_dir] = Built(tree.content)] ELSE binary
          /\ reports' = IF ok THEN [reports EXCEPT !["pi_package"] = Report("PASS")] ELSE reports
          /\ Conclude(ok)
    BY <1>7 DEF PiPackage, AfterPackaging
  <2>2. ok
    BY <1>0, <2>1, ConcludeSuccess
  <2> QED
    BY <1>0, <1>7, <2>1, <2>2 DEF PiPackage, Succeeded, ToolReport, Report, FreshPass
<1>8. CASE CheckProtocol
  <2>1. reports' = AfterProtocolCheck /\ Conclude(TablesFound /\ ProtocolAgrees(Tables))
    BY <1>8 DEF CheckProtocol
  <2>2. TablesFound /\ ProtocolAgrees(Tables)
    <3>1. (TablesFound /\ ProtocolAgrees(Tables)) \in BOOLEAN
      OBVIOUS
    <3> QED
      BY <1>0, <2>1, <3>1, ConcludeSuccess
  <2>3. reports' = [reports EXCEPT !["protocol"] = Report("PASS")] /\ ProtocolAgrees(Sources.protocol)
    BY <2>1, <2>2 DEF AfterProtocolCheck, Tables
  <2> QED
    BY <1>0, <1>8, <2>3 DEF CheckProtocol, Succeeded, ToolReport, Report, FreshPass
<1>9. CASE CheckRequirements
  <2>1. reports' = AfterRequirementCheck(work.run) /\ Conclude(RequirementsVerdict)
    BY <1>9 DEF CheckRequirements
  <2>2. RequirementsVerdict
    <3>1. RequirementsVerdict \in BOOLEAN
      BY DEF RequirementsVerdict, RequirementCheckPasses
    <3> QED
      BY <1>0, <2>1, <3>1, ConcludeSuccess
  <2>3. Readable(Sources)
    BY <2>2 DEF RequirementsVerdict, RequirementCheckPasses
  <2>4. reports' = [reports EXCEPT !["requirements"] =
                      [run |-> work.run, result |-> "PASS", of |-> BuildTraceabilityPayload(Sources)]]
    BY <2>1, <2>2, <2>3 DEF AfterRequirementCheck
  <2> QED
    BY <1>0, <1>9, <2>2, <2>4 DEF CheckRequirements, Succeeded, ToolReport, FreshPass
<1>10. CASE AssistantEval
  <2>1. reports' = AfterEvaluation /\ Conclude(EvaluationLoads(Sources.cases) /\ AssistantObeys)
    BY <1>10 DEF AssistantEval
  <2>2. EvaluationLoads(Sources.cases) /\ AssistantObeys
    <3>1. (EvaluationLoads(Sources.cases) /\ AssistantObeys) \in BOOLEAN
      OBVIOUS
    <3> QED
      BY <1>0, <2>1, <3>1, ConcludeSuccess
  <2>3. reports' = [reports EXCEPT !["assistant_eval"] = Report("PASS")]
        /\ EvaluationPasses(Sources.cases, Sources.policy, Sources.files)
    BY <2>1, <2>2 DEF AfterEvaluation, AssistantObeys
  <2> QED
    BY <1>0, <1>10, <2>3 DEF AssistantEval, Succeeded, ToolReport, Report, FreshPass
<1>11. CASE BuildSanitizers
  <2>1. PICK compiles \in BOOLEAN :
          /\ binary' = IF compiles THEN [binary EXCEPT !["sanitizers"] = Built(tree.content)] ELSE binary
          /\ Conclude(compiles)
    BY <1>11 DEF BuildSanitizers
  <2>2. compiles
    BY <1>0, <2>1, ConcludeSuccess
  <2> QED
    BY <1>0, <1>11, <2>1, <2>2 DEF BuildSanitizers, Succeeded, ToolReport
<1>12. CASE TestSanitizers
  BY <1>12 DEF TestSanitizers, Succeeded, ToolReport
<1>13. CASE ControlledMutation
  <2>1. PICK compiles \in BOOLEAN :
          Conclude(Sources.code.guards = 1 /\ compiles /\ Sources.code.kills)
    BY <1>13 DEF ControlledMutation
  <2>2. Sources.code.guards = 1 /\ compiles /\ Sources.code.kills
    <3>1. (Sources.code.guards = 1 /\ compiles /\ Sources.code.kills) \in BOOLEAN
      OBVIOUS
    <3> QED
      BY <1>0, <2>1, <3>1, ConcludeSuccess
  <2> QED
    BY <1>13, <2>2 DEF ControlledMutation, Succeeded, ToolReport
<1> QED
  BY <1>1, <1>2, <1>3, <1>4, <1>5, <1>6, <1>7, <1>8, <1>9, <1>10, <1>11, <1>12, <1>13 DEF ToolStep

-----------------------------------------------------------------------------
(* What a run on undisturbed sources has shown. *)

(* The sources are the committed ones and have been so since the run began.               *)
Clean == ~moved /\ tree = head

DoneTools == {t \in Tools(work.args) : Rank(t) < Rank(work.pc)}

FreshReport(name) == (name \in Alone /\ reports[name].run = 0) \/ FreshPass(reports[name])

(* What the tools in done have shown of the sources.                                      *)
Confirmed(done) ==
  /\ "source_cleanliness" \in done /\ work.args.build_dir = "build" => saw = tree.content
  /\ "build_and_unit_tests" \in done => Sources.code.passes /\ binary["build"] = Built(tree.content)
  /\ "scenarios" \in done => /\ \A name \in DOMAIN Sources.scenarios : FreshReport(name)
                             /\ work.args.build_dir = "build" => Sources.code.flies
  /\ "protocol" \in done => ProtocolAgrees(Sources.protocol)
  /\ "requirements" \in done => tree.baseline = BuildTraceabilityPayload(Sources)
  /\ "assistant_eval" \in done => EvaluationPasses(Sources.cases, Sources.policy, Sources.files)
  /\ "build_sanitizers" \in done => binary["sanitizers"] = Built(tree.content)
  /\ "controlled_mutation" \in done => Sources.code.guards = 1 /\ Sources.code.kills

Established(done) ==
  /\ \A name \in ToolReport \cap done : FreshReport(name)
  /\ Clean => Confirmed(done)

Tested ==
  /\ work.pc = "source_cleanliness" => saw = "nothing"
  /\ OnCourse => Established(DoneTools)

(* Tools come after those whose results they use.                                         *)
LEMMA ToolsInOrder ==
  ASSUME work.args \in Arguments, work.pc \in Tools(work.args)
  PROVE  /\ work.pc # "source_cleanliness" => "source_cleanliness" \in DoneTools
         /\ work.pc \in {"scenarios", "fdir", "monte_carlo"} => "build_and_unit_tests" \in DoneTools
         /\ work.pc = "test_sanitizers" => "build_sanitizers" \in DoneTools
<1>1. /\ "source_cleanliness" \in Tools(work.args) /\ "build_and_unit_tests" \in Tools(work.args)
      /\ "test_sanitizers" \in Tools(work.args) => "build_sanitizers" \in Tools(work.args)
  BY PlanInOrder
<1>2. work.pc # "source_cleanliness" => Rank("source_cleanliness") < Rank(work.pc)
  <2>1. work.pc \in Tool /\ "source_cleanliness" \in Tool /\ Rank("source_cleanliness") = 1
    BY PlannedAreTools DEF Tool, Rank
  <2> QED
    BY <2>1, RankTells
<1>3. work.pc \in {"scenarios", "fdir", "monte_carlo"} => Rank("build_and_unit_tests") < Rank(work.pc)
  BY DEF Rank
<1>4. work.pc = "test_sanitizers" => Rank("build_sanitizers") < Rank(work.pc)
  BY DEF Rank
<1> QED
  BY <1>1, <1>2, <1>3, <1>4 DEF DoneTools

(* A run that is still on course after a tool has that tool among the done ones.           *)
LEMMA ToolDone ==
  ASSUME Shape, ToolStep, OnCourse'
  PROVE  /\ work.pc \in Tools(work.args)
         /\ work'.status = "passed" /\ work'.args = work.args /\ work'.run = work.run
         /\ DoneTools' = DoneTools \cup {work.pc}
         /\ work'.pc # "source_cleanliness"
<1>1. work.pc \in Tools(work.args) /\ work.args \in Arguments
  BY ToolStepEffect DEF Shape
<1>2. PICK ok \in BOOLEAN : Conclude(ok)
  BY ToolStepEffect
<1> DEFINE next == IF ok THEN Following(work.pc) ELSE "write_summary"
           results == IF ~ok \/ StageOf(work.pc) # StageOf(next)
                        THEN work.results \cup {<<StageOf(work.pc), ok>>} ELSE work.results
           status == IF ok THEN work.status ELSE "failed"
<1>3. work' = [run |-> work.run, pc |-> next, args |-> work.args, status |-> status,
               error |-> work.error, results |-> results, exit |-> work.exit]
  BY <1>1, <1>2, ConcludeEffect
<1>4. work'.pc = next /\ work'.args = work.args /\ work'.run = work.run /\ work'.status = status
  <2> HIDE DEF next, results, status
  <2> QED
    BY <1>3
<1>5. work'.status = "passed"
  BY DEF OnCourse
<1>6. work'.pc = Following(work.pc)
  BY <1>4, <1>5
<1>7. \A t \in Tools(work.args) : Rank(t) < Rank(work'.pc) <=> Rank(t) <= Rank(work.pc)
  BY <1>1, <1>6, FollowingIsNext
<1>8. Tools(work.args) \subseteq Tool
  BY <1>1, PlannedAreTools
<1>9. \A t \in Tools(work.args) : Rank(t) <= Rank(work.pc) <=> Rank(t) < Rank(work.pc) \/ t = work.pc
  BY <1>1, <1>8, RankTells
<1>10. DoneTools' = {t \in Tools(work.args) : Rank(t) < Rank(work'.pc)}
  BY <1>4 DEF DoneTools
<1>11. DoneTools' = DoneTools \cup {work.pc}
  BY <1>1, <1>7, <1>9, <1>10 DEF DoneTools
<1>12. work'.pc # "source_cleanliness"
  <2>1. Rank(work.pc) < Rank(work'.pc) /\ Rank(work.pc) \in 1 .. 14
    BY <1>1, <1>7, <1>8, RankTells
  <2>2. Rank("source_cleanliness") = 1
    BY DEF Rank
  <2> QED
    BY <2>1, <2>2
<1> QED
  BY <1>1, <1>4, <1>5, <1>11, <1>12

(* A tool that ends well on a clean tree has looked at that tree and nothing else, if the  *)
(* campaigns use the directory that the workflow has built.                                *)
LEMMA OneContentSeen ==
  ASSUME work.args \in Arguments, work.pc \in Tools(work.args), Confirmed(DoneTools), Succeeded,
         work.pc = "source_cleanliness" => saw = "nothing", work.args.build_dir = "build"
  PROVE  saw' = tree.content
<1>1. saw \in {"nothing", tree.content}
  BY ToolsInOrder DEF Confirmed
<1>2. See(tree.content, saw) = tree.content
  BY <1>1 DEF See
<1>3. CASE work.pc \in {"scenarios", "fdir", "monte_carlo"}
  <2>1. Binary = Built(tree.content)
    BY <1>3, ToolsInOrder DEF Confirmed, Binary
  <2>2. Binary.built /\ Binary.content = tree.content
    BY <2>1 DEF Built
  <2>3. SeeBinary = tree.content
    BY <1>2, <2>2 DEF SeeBinary, See
  <2> QED
    BY <1>3, <2>3 DEF Succeeded
<1>4. CASE work.pc = "test_sanitizers"
  <2>1. binary["sanitizers"].content = tree.content
    BY <1>4, ToolsInOrder DEF Confirmed, Built
  <2> QED
    BY <1>2, <1>4, <2>1 DEF Succeeded
<1>5. CASE work.pc \notin {"scenarios", "fdir", "monte_carlo", "test_sanitizers"}
  BY <1>2, <1>5 DEF Succeeded
<1> QED
  BY <1>3, <1>4, <1>5

(* A tool adds what it has shown, and spoils nothing that was shown before.                *)
LEMMA ToolEstablishes ==
  ASSUME Shape, Reviews, Tested, ToolStep, OnCourse'
  PROVE  Established(DoneTools)'
<1>1. /\ work.pc \in Tools(work.args) /\ work.args \in Arguments
      /\ work'.status = "passed" /\ work'.args = work.args /\ work'.run = work.run
      /\ DoneTools' = DoneTools \cup {work.pc}
  BY ToolDone DEF Shape
<1>2. Succeeded
  BY <1>1, SuccessMeans
<1>3. UNCHANGED <<tree, head, moved>>
  BY ToolStepEffect DEF repositoryVars
<1>4. Established(DoneTools) /\ (work.pc = "source_cleanliness" => saw = "nothing")
  BY <1>1 DEF Shape, Tested, OnCourse
<1>5. ASSUME NEW name \in ReportName, FreshReport(name) \/ FreshPass(reports'[name])
      PROVE  FreshReport(name)'
  BY <1>1, <1>2, <1>5 DEF Succeeded, FreshReport, FreshPass
<1>6. /\ ToolReport \subseteq ReportName /\ DOMAIN Sources.scenarios \subseteq ReportName
      /\ {"build", "sanitizers"} \subseteq BuildDir
  BY WorkflowAssumption DEF Shape, TreeState, Sources
<1>7. ASSUME NEW name \in ToolReport \cap DoneTools' PROVE FreshReport(name)'
  BY <1>1, <1>2, <1>4, <1>5, <1>6, <1>7 DEF Established, Succeeded
<1>8. ASSUME Clean' PROVE Confirmed(DoneTools)'
  <2>1. Confirmed(DoneTools)
    BY <1>3, <1>4, <1>8 DEF Clean, Established
  <2>2. Sources' = Sources
    BY <1>3 DEF Sources
  <2>3. work.args.build_dir = "build" => saw' = tree.content
    BY <1>1, <1>2, <1>4, <2>1, OneContentSeen
  <2>4. ASSUME "build_and_unit_tests" \in DoneTools'
        PROVE  Sources.code.passes /\ binary'["build"] = Built(tree.content)
    BY <1>1, <1>2, <1>6, <2>1, <2>4 DEF Confirmed, Succeeded
  <2>5. ASSUME "scenarios" \in DoneTools'
        PROVE  /\ \A name \in DOMAIN Sources.scenarios : FreshReport(name)'
               /\ work.args.build_dir = "build" => Sources.code.flies
    <3>1. CASE "scenarios" \in DoneTools
      BY <1>5, <1>6, <2>1, <3>1 DEF Confirmed
    <3>2. CASE work.pc = "scenarios"
      <4>1. Flies /\ \A name \in DOMAIN Sources.scenarios : FreshPass(reports'[name])
        BY <1>2, <3>2 DEF Succeeded
      <4>2. work.args.build_dir = "build" => Sources.code.flies
        <5> SUFFICES ASSUME work.args.build_dir = "build" PROVE Sources.code.flies
          OBVIOUS
        <5>1. Binary = Built(tree.content)
          BY <1>1, <2>1, <3>2, ToolsInOrder DEF Confirmed, Binary
        <5> QED
          BY <4>1, <5>1 DEF Flies, Built, Sources
      <4> QED
        BY <1>5, <1>6, <4>1, <4>2
    <3> QED
      BY <1>1, <2>5, <3>1, <3>2
  <2>6. "protocol" \in DoneTools' => ProtocolAgrees(Sources.protocol)
    BY <1>1, <1>2, <2>1 DEF Confirmed, Succeeded
  <2>7. "requirements" \in DoneTools' => tree.baseline = BuildTraceabilityPayload(Sources)
    BY <1>1, <1>2, <2>1, VerdictMatchesBaseline DEF Confirmed, Succeeded
  <2>8. "assistant_eval" \in DoneTools' => EvaluationPasses(Sources.cases, Sources.policy, Sources.files)
    BY <1>1, <1>2, <2>1 DEF Confirmed, Succeeded
  <2>9. "build_sanitizers" \in DoneTools' => binary'["sanitizers"] = Built(tree.content)
    BY <1>1, <1>2, <1>6, <2>1 DEF Confirmed, Succeeded
  <2>10. "controlled_mutation" \in DoneTools' => Sources.code.guards = 1 /\ Sources.code.kills
    BY <1>1, <1>2, <2>1 DEF Confirmed, Succeeded
  <2>11. /\ ProtocolAgrees(Sources.protocol)' = ProtocolAgrees(Sources.protocol)
         /\ BuildTraceabilityPayload(Sources)' = BuildTraceabilityPayload(Sources)
         /\ EvaluationPasses(Sources.cases, Sources.policy, Sources.files)'
              = EvaluationPasses(Sources.cases, Sources.policy, Sources.files)
         /\ Built(tree.content)' = Built(tree.content)
    BY <1>3, <2>2
  <2> HIDE DEF DoneTools
  <2> QED
    BY <1>1, <1>3, <2>2, <2>3, <2>4, <2>5, <2>6, <2>7, <2>8, <2>9, <2>10, <2>11 DEF Confirmed
<1> QED
  BY <1>7, <1>8 DEF Established

(* The developer, while a run goes on: a tree that is clean afterwards was clean before and *)
(* is the same one; the only reports written are of no run.                                 *)
LEMMA DeveloperDisturbs ==
  ASSUME Shape, Developer
  PROVE  /\ UNCHANGED <<binary, summary, manifest, work, saw>>
         /\ Running /\ Clean' => Clean /\ UNCHANGED tree
         /\ ~Running => (moved' <=> moved)
         /\ \A name \in ReportName :
              reports'[name] = reports[name] \/ (name \in Alone /\ reports'[name].run = 0)
<1>1. UNCHANGED <<binary, summary, manifest, work, saw>>
  BY DeveloperEffect
<1>2. DOMAIN reports = ReportName
  BY DEF Shape
<1>3. CASE UNCHANGED <<tree, head, moved>> /\ reports' = AfterRequirementCheck(0)
  <2>1. \A name \in ReportName : reports'[name] = reports[name] \/ (name \in Alone /\ reports'[name].run = 0)
    BY <1>2, <1>3 DEF AfterRequirementCheck, Alone
  <2> QED
    BY <1>1, <1>3, <2>1 DEF Clean
<1>4. ASSUME NEW result, UNCHANGED <<tree, head, moved>>,
             reports' = [reports EXCEPT !["hil_smoke_test"] = [run |-> 0, result |-> result]]
      PROVE  /\ Running /\ Clean' => Clean /\ UNCHANGED tree
             /\ ~Running => (moved' <=> moved)
             /\ \A name \in ReportName :
                  reports'[name] = reports[name] \/ (name \in Alone /\ reports'[name].run = 0)
  BY <1>2, <1>4 DEF Clean, Alone
<1>5. ASSUME NEW content \in Content, Edit(content), UNCHANGED reports
      PROVE  NoteMove(tree' = head) /\ head' = head
  BY <1>5 DEF Edit
<1>6. ASSUME UpdateTraceabilityBaseline PROVE NoteMove(tree' = head) /\ head' = head
  BY <1>6 DEF UpdateTraceabilityBaseline
<1>7. ASSUME Commit \/ Checkout PROVE NoteMove(TRUE)
  BY <1>7 DEF Commit, Checkout
<1>8. ASSUME UNCHANGED reports, (NoteMove(tree' = head) /\ head' = head) \/ NoteMove(TRUE)
      PROVE  /\ Running /\ Clean' => Clean /\ UNCHANGED tree
             /\ ~Running => (moved' <=> moved)
             /\ \A name \in ReportName :
                  reports'[name] = reports[name] \/ (name \in Alone /\ reports'[name].run = 0)
  BY <1>8 DEF NoteMove, Clean
<1> QED
  BY <1>1, <1>3, <1>4, <1>5, <1>6, <1>7, <1>8, DeveloperEffect

LEMMA DeveloperKeepsTested ==
  ASSUME Shape, Tested, Developer
  PROVE  Tested'
<1>1. /\ UNCHANGED <<binary, work, saw>>
      /\ Running /\ Clean' => Clean /\ UNCHANGED tree
      /\ \A name \in ReportName :
           reports'[name] = reports[name] \/ (name \in Alone /\ reports'[name].run = 0)
  BY DeveloperDisturbs
<1>2. (OnCourse' <=> OnCourse) /\ DoneTools' = DoneTools
  BY <1>1 DEF OnCourse, DoneTools
<1>3. ASSUME NEW name \in ReportName, FreshReport(name) PROVE FreshReport(name)'
  BY <1>1, <1>3 DEF FreshReport, FreshPass
<1>4. /\ ToolReport \subseteq ReportName /\ DOMAIN Sources.scenarios \subseteq ReportName
  BY WorkflowAssumption DEF Shape, TreeState, Sources
<1>5. ASSUME OnCourse PROVE Established(DoneTools)'
  <2>1. Established(DoneTools) /\ Running
    BY <1>5, PlannedAreTools DEF Tested, Running, OnCourse, Shape
  <2>2. \A name \in ToolReport \cap DoneTools : FreshReport(name)'
    BY <1>3, <1>4, <2>1 DEF Established
  <2>3. ASSUME Clean' PROVE Confirmed(DoneTools)'
    <3>1. Confirmed(DoneTools) /\ UNCHANGED tree
      BY <1>1, <2>1, <2>3 DEF Established
    <3>2. Sources' = Sources
      BY <3>1 DEF Sources
    <3>3. /\ ProtocolAgrees(Sources.protocol)' = ProtocolAgrees(Sources.protocol)
          /\ BuildTraceabilityPayload(Sources)' = BuildTraceabilityPayload(Sources)
          /\ EvaluationPasses(Sources.cases, Sources.policy, Sources.files)'
               = EvaluationPasses(Sources.cases, Sources.policy, Sources.files)
          /\ Built(tree.content)' = Built(tree.content)
      BY <3>1, <3>2
    <3>4. "scenarios" \in DoneTools => \A name \in DOMAIN Sources.scenarios : FreshReport(name)'
      BY <1>3, <1>4, <3>1 DEF Confirmed
    <3> QED
      BY <1>1, <1>2, <3>1, <3>2, <3>3, <3>4 DEF Confirmed
  <2> QED
    BY <1>2, <2>2, <2>3 DEF Established
<1> QED
  BY <1>1, <1>2, <1>5 DEF Tested

LEMMA TestedInductive ==
  /\ Init => Tested
  /\ Shape /\ Reviews /\ Tested /\ [Next]_vars => Tested'
<1>1. ASSUME Init PROVE Tested
  <2>1. work.pc = "idle" /\ work.args \in Arguments
    BY <1>1, WorkflowAssumption DEF Init
  <2>2. "idle" \notin Tools(work.args)
    BY <2>1, PlannedAreTools
  <2> QED
    BY <2>1, <2>2 DEF Tested, OnCourse
<1>2. ASSUME Shape, Reviews, Tested, [Next]_vars PROVE Tested'
  <2>1. CASE UNCHANGED vars
    <3>1. /\ UNCHANGED <<tree, head, moved, binary, reports, work, saw>>
      BY <2>1 DEF vars, repositoryVars
    <3>2. Sources' = Sources
      BY <3>1 DEF Sources
    <3> QED
      BY <1>2, <3>1, <3>2 DEF Tested, OnCourse, Established, Confirmed, DoneTools, FreshReport, FreshPass, Clean
  <2>2. ASSUME NEW args \in Arguments, Start(args) PROVE Tested'
    <3>1. /\ work' = [run |-> work.run + 1, pc |-> "source_cleanliness", args |-> args,
                      status |-> "passed", error |-> FALSE, results |-> {}, exit |-> "none"]
          /\ saw' = "nothing"
      BY <2>2, PlanInOrder DEF Start
    <3>2. \A t \in Tools(args) : ~(Rank(t) < Rank("source_cleanliness"))
      <4>1. Tools(args) \subseteq Tool /\ Rank("source_cleanliness") = 1
        BY PlannedAreTools DEF Rank
      <4> QED
        BY <4>1, RankTells
    <3>3. DoneTools' = {}
      BY <3>1, <3>2 DEF DoneTools
    <3>4. Established(DoneTools)'
      BY <3>3 DEF Established, Confirmed
    <3> QED
      BY <3>1, <3>4 DEF Tested
  <2>3. CASE ToolStep
    <3>1. work'.pc # "source_cleanliness"
      <4>1. PICK ok \in BOOLEAN : Conclude(ok)
        BY <1>2, <2>3, ToolStepEffect
      <4>2. /\ work.pc \in Tools(work.args) /\ work.args \in Arguments
            /\ work.error = FALSE /\ work.status = "passed"
        BY <1>2, <2>3, ToolStepEffect DEF Shape
      <4>3. work'.pc \in {Following(work.pc), "write_summary"}
        BY <1>2, <4>1, <4>2, ConcludeEffect
      <4>4. Following(work.pc) # "source_cleanliness"
        <5>1. Rank(work.pc) < Rank(Following(work.pc)) /\ Rank(work.pc) \in 1 .. 14
          BY <4>2, FollowingIsNext, PlannedAreTools, RankTells
        <5>2. Rank("source_cleanliness") = 1
          BY DEF Rank
        <5> QED
          BY <5>1, <5>2
      <4> QED
        BY <4>3, <4>4
    <3>2. ASSUME OnCourse' PROVE Established(DoneTools)'
      BY <1>2, <2>3, <3>2, ToolEstablishes
    <3> QED
      BY <3>1, <3>2 DEF Tested
  <2>4. CASE EndStep
    <3>1. /\ UNCHANGED <<repositoryVars, saw>>
          /\ work' = [run |-> work.run, pc |-> work'.pc, args |-> work.args, status |-> work'.status,
                      error |-> work'.error, results |-> work.results, exit |-> work'.exit]
          /\ work'.pc \in AfterTools \cup {"idle"}
      BY <1>2, <2>4, EndStepEffect
    <3>2. work'.args = work.args /\ work'.run = work.run
      BY <3>1
    <3>3. work'.pc # "source_cleanliness" /\ work'.pc \notin Tools(work.args)
      BY <1>2, <3>1, PlannedAreTools DEF Shape, AfterTools
    <3>4. ASSUME OnCourse' PROVE OnCourse /\ DoneTools' = DoneTools /\ UNCHANGED <<binary, reports>>
      <4>1. work'.pc \in {"write_summary", "generate_manifest"} /\ work'.status = "passed"
            /\ work'.error = FALSE
        BY <3>2, <3>3, <3>4 DEF OnCourse
      <4>2. WriteSummary
        BY <1>2, <2>4, <4>1 DEF EndStep, Interrupt, UnexpectedError, Kill, ManifestFails,
                                RewriteSummary, GenerateManifest, Shape
      <4>3. /\ work.pc = "write_summary" /\ work'.pc = "generate_manifest" /\ UNCHANGED <<binary, reports>>
            /\ work'.status = work.status /\ work'.error = work.error
        BY <1>2, <4>2 DEF WriteSummary, Shape
      <4>4. OnCourse
        BY <4>1, <4>3 DEF OnCourse
      <4>5. DoneTools' = DoneTools
        BY <3>2, <4>3, RankTells DEF DoneTools
      <4> QED
        BY <4>3, <4>4, <4>5
    <3>5. ASSUME OnCourse' PROVE Established(DoneTools)'
      <4>1. Established(DoneTools) /\ DoneTools' = DoneTools /\ UNCHANGED <<binary, reports>>
        BY <1>2, <3>4, <3>5 DEF Tested
      <4>2. UNCHANGED <<tree, head, moved, saw>> /\ Sources' = Sources
        BY <3>1 DEF repositoryVars, Sources
      <4> QED
        BY <3>2, <4>1, <4>2 DEF Established, Confirmed, FreshReport, FreshPass, Clean
    <3> QED
      BY <3>3, <3>5 DEF Tested
  <2>5. CASE Developer
    BY <1>2, <2>5, DeveloperKeepsTested
  <2> QED
    BY <1>2, <2>1, <2>2, <2>3, <2>4, <2>5, NextCases
<1> QED
  BY <1>1, <1>2

-----------------------------------------------------------------------------
(* What an accepted run says. *)

Conclusions ==
  /\ manifest.inputs \in TreeState
  /\ ReportsAreFresh /\ ManifestNamesTested /\ AcceptedIsVerified

(* A manifest that calls the sources clean was written when nothing was uncommitted.        *)
LEMMA NotDirtyMeansCommitted ==
  ASSUME Shape, NEW generated \in SUBSET Generated, ~SourceDirty(generated)
  PROVE  tree = head
<1>1. DOMAIN tree = {"content", "baseline"}
  BY DEF Shape, TreeState
<1>2. \A path \in {"content", "baseline"} : tree[path] = head[path]
  BY <1>1 DEF SourceDirty, SourceDirtyPaths, DirtyPaths, Generated
<1> QED
  BY <1>2 DEF Shape, TreeState

(* The step that completes an accepted run.                                                 *)
LEMMA ManifestConcludes ==
  ASSUME Shape, Tested, GenerateManifest
  PROVE  Conclusions'
<1>1. PICK generated \in SUBSET Generated : manifest' = BuildManifest(generated)
  BY DEF GenerateManifest
<1>2. /\ manifest'.inputs = tree /\ manifest'.commit = head
      /\ manifest'.source_dirty = SourceDirty(generated)
  BY <1>1 DEF BuildManifest
<1>3. /\ work.pc = "generate_manifest" /\ work' = [work EXCEPT !.pc = "idle", !.exit = Exit(work)]
      /\ UNCHANGED <<tree, head, moved, reports, saw>>
  BY DEF GenerateManifest, repositoryVars
<1>4. work' = [run |-> work.run, pc |-> "idle", args |-> work.args, status |-> work.status,
               error |-> work.error, results |-> work.results, exit |-> Exit(work)]
  BY <1>3 DEF Shape
<1>5. work'.run = work.run /\ work'.args = work.args /\ work'.exit = Exit(work)
  BY <1>4
<1>6. ASSUME Accepted' PROVE Established(Tools(work.args))
  <2>1. work.status = "passed" /\ work.error = FALSE
    BY <1>5, <1>6 DEF Accepted, Exit, Shape
  <2>2. OnCourse
    BY <1>3, <2>1 DEF OnCourse
  <2>3. DoneTools = Tools(work.args)
    <3>1. Tools(work.args) \subseteq Tool
      BY PlannedAreTools DEF Shape
    <3>2. \A t \in Tool : Rank(t) < Rank(work.pc)
      BY <1>3, RankTells
    <3> QED
      BY <3>1, <3>2 DEF DoneTools
  <2> QED
    BY <2>2, <2>3 DEF Tested
<1>7. ASSUME ~manifest'.source_dirty, ~moved PROVE Clean
  BY <1>2, <1>7, NotDirtyMeansCommitted DEF Clean
<1>8. {"source_cleanliness", "build_and_unit_tests", "scenarios", "protocol", "requirements",
       "assistant_eval"} \subseteq Tools(work.args)
      /\ (~work.args.quick => "controlled_mutation" \in Tools(work.args))
  BY PlanInOrder DEF Shape
<1>9. ReportsAreFresh'
  <2> SUFFICES ASSUME Accepted',
                      NEW name \in (ToolReport \cap Tools(work.args)) \cup DOMAIN Facts[tree.content].scenarios,
                      ~moved, ~manifest'.source_dirty
               PROVE  FreshReport(name)
    BY <1>2, <1>3, <1>5 DEF ReportsAreFresh, FreshReport, FreshPass, Tools
  <2>1. CASE name \in ToolReport \cap Tools(work.args)
    BY <1>6, <2>1 DEF Established
  <2>2. CASE name \in DOMAIN Facts[tree.content].scenarios
    BY <1>6, <1>7, <1>8, <2>2 DEF Established, Confirmed, Sources
  <2> QED
    BY <2>1, <2>2
<1>10. ASSUME Trustworthy'
       PROVE  Confirmed(Tools(work.args)) /\ tree = head
  BY <1>3, <1>5, <1>6, <1>7, <1>10 DEF Trustworthy, Established, Clean
<1>11. ManifestNamesTested'
  BY <1>2, <1>3, <1>5, <1>8, <1>10 DEF ManifestNamesTested, FliesOwnBuild, Confirmed
<1>12. AcceptedIsVerified'
  <2> SUFFICES ASSUME Trustworthy'
               PROVE  /\ Sources.code.passes
                      /\ work.args.build_dir = "build" => Sources.code.flies
                      /\ ~work.args.quick => Sources.code.guards = 1 /\ Sources.code.kills
                      /\ ProtocolAgrees(Sources.protocol)
                      /\ EvaluationPasses(Sources.cases, Sources.policy, Sources.files)
                      /\ tree.baseline = BuildTraceabilityPayload(Sources)
    BY <1>2, <1>5 DEF AcceptedIsVerified, FliesOwnBuild, Sources
  <2> QED
    BY <1>8, <1>10 DEF Confirmed
<1> QED
  BY <1>2, <1>9, <1>11, <1>12 DEF Conclusions, Shape

(* Nobody takes an accepted run back, and nothing else becomes one.                          *)
LEMMA ConclusionsInductive ==
  /\ Init => Conclusions
  /\ Shape /\ Evidence /\ Tested /\ Conclusions /\ [Next]_vars => Conclusions'
<1>1. ASSUME Init PROVE Conclusions
  <2>1. manifest.inputs = tree /\ work.exit = "none"
    BY <1>1 DEF Init
  <2>2. tree \in TreeState
    BY <1>1, ShapeInductive DEF Shape
  <2> QED
    BY <2>1, <2>2 DEF Conclusions, ReportsAreFresh, ManifestNamesTested, AcceptedIsVerified,
                      Trustworthy, Accepted
<1>2. ASSUME Shape, Evidence, Tested, Conclusions, [Next]_vars PROVE Conclusions'
  <2>1. ASSUME ~Accepted', UNCHANGED manifest PROVE Conclusions'
    BY <1>2, <2>1 DEF Conclusions, ReportsAreFresh, ManifestNamesTested, AcceptedIsVerified, Trustworthy
  <2>2. ASSUME NEW args \in Arguments, Start(args) PROVE ~Accepted' /\ UNCHANGED manifest
    <3>1. work'.exit = "none" /\ UNCHANGED manifest
      BY <2>2 DEF Start
    <3> QED
      BY <3>1 DEF Accepted
  <2>3. CASE UNCHANGED vars
    BY <1>2, <2>3 DEF vars, repositoryVars, Conclusions, ReportsAreFresh, ManifestNamesTested,
                      AcceptedIsVerified, Trustworthy, FliesOwnBuild, Accepted
  <2>4. ASSUME ToolStep PROVE ~Accepted' /\ UNCHANGED manifest
    <3>1. work.pc \in Tools(work.args) /\ work.args \in Arguments /\ UNCHANGED manifest
      BY <1>2, <2>4, ToolStepEffect DEF Shape
    <3>2. PICK ok \in BOOLEAN : Conclude(ok)
      BY <1>2, <2>4, ToolStepEffect
    <3>3. work'.pc \in {Following(work.pc), "write_summary"}
      BY <1>2, <3>1, <3>2, ConcludeEffect
    <3>4. Following(work.pc) \in Tools(work.args) \cup {"write_summary"}
      BY <3>1, FollowingIsNext
    <3>5. "idle" \notin Tools(work.args)
      BY <3>1, PlannedAreTools
    <3> QED
      BY <3>1, <3>3, <3>4, <3>5 DEF Accepted
  <2>5. CASE GenerateManifest
    BY <1>2, <2>5, ManifestConcludes
  <2>6. ASSUME EndStep, ~GenerateManifest PROVE ~Accepted' /\ UNCHANGED manifest
    <3>1. CASE WriteSummary \/ ManifestFails \/ Interrupt \/ UnexpectedError
      <4>1. work'.pc # "idle" /\ UNCHANGED manifest
        BY <1>2, <3>1 DEF Shape, WriteSummary, ManifestFails, Interrupt, UnexpectedError
      <4> QED
        BY <4>1 DEF Accepted
    <3>2. CASE RewriteSummary
      <4>1. work.status = "failed" /\ work'.exit = Exit(work) /\ UNCHANGED manifest
        BY <1>2, <3>2 DEF RewriteSummary, Evidence, Shape
      <4> QED
        BY <4>1 DEF Accepted, Exit
    <3>3. CASE Kill
      <4>1. work'.exit = "killed" /\ UNCHANGED manifest
        BY <1>2, <3>3 DEF Kill, Shape
      <4> QED
        BY <4>1 DEF Accepted
    <3> QED
      BY <2>6, <3>1, <3>2, <3>3 DEF EndStep
  <2>7. CASE Developer
    <3>1. /\ UNCHANGED <<binary, manifest, work, saw>>
          /\ ~Running => (moved' <=> moved)
          /\ \A name \in ReportName :
               reports'[name] = reports[name] \/ (name \in Alone /\ reports'[name].run = 0)
      BY <1>2, <2>7, DeveloperDisturbs
    <3> SUFFICES ASSUME Accepted PROVE Conclusions'
      BY <2>1, <3>1 DEF Accepted
    <3>2. moved' <=> moved
      BY <3>1 DEF Accepted, Running
    <3>3. Accepted' /\ (Trustworthy' <=> Trustworthy)
      BY <3>1, <3>2 DEF Accepted, Trustworthy
    <3>4. ManifestNamesTested' /\ AcceptedIsVerified'
      BY <1>2, <3>1, <3>3 DEF Conclusions, ManifestNamesTested, AcceptedIsVerified, FliesOwnBuild
    <3>5. ToolReport \cup DOMAIN Facts[manifest.inputs.content].scenarios \subseteq ReportName
      BY <1>2, WorkflowAssumption DEF Conclusions, TreeState
    <3>6. ReportsAreFresh'
      BY <1>2, <3>1, <3>2, <3>3, <3>5 DEF Conclusions, ReportsAreFresh
    <3> QED
      BY <1>2, <3>1, <3>4, <3>6 DEF Conclusions
  <2> QED
    BY <1>2, <2>1, <2>2, <2>3, <2>4, <2>5, <2>6, <2>7, NextCases DEF EndStep
<1> QED
  BY <1>1, <1>2

(* The inductive invariant of the workflow.                                                *)
WorkflowInv == Shape /\ Reviews /\ Evidence /\ Tested /\ Conclusions

LEMMA WorkflowInvariant == Spec => []WorkflowInv
<1>1. Init => WorkflowInv
  BY ShapeInductive, EvidenceInductive, TestedInductive, ConclusionsInductive DEF WorkflowInv
<1>2. WorkflowInv /\ [Next]_vars => WorkflowInv'
  BY ShapeInductive, EvidenceInductive, TestedInductive, ConclusionsInductive DEF WorkflowInv
<1> QED
  BY <1>1, <1>2, PTL DEF Spec

(* Whatever an accepted run of run_astra_os_assurance.py was not told to skip has left a    *)
(* report of this run that passes; a report left over from an earlier run is never taken    *)
(* for one, unless somebody started that very tool alone, changed the sources meanwhile     *)
(* or the manifest itself says that they were dirty.                                       *)
THEOREM NoStaleReport == Spec => []ReportsAreFresh
<1>1. WorkflowInv => ReportsAreFresh
  BY DEF WorkflowInv, Conclusions
<1> QED
  BY <1>1, WorkflowInvariant, PTL

(* The manifest of generate_baseline_manifest.py is written at the end of a run; if it calls *)
(* the sources clean, and nobody committed or took back a change meanwhile, all stages have  *)
(* looked at the sources that it names, unless the campaigns used another build directory,  *)
(* and these are committed in any case.                                                     *)
THEOREM ManifestOfTheTested == Spec => []ManifestNamesTested
<1>1. WorkflowInv => ManifestNamesTested
  BY DEF WorkflowInv, Conclusions
<1> QED
  BY <1>1, WorkflowInvariant, PTL

(* What an accepted run is taken to say is true of the sources that its manifest names: the  *)
(* unit tests and the scenarios pass, the protocol tables agree, the requirements are the    *)
(* reviewed ones, and so on, through every level of exit codes.                             *)
THEOREM AcceptanceIsEarned == Spec => []AcceptedIsVerified
<1>1. WorkflowInv => AcceptedIsVerified
  BY DEF WorkflowInv, Conclusions
<1> QED
  BY <1>1, WorkflowInvariant, PTL

=============================================================================
