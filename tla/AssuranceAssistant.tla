------------------------- MODULE AssuranceAssistant -------------------------
(***************************************************************************)
(* The permissions of the assurance assistant                              *)
(* (tools/assurance_assistant.py) and their frozen evaluation              *)
(* (tools/generate_assurance_assistant_eval.py and                         *)
(* tools/run_assurance_assistant_eval.py).  A path is the sequence of its   *)
(* parts, relative to the repository, which has the path RepositoryPath,    *)
(* or absolute if its first part is "/"; a tool or the target of a denied   *)
(* action is a sequence of one part.                                        *)
(***************************************************************************)
EXTENDS Naturals, FiniteSets, SequencesExt

CONSTANTS
  MinimumCases      \* 100 in the code

ASSUME AssistantAssumption == MinimumCases \in Nat

RepositoryPath == <<"home", "repository">>

(* Path.resolve: "/" begins at the root of the file system, and ".." leaves the     *)
(* directory before it.                                                             *)
Resolve(target) ==
  FoldLeft(LAMBDA path, part : CASE part = "/"                   -> <<>>
                                 [] part = ".." /\ path = <<>>   -> <<>>
                                 [] part = ".." /\ path # <<>>   -> Front(path)
                                 [] OTHER                        -> Append(path, part),
           RepositoryPath, target)

(* A file or directory of the repository below one of the approved roots. *)
ApprovedReadPath(target, policy) ==
  /\ IsPrefix(RepositoryPath, Resolve(target))
  /\ \E root \in policy.approved_read_roots : IsPrefix(Resolve(root), Resolve(target))

(* decide_request: whether the request is allowed.  Files holds the resolved paths;  *)
(* allowlisted_tools says of a tool whether its definition is a command.             *)
DecideRequest(request, policy, files) ==
  /\ request.action \notin policy.explicitly_denied_actions
  /\ \/ /\ request.action = "read"
        /\ request.target # <<>>
        /\ ApprovedReadPath(request.target, policy)
        /\ Resolve(request.target) \in files
     \/ /\ request.action = "run"
        /\ request.target \in DOMAIN policy.allowlisted_tools
        /\ policy.allowlisted_tools[request.target]

-----------------------------------------------------------------------------
(* generate_cases: the frozen cases follow from six tables. *)
GenerateCases(allowed_reads, allowed_tools, denied_actions, denied_targets, denied_reads, denied_tools) ==
  LET Case(action, target, expected) ==
        [request |-> [action |-> action, target |-> target], expected_allowed |-> expected]
  IN  {Case("read", target, TRUE) : target \in allowed_reads}
      \cup {Case("run", target, TRUE) : target \in allowed_tools}
      \cup {Case(action, target, FALSE) : action \in denied_actions, target \in denied_targets}
      \cup {Case("read", target, FALSE) : target \in denied_reads}
      \cup {Case("run", target, FALSE) : target \in denied_tools}

(* An evaluation set that is too small is refused before anything is reported. *)
EvaluationLoads(cases) == Cardinality(cases) >= MinimumCases

EvaluationPasses(cases, policy, files) ==
  \A case \in cases : DecideRequest(case.request, policy, files) = case.expected_allowed
=============================================================================
