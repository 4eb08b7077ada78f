------------------------- MODULE MCAssuranceWorkflow -------------------------
(***************************************************************************)
(* The workflow over sources that are in order, and over sources in which  *)
(* one thing is wrong or different.                                        *)
(***************************************************************************)
EXTENDS AssuranceWorkflow, TLC

Row(id, text, status, evidence) == [id |-> id, text |-> text, status |-> status, evidence |-> evidence]

Entry(id, status, cases) == [id |-> id, status |-> status, cases |-> cases]

(* A requirement with scenarios, one with the summary as its evidence, and two that  *)
(* the checker passes over.                                                         *)
Requirements ==
  {Row("R1", "text", "Verified", {}), Row("R2", "text", "Verified", {"summary"}),
   Row("R3", "text", "Planned", {}), Row("R4", "text", "Historical", {})}

Matrix ==
  {Entry("R1", "Verified", {"unit_tests"}), Entry("R2", "Verified", {"assurance"}),
   Entry("R3", "Planned", {}), Entry("R4", "Historical", {"unit_tests"})}

Cases ==
  GenerateCases({<<"docs", "guide">>, <<"tools", "..", "docs", "guide">>,
                 <<"/", "home", "repository", "docs", "guide">>}, {<<"check">>}, {"write"},
                {<<"docs", "guide">>},
                {<<"docs", "..", "secret">>, <<"docs", "..", "..", "guide">>, <<"docs", "nothing">>,
                 <<"/", "etc", "shadow">>, <<"/", "home", "repository", "docs", "..", "secret">>},
                {<<"shell">>, <<"draft">>})

InOrder ==
  [requirements |-> Requirements, matrix |-> Matrix, tests |-> {"unit_tests"},
   scenarios  |-> ("hil_smoke_test" :> {"R1"} @@ "sensor_timeout" :> {"R1"}),
   controlled |-> {"command_packet.hpp"},
   interfaces |-> ("command_packet.hpp" :> 1 @@ "send_command.py" :> 1),
   code     |-> [passes |-> TRUE, flies |-> TRUE, guards |-> 1, kills |-> TRUE],
   protocol |-> [manifest |-> "tables", cpp |-> "tables", sender |-> "tables", receiver |-> "tables"],
   policy   |-> [approved_read_roots |-> {<<"docs">>}, allowlisted_tools |-> (<<"check">> :> TRUE @@ <<"draft">> :> FALSE),
                 explicitly_denied_actions |-> {"write"}],
   files    |-> {RepositoryPath \o <<"docs", "guide">>, RepositoryPath \o <<"secret">>, <<"etc", "shadow">>},
   cases    |-> Cases]

WithRequirements(rows) == [InOrder EXCEPT !.requirements = rows]

MCFacts ==
  [in_order   |-> InOrder,
   reworded   |-> WithRequirements({IF r.id = "R1" THEN [r EXCEPT !.text = "other"] ELSE r : r \in Requirements}),
   withdrawn  |-> [InOrder EXCEPT !.requirements = {r \in @ : r.id # "R3"}, !.matrix = {e \in @ : e.id # "R3"}],
   promoted   |-> WithRequirements({IF r.id = "R3" THEN [r EXCEPT !.status = "Verified"] ELSE r : r \in Requirements}),
   doubled    |-> WithRequirements(Requirements \cup {Row("R1", "other", "Verified", {})}),
   reshaped   |-> [InOrder EXCEPT !.interfaces = [@ EXCEPT !["command_packet.hpp"] = 2]],
   extended   |-> [InOrder EXCEPT !.controlled = @ \cup {"send_command.py"}],
   unallotted |-> [InOrder EXCEPT !.tests = @ \cup {"new_tests"}],
   unlinked   |-> [InOrder EXCEPT !.scenarios = ("sensor_timeout" :> {"R9"})],
   idle       |-> [InOrder EXCEPT !.scenarios = <<>>],
   broken     |-> [InOrder EXCEPT !.code.passes = FALSE],
   grounded   |-> [InOrder EXCEPT !.code.flies = FALSE],
   unguarded  |-> [InOrder EXCEPT !.code.guards = 0],
   untested   |-> [InOrder EXCEPT !.code.kills = FALSE],
   divided    |-> [InOrder EXCEPT !.protocol.sender = "others"],
   untabled   |-> [InOrder EXCEPT !.protocol.cpp = "absent"],
   permissive |-> [InOrder EXCEPT !.policy.allowlisted_tools = @ @@ (<<"shell">> :> TRUE)],
   fewer      |-> [InOrder EXCEPT !.cases = {}]]

(* Everything; as little as possible; and a short run in another directory. *)
MCArguments ==
  {[quick |-> FALSE, skip_monte_carlo |-> FALSE, skip_pi_package |-> FALSE, build_dir |-> "build"],
   [quick |-> TRUE, skip_monte_carlo |-> TRUE, skip_pi_package |-> TRUE, build_dir |-> "build"],
   [quick |-> TRUE, skip_monte_carlo |-> FALSE, skip_pi_package |-> FALSE, build_dir |-> "build-pi"]}

MCContent == DOMAIN MCFacts

(* Something is broken or put in order again. *)
MCEdits == {pair \in MCContent \X MCContent : "in_order" \in {pair[1], pair[2]}}
=============================================================================
