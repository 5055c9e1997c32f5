----------------------------- MODULE MCChooser -----------------------------
(* Two viewers; a queue nobody is on, one that needs the second viewer, and *)
(* one for their family, of whom one is enough.                             *)
EXTENDS Chooser

MCPeople == {"ada", "grace"}
MCQueues == {"films", "shows", "news"}
Person(p, role) == [role |-> role, people |-> {p}, requiredPeople |-> {p}, minPresent |-> 1]
Family == [role |-> "required", people |-> MCPeople, requiredPeople |-> MCPeople, minPresent |-> 1]
MCMembers ==
  [films |-> {}, shows |-> {Person("ada", "optional"), Person("grace", "required")},
   news |-> {Family}]
MCScans == {"one", "two"}
MCCard == [one |-> "ada", two |-> "grace"]
=============================================================================
