---------------------------- MODULE MCYtsExamples ----------------------------
(***************************************************************************)
(* The programs of examples/ and tests/: one of YtsPrograms, or a file     *)
(* each way between applications of YtsFileTransfer, examples/             *)
(* file-transfer.c or any other, or a message of YtsMetadataUse, that of   *)
(* tests/message.c or any other, compared with messages of two levels,     *)
(* where a name is used at one level only.                                 *)
(***************************************************************************)
EXTENDS YtsFileTransfer, YtsPrograms, YtsMetadataUse

Siblings(S) == {<<x>> : x \in S} \cup (S \X S)
Tables(K) == UNION {[k -> {"v1", "v2"}] : k \in SUBSET K}
Element(name, tables, contents, children) ==
  {[name |-> name, attrs |-> t, content |-> x, children |-> k] :
     t \in tables, x \in contents, k \in children}
Leaves == Element("leaf", Tables({"a1"}), {NoText, "t"}, {Empty})
Bare == {n \in Leaves : n.content = NoText}
Others == Element("other", Tables({"a1"}), {NoText}, {Empty})
Branches == Element("branch", Tables({"a1"}), {NoText}, {[leaf |-> l] : l \in Siblings(Bare)})
SomeElements ==
  Leaves \cup Others \cup Branches
  \cup Element("message", {Empty}, {NoText}, {[branch |-> <<b>>] : b \in Branches})
  \cup Element("message", Tables({"a1", "a2"}), {NoText},
               {Empty} \cup {[leaf |-> l] : l \in Siblings(Leaves)}
               \cup {[leaf |-> <<x>>, other |-> <<y>>] : x \in Bare, y \in Others})

SomeLists == {<<>>, <<"a1", "v1", "a2", "v2">>, <<"a1", "v1", "a1", "v2", "a2">>}
SomeChildren == {l \in Bare : l.attrs # Empty}

all_vars == <<vars, program_vars, use_vars>>

ExamplesInit ==
  /\ Init /\ ProgramsInit /\ UseInit
  /\ program # "file_transfer" => example = {}

ExamplesNext ==
  \/ program = "file_transfer" /\ Next /\ UNCHANGED <<program_vars, use_vars>>
  \/ program = "message" /\ UseNext /\ UNCHANGED <<vars, program_vars>>
  \/ ProgramsNext /\ UNCHANGED <<vars, use_vars>>

ExamplesSpec == ExamplesInit /\ [][ExamplesNext]_all_vars
=============================================================================
