----------------------------- MODULE MCDelivery -----------------------------
(* A small instance of the delivery for TLC.                               *)
EXTENDS CodeDelivery

On(tool, path, text) == [tool |-> tool, path |-> path, text |-> text]
Command(kind) == On("run_command", kind, kind)

MCCalls ==
  [baseline |->
     {On("edit_file", "program", "right"), On("write_file", "test", "right"),
      On("write_file", "test", "unparsed"), Command("tests"), Command("other")},
   artifact |->
     {On("write_file", "program", "right"), On("edit_file", "program", "right"),
      On("edit_file", "program", "wrong"), On("write_file", "page", "right"),
      On("run_command", "tests", "unnamed"), Command("tests"), Command("install")},
   inspection |->
     {On("read_file", "program", "none"), On("read_file", "outside", "none"),
      On("list_files", "root", "none"),
      On("inspect_python_environment", "package", "none"),
      On("write_file", "page", "unparsed"), On("write_file", "page", "right")},
   environment |->
     {On("inspect_python_environment", "package", "none"),
      On("write_file", "page", "unfit"), On("write_file", "page", "right"),
      Command("tests"), Command("install")}]

MCUserChanges == {<<"program", "absent">>}

\* An empty directory, and one with a program that is not right and its test.
MCWorkspaces ==
  {[p \in Paths |-> "absent"],
   [p \in Paths |-> CASE p = "program" -> "wrong" [] p = "test" -> "right" [] OTHER -> "absent"]}

=============================================================================
