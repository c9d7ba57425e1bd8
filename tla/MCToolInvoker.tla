---------------------------- MODULE MCToolInvoker ----------------------------
(***************************************************************************)
(* Small instances of ToolInvoker for TLC.                                 *)
(***************************************************************************)
EXTENDS ToolInvoker

Config(async, static, dynamic, specific, files, throws) ==
  [async |-> async, static |-> static, dynamic |-> dynamic,
   specific |-> specific, files |-> files, throws |-> throws]

\* --invoke with a repeated and an unknown name, with one tool, with none.
repeated == <<"cppcheck", "ctrace_stack_analyzer", "nosuch", "cppcheck", "ikos">>
single == <<"ikos">>
none == <<>>

batchThrows == {"ctrace_stack_analyzer"}
taskThrows == {"ikos", "tscancode"}

\* Both policies, every list, no file, one file and two files; tools that
\* throw on the calling thread and in a task of the pool.
AllConfigs ==
  { Config(TRUE, TRUE, FALSE, none, <<"a", "b">>, batchThrows),
    Config(TRUE, FALSE, TRUE, repeated, <<"a", "b">>, batchThrows),
    Config(TRUE, TRUE, FALSE, single, <<"a">>, batchThrows),
    Config(TRUE, TRUE, TRUE, repeated, <<>>, {}),
    Config(FALSE, TRUE, FALSE, repeated, <<"a", "b">>, batchThrows),
    Config(TRUE, TRUE, FALSE, none, <<"a", "b">>, taskThrows) }
==============================================================================
