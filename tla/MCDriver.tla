------------------------------ MODULE MCDriver ------------------------------
(***************************************************************************)
(* The commands with which the compiler is run.                            *)
(***************************************************************************)
EXTENDS Driver

\* One compiler with any options, on a source of any name.
OneCompiler ==
    [procs |-> {"p"}, directories |-> {"cwd", "sub"}, extensions |-> {"chsmc", "chsmj", "txt"},
     options |-> {"c", "d", "D", "E", "h", "j", "P", "v", "x"}, temps |-> {"t"},
     opensFail |-> TRUE, diskFills |-> FALSE, buf |-> 2, maxOptions |-> 4, code |-> 5, tail |-> 2]

\* Two compilers at once, without options.
TwoCompilers ==
    [procs |-> {"p", "q"}, directories |-> {"cwd"}, extensions |-> {"chsmc", "chsmj"},
     options |-> {}, temps |-> {"t", "u"}, opensFail |-> FALSE, diskFills |-> TRUE, buf |-> 1,
     maxOptions |-> 0, code |-> 1, tail |-> 0]

MCCommands == {OneCompiler, TwoCompilers}
=============================================================================
