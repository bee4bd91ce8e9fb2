------------------------------- MODULE Driver -------------------------------
(***************************************************************************)
(* The compiler as a command: options.cpp, main.cpp, file.cpp, the rules   *)
(* of lexer.lpp that divert text and the emission of the two files.        *)
(* Several compilers may run at once (make -j) over one file system.  A    *)
(* file is a sequence of sections; what the description says is left to    *)
(* the module Parser, here it only has code, errors or the end.            *)
(***************************************************************************)
EXTENDS Integers, SequencesExt

CONSTANTS
    Compilers,       \* the processes that may run the compiler
    Commands         \* kinds of commands: records with the fields
                     \*   procs        the compilers that run,
                     \*   directories  where a source may be ("cwd": the current directory),
                     \*   extensions   of a source,
                     \*   options      option letters that are given,
                     \*   temps        what mktemp() may choose from,
                     \*   opensFail    whether a file may fail to open,
                     \*   diskFills    whether the disk may become full,
                     \*   buf          sizeof buf in copy_to(), in units of user code,
                     \* and the bounds
                     \*   maxOptions, code, tail     on one run of the compiler

\* The options that are modelled.
Letters == {"c", "d", "D", "E", "h", "j", "P", "v", "x"}

\* The extensions of the files that are generated by default.
Generated == {"h", "cpp", "java"}

\* A source has no name of a file that is generated, and no option names it: nothing in the
\* compiler would stop it from opening its source for output.
ASSUME CommandsAssumption ==
    \A k \in Commands :
        /\ k.procs \subseteq Compilers
        /\ k.directories \cap {"stdout", "tmp"} = {}
        /\ k.extensions \cap (Generated \cup Letters) = {}
        /\ k.options \subseteq Letters
        /\ k.buf \in Nat \ {0}

VARIABLES
    command,         \* the kind of command, and whether the disk is full
    fs,              \* the files that exist and what is in them
    run              \* for each compiler, its variables

vars == <<command, fs, run>>

full == command.full

NoPath == <<>>
NoLanguage == "none"
Running == -1
EX_OK == 0
EX_USAGE == 64
EX_DATAERR == 65
EX_NOINPUT == 66

\* A unit of user code is <<p, i>>, anything else in a file a section.
Section(s) == <<s>>

NoExtension == "none"

stdout(p) == <<"stdout", p, NoExtension>>
temp_path(t) == <<"tmp", t, NoExtension>>

\* The file that is given with option o.
optarg(p, o) == <<"cwd", p, o>>

\* A command of kind k on the sources src, of which there exist.
Starts(k, src, there) ==
    LET source(p) == IF p \in k.procs THEN <<src[p][1], p, src[p][2]>> ELSE NoPath
    IN  /\ command = [kind |-> k, full |-> FALSE]
        /\ run = [p \in Compilers |->
               [pc |-> IF p \in k.procs THEN "options" ELSE "exited", source |-> source(p),
                given |-> {}, lang |-> NoLanguage, x |-> NoLanguage,
                dec |-> NoPath, def |-> NoPath, target |-> NoPath, name |-> NoPath, temp |-> NoPath,
                code |-> 0, reading |-> <<>>, tail |-> 0, errors |-> 0, status |-> Running]]
        /\ fs = [q \in {source(p) : p \in there} \cup {stdout(p) : p \in k.procs} |->
                    IF q[1] = "stdout" THEN <<>> ELSE <<Section("source")>>]

Init ==
    \E k \in Commands :
        \E src \in [k.procs -> k.directories \X k.extensions], there \in SUBSET k.procs :
            Starts(k, src, there)

Create(q) == [x \in DOMAIN fs \cup {q} |-> IF x = q THEN <<>> ELSE fs[x]]

Unlink(q) == Restrict(fs, DOMAIN fs \ {q})

\* A write to a file that is no longer there, or to a full disk, is lost.
Write(q, s) == IF q \in DOMAIN fs /\ ~full THEN [fs EXCEPT ![q] = @ \o s] ELSE fs

\* A write at the position a stream has reached, whoever else writes to the file.
WriteAt(q, i, u) ==
    IF q \in DOMAIN fs /\ ~full
    THEN [fs EXCEPT ![q] = [k \in 1 .. (IF i > Len(@) THEN i ELSE Len(@)) |->
                               IF k = i THEN u ELSE IF k <= Len(fs[q]) THEN fs[q][k] ELSE Section("hole")]]
    ELSE fs

At(p, pc) == run[p].pc = pc

Go(p, pc) == run' = [run EXCEPT ![p].pc = pc]

\* exit() and the return of main(): cc's members are destroyed.
Ended(p, s) == run' = [run EXCEPT ![p].pc = "exited", ![p].status = s, ![p].temp = NoPath]

ExitKeeping(p, s) == Ended(p, s) /\ fs' = IF s = EX_DATAERR THEN fs ELSE Unlink(run[p].temp)

Exit(p, s) == Ended(p, s) /\ fs' = Unlink(run[p].temp)

-----------------------------------------------------------------------------
(* parse_options() *)

Language(r, o, x) ==
    CASE o \in {"h", "c"} -> "cpp"
      [] o = "j" -> "java"
      [] o = "x" -> x
      [] OTHER -> r.lang

GiveOption(p) ==
    /\ At(p, "options")
    /\ \E o \in command.kind.options, x \in {"cpp", "java"} :
           /\ Cardinality(run[p].given \cup {o}) <= command.kind.maxOptions
           /\ run' = [run EXCEPT
                  ![p].given = @ \cup {o},
                  ![p].lang = Language(run[p], o, x),
                  ![p].x = IF o = "x" THEN x ELSE @,
                  ![p].dec = IF o \in {"d", "h", "j"} THEN optarg(p, o) ELSE @,
                  ![p].def = IF o \in {"D", "c", "j"} THEN optarg(p, o) ELSE @]
    /\ UNCHANGED <<command, fs>>

\* An option that does not exist, a language that does not, not one source.
Usage(p) == At(p, "options") /\ Exit(p, EX_USAGE) /\ UNCHANGED command

check_mutually_exclusive(given, opts1, opts2) ==
    given \cap opts1 = {} \/ given \cap opts2 = {}

check_required(given, opts, req_opts) ==
    given \cap opts # {} => given \cap req_opts # {}

OptionsAgree(g) ==
    /\ check_mutually_exclusive(g, {"c", "h"}, {"j", "x"})
    /\ check_mutually_exclusive(g, {"E"}, {"c", "d", "D", "h", "j"})
    /\ check_mutually_exclusive(g, {"j"}, {"c", "d", "D", "E", "h", "x"})
    /\ check_mutually_exclusive(g, {"v"}, {"c", "d", "D", "E", "h", "j", "P", "x"})
    /\ check_required(g, {"c", "D"}, {"d", "h"})
    /\ check_required(g, {"d", "h"}, {"c", "D"})

CheckOptions(p) ==
    /\ At(p, "options")
    /\ IF ~OptionsAgree(run[p].given) THEN Exit(p, EX_USAGE)
       ELSE IF "v" \in run[p].given THEN Exit(p, EX_OK)
       ELSE Go(p, "main") /\ UNCHANGED fs
    /\ UNCHANGED command

-----------------------------------------------------------------------------
(* main() *)

codegen_only(r) == "E" \in r.given

map_ext_to_lang(ext) == CASE ext = "chsmc" -> "cpp" [] ext = "chsmj" -> "java" [] OTHER -> NoLanguage

one_ext(lang) == IF lang = "cpp" THEN <<"cpp", "cpp">> ELSE <<"java", "java">>

get_filename_exts(lang) == IF lang = "cpp" THEN <<"h", "cpp">> ELSE <<"java", "java">>

replace_extension(q, ext) == [q EXCEPT ![3] = ext]

\* The language and the files that are not given come from the name of the source.
ChooseFiles(p) ==
    /\ At(p, "main")
    /\ LET r    == run[p]
           lang == IF r.lang = NoLanguage THEN map_ext_to_lang(r.source[3]) ELSE r.lang
           exts == get_filename_exts(lang)
       IN  IF lang = NoLanguage THEN Exit(p, EX_DATAERR)
           ELSE /\ run' = [run EXCEPT
                       ![p].pc = "source",
                       ![p].lang = lang,
                       ![p].dec = IF codegen_only(r) THEN stdout(p)
                                  ELSE IF @ = NoPath THEN replace_extension(r.source, exts[1]) ELSE @,
                       ![p].def = IF codegen_only(r) THEN stdout(p)
                                  ELSE IF @ = NoPath THEN replace_extension(r.source, exts[2]) ELSE @]
                /\ UNCHANGED fs
    /\ UNCHANGED command

OpenSource(p) ==
    /\ At(p, "source")
    /\ IF run[p].source \in DOMAIN fs THEN Go(p, "target") /\ UNCHANGED fs
                                      ELSE Exit(p, EX_NOINPUT)
    /\ UNCHANGED command

\* Opening for output empties the file; stdout is open already.
OpenedAs(p, q, pc) ==
    /\ run' = [run EXCEPT ![p].pc = pc, ![p].target = q]
    /\ fs' = IF q = stdout(p) THEN fs ELSE Create(q)

OpenFails(p) ==
    /\ command.kind.opensFail
    /\ \/ At(p, "target") /\ ~codegen_only(run[p])
       \/ At(p, "switch")
       \/ At(p, "temp")
    /\ Exit(p, EX_NOINPUT)
    /\ UNCHANGED command

OpenTarget(p) == At(p, "target") /\ OpenedAs(p, run[p].dec, "mktemp") /\ UNCHANGED command

\* mktemp() returns a name that no file has; the file is created later.
MakeTempName(p) ==
    /\ At(p, "mktemp")
    /\ \E t \in command.kind.temps :
           /\ temp_path(t) \notin DOMAIN fs
           /\ run' = [run EXCEPT ![p].pc = "temp", ![p].name = temp_path(t)]
    /\ UNCHANGED <<command, fs>>

OpenTemp(p) ==
    /\ At(p, "temp")
    /\ run' = [run EXCEPT ![p].pc = "declarations", ![p].temp = run[p].name]
    /\ fs' = Create(run[p].name)
    /\ UNCHANGED command

-----------------------------------------------------------------------------
(* yyparse() *)

\* Text before the first %% is echoed to the target.
EchoDeclarations(p) ==
    /\ At(p, "declarations")
    /\ fs' = Write(run[p].target, <<Section("declarations")>>)
    /\ Go(p, "description")
    /\ UNCHANGED command

\* Code of conditions, actions and targets is diverted to the temporary file.
EchoUserCode(p) ==
    /\ At(p, "description")
    /\ run[p].code < command.kind.code
    /\ run' = [run EXCEPT ![p].code = @ + 1]
    /\ fs' = WriteAt(run[p].temp, run[p].code + 1, <<p, run[p].code + 1>>)
    /\ UNCHANGED command

\* An error the parser goes on after.
ReportError(p) ==
    /\ At(p, "description")
    /\ run[p].errors = 0
    /\ run' = [run EXCEPT ![p].errors = 1]
    /\ UNCHANGED <<command, fs>>

\* A syntax error no rule recovers from: the parser ends up in "chsm: error".
SyntaxError(p) ==
    /\ At(p, "description") \/ (At(p, "the_end") /\ run[p].tail = 0)
    /\ run' = [run EXCEPT ![p].pc = "return", ![p].errors = @ + 1]
    /\ UNCHANGED <<command, fs>>

\* The action after chsm_description.
EndDescription(p) ==
    /\ At(p, "description")
    /\ IF run[p].errors = 0 THEN Go(p, "emit") /\ UNCHANGED fs
       ELSE /\ Go(p, "the_end")
            /\ fs' = IF codegen_only(run[p]) THEN fs ELSE Unlink(run[p].target)
    /\ UNCHANGED command

\* cpp_declarer::emit() and java_declarer::emit() up to the user's code.
EmitDeclaration(p) ==
    /\ At(p, "emit")
    /\ fs' = Write(run[p].target, <<Section("machine")>>)
    /\ Go(p, IF run[p].lang = "java" THEN "reopen"
             ELSE IF codegen_only(run[p]) THEN "definition" ELSE "switch")
    /\ UNCHANGED command

SwitchTarget(p) == At(p, "switch") /\ OpenedAs(p, run[p].def, "definition") /\ UNCHANGED command

EmitDefinition(p) ==
    /\ At(p, "definition")
    /\ fs' = Write(run[p].target, <<Section("definition")>>)
    /\ Go(p, "reopen")
    /\ UNCHANGED command

\* copy_to(): the temporary file as it is when it is opened again.
ReopenTemp(p) ==
    /\ At(p, "reopen")
    /\ IF run[p].temp \in DOMAIN fs
       THEN /\ run' = [run EXCEPT ![p].pc = "copy", ![p].reading = fs[run[p].temp]]
            /\ UNCHANGED fs
       ELSE Exit(p, EX_NOINPUT)
    /\ UNCHANGED command

once(count) == FALSE

at_most(count) == count <= command.kind.buf

\* The loop goes on while a whole buffer was read.
More(count) == count = command.kind.buf

CopyBlock(p) ==
    /\ At(p, "copy")
    /\ LET in    == run[p].reading
           buf   == command.kind.buf
           count == IF Len(in) < buf THEN Len(in) ELSE buf
       IN  /\ fs' = Write(run[p].target, SubSeq(in, 1, count))
           /\ run' = [run EXCEPT ![p].reading = SubSeq(in, count + 1, Len(in)),
                                 ![p].pc = IF More(count) THEN "copy" ELSE "end"]
    /\ UNCHANGED command

\* The end of the generated code.
EmitTheEnd(p) ==
    /\ At(p, "end")
    /\ fs' = Write(run[p].target, <<Section("end")>>)
    /\ Go(p, "the_end")
    /\ UNCHANGED command

\* A line after the second %%: ".+" is echoed to the target, no rule is for "\n" and the
\* scanner's default one writes it to stdout.
EchoDone(p) ==
    /\ At(p, "the_end")
    /\ run[p].tail < command.kind.tail
    /\ LET text == Write(run[p].target, <<Section("text")>>)
       IN  fs' = [text EXCEPT ![stdout(p)] = Append(@, Section("newline"))]
    /\ run' = [run EXCEPT ![p].tail = @ + 1]
    /\ UNCHANGED command

EndOfSource(p) == At(p, "the_end") /\ Go(p, "return") /\ UNCHANGED <<command, fs>>

ReturnFromMain(p) ==
    /\ At(p, "return")
    /\ Exit(p, IF run[p].errors = 0 THEN EX_OK ELSE EX_DATAERR)
    /\ UNCHANGED command

DiskFull ==
    /\ command.kind.diskFills /\ ~full
    /\ command' = [command EXCEPT !.full = TRUE]
    /\ UNCHANGED <<fs, run>>

-----------------------------------------------------------------------------
Step(p) ==
    \/ CheckOptions(p) \/ ChooseFiles(p) \/ OpenSource(p) \/ OpenTarget(p) \/ OpenFails(p)
    \/ MakeTempName(p) \/ OpenTemp(p) \/ EchoDeclarations(p) \/ EndDescription(p)
    \/ EmitDeclaration(p) \/ SwitchTarget(p) \/ EmitDefinition(p) \/ ReopenTemp(p)
    \/ CopyBlock(p) \/ EmitTheEnd(p) \/ EndOfSource(p) \/ ReturnFromMain(p)

Input(p) ==
    \/ GiveOption(p) \/ Usage(p) \/ EchoUserCode(p) \/ ReportError(p) \/ SyntaxError(p)
    \/ EchoDone(p)

Exited == (\A p \in Compilers : At(p, "exited")) /\ UNCHANGED vars

Next == (\E p \in Compilers : Step(p) \/ Input(p)) \/ DiskFull \/ Exited

Spec == Init /\ [][Next]_vars

\* The operating system runs every compiler.
FairSpec == Spec /\ \A p \in Compilers : WF_vars(Step(p))

-----------------------------------------------------------------------------
Compiled(r) == r.status = EX_OK /\ "v" \notin r.given

\* The first n units of user code in the description of p.
UnitsOf(p, n) == [i \in 1 .. n |-> <<p, i>>]

UserCode(p) == UnitsOf(p, run[p].code)

\* The lines after the second %%: their ends go to stdout.
TailText(r) ==
    IF codegen_only(r)
    THEN [i \in 1 .. 2 * r.tail |->
              IF \E n \in 1 .. r.tail : i = 2 * n THEN Section("newline") ELSE Section("text")]
    ELSE [i \in 1 .. r.tail |-> Section("text")]

\* Whether declarations and definitions go to different files.
TwoFiles(r) == r.lang # "java" /\ ~codegen_only(r)

LastFile(r) == IF r.lang = "java" THEN r.dec ELSE r.def

Declared == <<Section("declarations"), Section("machine")>>

\* What the last file has before the user's code.
Before(r) ==
    CASE TwoFiles(r) -> <<Section("definition")>>
      [] r.lang = "java" -> Declared
      [] OTHER -> Declared \o <<Section("definition")>>

\* mktemp() gave no other compiler the name.
Alone(p) == \A q \in Compilers \ {p} : run[q].name # run[p].name

\* The language is the one every option implies, in whatever order they are given: -c and -h
\* imply C++, -j Java, -x says which.
LanguageAsGiven ==
    \A p \in Compilers : LET r == run[p] IN
        r.target # NoPath =>
            /\ r.given \cap {"c", "h"} # {} => r.lang = "cpp"
            /\ "j" \in r.given => r.lang = "java"
            /\ "x" \in r.given => r.lang = r.x

\* A compiler that reports success has written its files, in the language asked for:
\* the user's declarations and the machine's to the one, the definitions with the whole of
\* the user's code and the text after the second %% to the other, or all of it to the one
\* there is; whatever the options and however the code falls into the blocks it is copied
\* in.  The exceptions are a full disk, which no write is checked for, and a temporary name
\* that mktemp() gave twice.
OutputComplete ==
    /\ LanguageAsGiven
    /\ \A p \in Compilers : LET r == run[p] IN
        Compiled(r) /\ ~full /\ Alone(p) =>
            /\ fs[LastFile(r)] = Before(r) \o UserCode(p) \o <<Section("end")>> \o TailText(r)
            /\ TwoFiles(r) => fs[r.dec] = Declared

\* No default name of a generated file is the source's own, which opening would empty.
SourcePreserved ==
    \A p \in Compilers : run[p].source \in DOMAIN fs => fs[run[p].source] = <<Section("source")>>

\* However the compiler ends, its temporary file is gone.
TempRemoved ==
    (\A p \in Compilers : At(p, "exited")) => \A t \in command.kind.temps : temp_path(t) \notin DOMAIN fs

\* No compiler, however it ends, leaves a file it should not or spoils its source.
FilesTidy == TempRemoved /\ SourcePreserved

\* Every run of the compiler ends.
Terminates == \A p \in Compilers : <>At(p, "exited")

-----------------------------------------------------------------------------
(* The invariant from which FilesTidy and LanguageAsGiven follow. *)

Places ==
    {"options", "main", "source", "target", "mktemp", "temp", "declarations", "description",
     "emit", "switch", "definition", "reopen", "copy", "end", "the_end", "return", "exited"}

\* The paths of the three kinds of files: no compiler opens another's, but for the
\* temporary ones.
SourcesOf(p) == {<<d, p, e>> : d \in command.kind.directories, e \in command.kind.extensions}

OutputsOf(p) ==
    {stdout(p)} \cup {optarg(p, o) : o \in Letters}
        \cup {<<d, p, e>> : d \in command.kind.directories, e \in Generated}

Temps == {temp_path(t) : t \in command.kind.temps}

SectionNames ==
    {"source", "declarations", "machine", "definition", "end", "text", "newline", "hole"}

Units == {Section(s) : s \in SectionNames} \cup (Compilers \X Nat)

CompilerType(p) ==
    LET output == OutputsOf(p) \cup {NoPath}
        temp   == Temps \cup {NoPath}
    IN  [pc : Places, source : SourcesOf(p) \cup {NoPath}, given : SUBSET Letters,
         lang : {NoLanguage, "cpp", "java"}, x : {NoLanguage, "cpp", "java"},
         dec : output, def : output, target : output, name : temp, temp : temp,
         code : Nat, reading : Seq(Units), tail : Nat, errors : Nat, status : Int]

TypeOK ==
    /\ command.kind \in Commands /\ command.full \in BOOLEAN
    /\ command = [kind |-> command.kind, full |-> command.full]
    /\ fs \in [DOMAIN fs -> Seq(Units)]
    /\ DOMAIN run = Compilers /\ \A p \in Compilers : run[p] \in CompilerType(p)

\* A compiler has the paths it needs where it uses them.
PathsKnown(r) ==
    /\ r.pc # "exited" => r.source # NoPath
    /\ r.pc \notin {"options", "main", "exited"} => r.dec # NoPath /\ r.def # NoPath
    /\ r.pc = "temp" => r.name # NoPath
    /\ r.pc = "options" => r.target = NoPath
    /\ r.pc \in {"options", "main", "source", "target", "mktemp", "temp", "exited"} => r.temp = NoPath

\* The language while options are read, and once they have been checked.
LanguageKnown(r) ==
    LET cpp == r.given \cap {"c", "h"} # {}
        java == "j" \in r.given
        x == "x" \in r.given
    IN  /\ cpp /\ ~java /\ ~x => r.lang = "cpp"
        /\ java /\ ~cpp /\ ~x => r.lang = "java"
        /\ x /\ ~cpp /\ ~java => r.lang = r.x
        /\ x => r.x # NoLanguage
        /\ r.target # NoPath \/ r.pc \notin {"options", "exited"} => OptionsAgree(r.given)

\* Every temporary file is somebody's.
TempsOwned == \A q \in Temps \cap DOMAIN fs : \E p \in Compilers : run[p].temp = q

DriverInv ==
    /\ TypeOK
    /\ \A p \in Compilers : PathsKnown(run[p]) /\ LanguageKnown(run[p])
    /\ NoPath \notin DOMAIN fs
    /\ TempsOwned
    /\ SourcePreserved

-----------------------------------------------------------------------------
(* The invariant from which OutputComplete follows: how far the output of a compiler is. *)

\* A compiler that has succeeded is where it was when it returned from main().
Stage(r) == IF r.pc = "exited" /\ Compiled(r) THEN "return" ELSE r.pc

BeforeFiles == {"options", "main"}
BeforeTarget == BeforeFiles \cup {"source", "target"}
BeforeTemp == BeforeTarget \cup {"mktemp", "temp"}
InDescription == {"declarations", "description", "emit", "switch"}
InDefinition == {"definition", "reopen", "copy", "end", "the_end", "return"}

\* The files a compiler has chosen, and which one it is writing to.
FilesChosen(p, r) ==
    LET st == Stage(r) IN
    /\ st \in BeforeFiles => r.dec # stdout(p) /\ r.def # stdout(p)
    /\ st \in BeforeFiles /\ "j" \notin r.given =>
          /\ r.dec \in {NoPath, optarg(p, "d"), optarg(p, "h")}
          /\ r.def \in {NoPath, optarg(p, "D"), optarg(p, "c")}
    /\ st \notin BeforeFiles \cup {"exited"} =>
          /\ r.lang # NoLanguage
          /\ codegen_only(r) => r.dec = stdout(p) /\ r.def = stdout(p)
          /\ ~codegen_only(r) => r.dec # stdout(p) /\ r.def # stdout(p)
          /\ TwoFiles(r) => r.dec # r.def
    /\ st \in {"switch", "definition"} => r.lang # "java"
    /\ st = "switch" => ~codegen_only(r)
    /\ st \in {"mktemp", "temp"} \cup InDescription => r.target = r.dec
    /\ st \in InDefinition /\ r.errors = 0 => r.target = LastFile(r)

\* The name of the temporary file is chosen once, and what is counted begins at zero.
TempChosen(r) ==
    LET st == Stage(r) IN
    /\ st \in BeforeTarget \cup {"mktemp"} => r.name = NoPath
    /\ st \in InDescription \cup InDefinition => r.name # NoPath
    /\ r.temp \in {NoPath, r.name}
    /\ r.pc \in InDescription \cup InDefinition => r.temp = r.name
    /\ st \in BeforeTemp \cup {"declarations"} => r.code = 0
    /\ st \in BeforeTemp \cup InDescription \cup {"definition", "reopen", "copy", "end"} => r.tail = 0
    /\ st = "return" /\ r.pc = "exited" => r.errors = 0
    /\ r.pc # "exited" => r.status = Running

\* What is in the target by then, and in the file that was finished before it.
Output(r, f) ==
    LET st == Stage(r)
        now == f[r.target]
    IN  /\ st \notin BeforeTarget \cup {"exited"} => r.target \in DOMAIN f
        /\ st \in {"mktemp", "temp", "declarations"} => now = <<>>
        /\ st \in {"description", "emit"} => now = <<Section("declarations")>>
        /\ st = "switch" => now = Declared
        /\ st = "definition" => now = IF TwoFiles(r) THEN <<>> ELSE Declared
        /\ st = "reopen" => now = Before(r)
        /\ st \in InDefinition /\ TwoFiles(r) => r.dec \in DOMAIN f /\ f[r.dec] = Declared

\* Where the user's code is: in the temporary file, then behind what the target had.
Copied(r, f, code) ==
    LET st == Stage(r)
        now == f[r.target]
    IN  /\ st \in InDescription \cup {"definition", "reopen"} => r.temp \in DOMAIN f /\ f[r.temp] = code
        /\ st = "copy" => now \o r.reading = Before(r) \o code
        /\ st = "end" => now = Before(r) \o code
        /\ st \in {"the_end", "return"} =>
              now = Before(r) \o code \o <<Section("end")>> \o TailText(r)

\* How far compiler p is.
OutputInv(p) ==
    LET r == run[p] IN
    /\ FilesChosen(p, r) /\ TempChosen(r)
    /\ Stage(r) \in BeforeTarget => stdout(p) \in DOMAIN fs /\ fs[stdout(p)] = <<>>
    /\ ~full /\ r.errors = 0 => Output(r, fs) /\ (Alone(p) => Copied(r, fs, UserCode(p)))

\* Wherever a compiler is, its files have what they should have by then: the target chosen
\* from the options has been emptied and has all sections so far in order, the temporary file
\* has the user's code until it is copied, and what is yet to be copied is the rest.
DriverOutputInv == DriverInv /\ \A p \in Compilers : OutputInv(p)
=============================================================================
