----------------------------- MODULE DriverProofs -----------------------------
(***************************************************************************)
(* Proof that no compiler leaves its temporary file behind or spoils a     *)
(* source, that the language is the one the options say, and that one      *)
(* that reports success has written all of its output, for any number of   *)
(* compilers that run at once with any options.                            *)
(***************************************************************************)
EXTENDS Driver, SequenceTheorems, TLAPS

-----------------------------------------------------------------------------
(* Paths and files                                                         *)

\* No file is of two kinds.
LEMMA PathsApart ==
    ASSUME TypeOK, NEW p \in Compilers, NEW q \in Compilers
    PROVE  /\ NoPath \notin SourcesOf(p) /\ NoPath \notin OutputsOf(p) /\ NoPath \notin Temps
           /\ SourcesOf(p) \cap OutputsOf(q) = {}
           /\ SourcesOf(p) \cap Temps = {}
           /\ OutputsOf(p) \cap Temps = {}
<1> DEFINE k == command.kind
<1>1. /\ \A d \in k.directories : d # "stdout" /\ d # "tmp"
      /\ \A e \in k.extensions : e \notin Generated /\ e \notin Letters
  BY CommandsAssumption DEF TypeOK
<1>2. \A a, b, c : <<a, b, c>> # <<>> /\ <<a, b, c>>[1] = a /\ <<a, b, c>>[3] = c
  OBVIOUS
<1>3. NoPath \notin SourcesOf(p) /\ NoPath \notin OutputsOf(p) /\ NoPath \notin Temps
  BY <1>2 DEF SourcesOf, OutputsOf, Temps, NoPath, stdout, optarg, temp_path
<1>4. \A x \in SourcesOf(p) : x[1] \notin {"stdout", "tmp"} /\ x[3] \notin Generated \cup Letters
  BY <1>1 DEF SourcesOf
<1>5. \A x \in Temps : x[1] = "tmp"
  BY <1>2 DEF Temps, temp_path
<1>6. ASSUME NEW r \in Compilers
      PROVE  \A x \in OutputsOf(r) : /\ x[1] = "stdout" \/ x[3] \in Generated \cup Letters
                                    /\ x[1] # "tmp"
  <2>1. \A x \in {stdout(r)} : x[1] = "stdout"
    BY <1>2 DEF stdout
  <2>2. \A x \in {optarg(r, o) : o \in Letters} : x[1] = "cwd" /\ x[3] \in Letters
    BY DEF optarg
  <2>3. \A x \in {<<d, r, e>> : d \in k.directories, e \in Generated} :
            x[1] # "tmp" /\ x[3] \in Generated
    BY <1>1
  <2> QED
    BY <2>1, <2>2, <2>3 DEF OutputsOf
<1>7. SourcesOf(p) \cap OutputsOf(q) = {}
  BY <1>4, <1>6
<1>8. SourcesOf(p) \cap Temps = {}
  BY <1>4, <1>5
<1>9. OutputsOf(p) \cap Temps = {}
  BY <1>5, <1>6
<1> QED
  BY <1>3, <1>7, <1>8, <1>9

\* From f to g, nothing but the files in Q is created, written or removed.
Elsewhere(Q, f, g) ==
    \A x : x \notin Q => /\ x \in DOMAIN g <=> x \in DOMAIN f
                         /\ x \in DOMAIN f => g[x] = f[x]

Files(f) == f \in [DOMAIN f -> Seq(Units)]

LEMMA CreateFiles ==
    ASSUME Files(fs), NEW q
    PROVE  Files(Create(q)) /\ Elsewhere({q}, fs, Create(q)) /\ DOMAIN Create(q) = DOMAIN fs \cup {q}
<1>1. <<>> \in Seq(Units)
  OBVIOUS
<1> QED
  BY <1>1 DEF Files, Create, Elsewhere

LEMMA UnlinkFiles ==
    ASSUME Files(fs), NEW q
    PROVE  Files(Unlink(q)) /\ Elsewhere({q}, fs, Unlink(q)) /\ DOMAIN Unlink(q) = DOMAIN fs \ {q}
  BY DEF Files, Unlink, Elsewhere, Restrict

LEMMA WriteFiles ==
    ASSUME Files(fs), NEW q, NEW s \in Seq(Units)
    PROVE  Files(Write(q, s)) /\ Elsewhere({q}, fs, Write(q, s)) /\ DOMAIN Write(q, s) = DOMAIN fs
<1>1. CASE q \in DOMAIN fs /\ ~full
  <2>1. Write(q, s) = [fs EXCEPT ![q] = fs[q] \o s]
    BY <1>1 DEF Write
  <2>2. fs[q] \in Seq(Units)
    BY <1>1 DEF Files
  <2>3. fs[q] \o s \in Seq(Units)
    BY <2>2
  <2> QED
    BY <2>1, <2>3 DEF Files, Elsewhere
<1>2. CASE ~(q \in DOMAIN fs /\ ~full)
  BY <1>2 DEF Write, Files, Elsewhere
<1> QED
  BY <1>1, <1>2

LEMMA WriteAtFiles ==
    ASSUME Files(fs), NEW q, NEW i \in Nat \ {0}, NEW u \in Units
    PROVE  /\ Files(WriteAt(q, i, u)) /\ Elsewhere({q}, fs, WriteAt(q, i, u))
           /\ DOMAIN WriteAt(q, i, u) = DOMAIN fs
<1>1. CASE q \in DOMAIN fs /\ ~full
  <2> DEFINE s == fs[q]
             w == [k \in 1 .. (IF i > Len(s) THEN i ELSE Len(s)) |->
                       IF k = i THEN u ELSE IF k <= Len(s) THEN s[k] ELSE Section("hole")]
  <2>1. WriteAt(q, i, u) = [fs EXCEPT ![q] = w]
    BY <1>1 DEF WriteAt
  <2>2. s \in Seq(Units)
    BY <1>1 DEF Files
  <2>3. Section("hole") \in Units
    BY DEF Units, SectionNames
  <2> HIDE DEF s
  <2>4. w \in Seq(Units)
    <3>1. PICK n \in Nat : n = Len(s)
      BY <2>2
    <3>2. PICK m \in Nat : m = IF i > Len(s) THEN i ELSE Len(s)
      BY <3>1
    <3>3. \A k \in 1 .. m : k <= Len(s) => s[k] \in Units
      BY <2>2, <3>1
    <3>4. w \in [1 .. m -> Units]
      BY <2>3, <3>2, <3>3
    <3> QED
      BY <3>4
  <2> HIDE DEF w
  <2> QED
    BY <2>1, <2>4 DEF Files, Elsewhere
<1>2. CASE ~(q \in DOMAIN fs /\ ~full)
  BY <1>2 DEF WriteAt, Files, Elsewhere
<1> QED
  BY <1>1, <1>2

-----------------------------------------------------------------------------
(* What a step of one compiler has to do                                   *)

\* Compiler p goes on as r and touches the files in Q only, which are its own output or a
\* temporary file; one that it leaves there is its own.
GoesOn(p, r, Q) ==
    /\ command' = command
    /\ DOMAIN run' = Compilers /\ run'[p] = r
    /\ \A q \in Compilers \ {p} : run'[q] = run[q]
    /\ r \in CompilerType(p) /\ r.source = run[p].source
    /\ PathsKnown(r) /\ LanguageKnown(r)
    /\ Files(fs') /\ Elsewhere(Q, fs, fs')
    /\ NoPath \notin DOMAIN fs'
    /\ Q \subseteq OutputsOf(p) \cup Temps \cup {NoPath}
    /\ r.temp = run[p].temp \/ run[p].temp \in Q \cup {NoPath}
    /\ \A q \in Q \cap Temps : q \in DOMAIN fs' => r.temp = q

LEMMA KindKept ==
    ASSUME command'.kind = command.kind
    PROVE  /\ Temps' = Temps
           /\ \A p : /\ SourcesOf(p)' = SourcesOf(p) /\ OutputsOf(p)' = OutputsOf(p)
                     /\ CompilerType(p)' = CompilerType(p)
<1>1. Temps' = Temps
  BY DEF Temps
<1>2. \A p : SourcesOf(p)' = SourcesOf(p) /\ OutputsOf(p)' = OutputsOf(p)
  BY DEF SourcesOf, OutputsOf
<1> QED
  BY <1>1, <1>2 DEF CompilerType

LEMMA GoesOnKeeps ==
    ASSUME DriverInv, NEW p \in Compilers, NEW r, NEW Q, GoesOn(p, r, Q)
    PROVE  DriverInv'
<1>1. TypeOK /\ Temps' = Temps /\ \A q : CompilerType(q)' = CompilerType(q)
  BY KindKept DEF DriverInv, GoesOn
<1>2. \A q \in Compilers : /\ run'[q] \in CompilerType(q) /\ run'[q].source = run[q].source
                           /\ PathsKnown(run'[q]) /\ LanguageKnown(run'[q])
  BY <1>1 DEF GoesOn, DriverInv, TypeOK
<1>3. TypeOK'
  <2>1. \A q \in Compilers : run'[q] \in CompilerType(q)'
    BY <1>1, <1>2
  <2> QED
    BY <1>1, <2>1 DEF TypeOK, GoesOn, Files
<1>4. (\A q \in Compilers : PathsKnown(run[q]) /\ LanguageKnown(run[q]))'
  BY <1>2
<1>5. TempsOwned'
  <2> SUFFICES ASSUME NEW q \in Temps, q \in DOMAIN fs'
               PROVE  \E t \in Compilers : run'[t].temp = q
    BY <1>1 DEF TempsOwned
  <2>1. CASE q \in Q
    BY <2>1 DEF GoesOn
  <2>2. CASE q \notin Q
    <3>1. q \in DOMAIN fs
      BY <2>2 DEF GoesOn, Elsewhere
    <3>2. PICK t \in Compilers : run[t].temp = q
      BY <3>1 DEF DriverInv, TempsOwned
    <3>3. q # NoPath
      BY <1>1, PathsApart
    <3> QED
      BY <2>2, <3>2, <3>3 DEF GoesOn
  <2> QED
    BY <2>1, <2>2
<1>6. SourcePreserved'
  <2> SUFFICES ASSUME NEW q \in Compilers, run'[q].source \in DOMAIN fs'
               PROVE  fs'[run'[q].source] = <<Section("source")>>
    BY DEF SourcePreserved
  <2>1. run'[q].source = run[q].source
    BY <1>2
  <2> DEFINE s == run[q].source
  <2>2. s # NoPath /\ s \in SourcesOf(q)
    <3>1. s # NoPath
      BY <2>1 DEF GoesOn
    <3>2. s \in SourcesOf(q) \cup {NoPath}
      BY <1>1 DEF TypeOK, CompilerType
    <3> QED
      BY <3>1, <3>2
  <2>3. s \notin Q
    BY <1>1, <2>2, PathsApart DEF GoesOn
  <2>4. s \in DOMAIN fs /\ fs'[s] = fs[s]
    BY <2>1, <2>3 DEF GoesOn, Elsewhere
  <2> QED
    BY <2>1, <2>4 DEF DriverInv, SourcePreserved
<1> QED
  BY <1>3, <1>4, <1>5, <1>6 DEF DriverInv, GoesOn

-----------------------------------------------------------------------------
(* Lemmas for the kinds of steps                                           *)

\* Compiler p goes on as r; the others stay as they are.
Moves(p, r) ==
    /\ DOMAIN run' = Compilers /\ run'[p] = r
    /\ \A q \in Compilers \ {p} : run'[q] = run[q]

\* r is what run[p] becomes when it goes to a place.
Goes(p, place, r) ==
    /\ r \in CompilerType(p)
    /\ r.pc = place /\ r.source = run[p].source /\ r.given = run[p].given
    /\ r.lang = run[p].lang /\ r.x = run[p].x /\ r.dec = run[p].dec /\ r.def = run[p].def
    /\ r.target = run[p].target /\ r.name = run[p].name /\ r.temp = run[p].temp

LEMMA GoMoves ==
    ASSUME TypeOK, NEW p \in Compilers, NEW place \in Places, Go(p, place)
    PROVE  \E r : Moves(p, r) /\ Goes(p, place, r)
<1> DEFINE r == [run[p] EXCEPT !.pc = place]
<1>1. Moves(p, r)
  BY DEF Moves, Go, TypeOK
<1>2. run[p] \in CompilerType(p)
  BY DEF TypeOK
<1>3. Goes(p, place, r)
  BY <1>2 DEF Goes, CompilerType
<1> QED
  BY <1>1, <1>3

LEMMA CompilerKnown ==
    ASSUME DriverInv, NEW p \in Compilers
    PROVE  /\ TypeOK /\ Files(fs) /\ run[p] \in CompilerType(p)
           /\ PathsKnown(run[p]) /\ LanguageKnown(run[p])
           /\ run[p].target \in OutputsOf(p) \cup {NoPath}
           /\ run[p].temp \in Temps \cup {NoPath}
<1>1. TypeOK /\ Files(fs) /\ run[p] \in CompilerType(p) /\ PathsKnown(run[p]) /\ LanguageKnown(run[p])
  BY DEF DriverInv, TypeOK, Files
<1> QED
  BY <1>1 DEF CompilerType

\* A compiler past the options that goes to a place past them keeps what it knows.
LEMMA StillKnown ==
    ASSUME NEW p, NEW r, NEW place, Goes(p, place, r),
           PathsKnown(run[p]), LanguageKnown(run[p]),
           run[p].pc \notin {"options", "main", "exited"},
           place \notin {"options", "main", "temp", "exited"},
           place \in {"source", "target", "mktemp"} => run[p].temp = NoPath
    PROVE  PathsKnown(r) /\ LanguageKnown(r)
<1>1. PathsKnown(r)
  BY DEF PathsKnown, Goes
<1>2. LanguageKnown(r)
  BY DEF LanguageKnown, Goes
<1> QED
  BY <1>1, <1>2

\* A step that leaves the files alone.
LEMMA QuietStep ==
    ASSUME DriverInv, NEW p \in Compilers, NEW r, Moves(p, r),
           r \in CompilerType(p), r.source = run[p].source, r.temp = run[p].temp,
           PathsKnown(r), LanguageKnown(r), fs' = fs, command' = command
    PROVE  DriverInv'
<1>1. GoesOn(p, r, {})
  BY CompilerKnown DEF GoesOn, Moves, Elsewhere, DriverInv
<1> QED
  BY <1>1, GoesOnKeeps

\* A step that writes to the compiler's target and to stdout at most.
LEMMA OutputStep ==
    ASSUME DriverInv, NEW p \in Compilers, NEW r, NEW Q, Moves(p, r),
           r \in CompilerType(p), r.source = run[p].source, r.temp = run[p].temp,
           PathsKnown(r), LanguageKnown(r), command' = command,
           Q \subseteq OutputsOf(p) \cup {NoPath},
           Files(fs'), Elsewhere(Q, fs, fs'), NoPath \notin DOMAIN fs'
    PROVE  DriverInv'
<1>1. \A q \in Q \cap Temps : FALSE
  BY CompilerKnown, PathsApart
<1>2. GoesOn(p, r, Q)
  BY <1>1 DEF GoesOn, Moves
<1> QED
  BY <1>2, GoesOnKeeps

\* exit() removes the temporary file, if there is one.
LEMMA ExitStep ==
    ASSUME DriverInv, NEW p \in Compilers, NEW s \in Int, Exit(p, s), command' = command
    PROVE  DriverInv'
<1> DEFINE r == [run[p] EXCEPT !.pc = "exited", !.status = s, !.temp = NoPath]
           t == run[p].temp
<1>1. Moves(p, r)
  BY CompilerKnown DEF Moves, Exit, Ended, TypeOK
<1>2. /\ r \in CompilerType(p) /\ r.pc = "exited" /\ r.source = run[p].source /\ r.temp = NoPath
      /\ r.given = run[p].given /\ r.lang = run[p].lang /\ r.x = run[p].x /\ r.target = run[p].target
  <2>1. run[p] \in CompilerType(p)
    BY CompilerKnown
  <2>2. r \in CompilerType(p)
    BY <2>1, ZenonT(40) DEF CompilerType, Places
  <2> QED
    BY <2>1, <2>2 DEF CompilerType, Places
<1> HIDE DEF r
<1>3. PathsKnown(r) /\ LanguageKnown(r)
  BY <1>2, CompilerKnown DEF PathsKnown, LanguageKnown
<1>4. fs' = Unlink(t)
  BY DEF Exit
<1>5. Files(fs') /\ Elsewhere({t}, fs, fs') /\ DOMAIN fs' = DOMAIN fs \ {t}
  BY <1>4, CompilerKnown, UnlinkFiles
<1>6. GoesOn(p, r, {t})
  BY <1>1, <1>2, <1>3, <1>5, CompilerKnown DEF GoesOn, Moves, DriverInv
<1> QED
  BY <1>6, GoesOnKeeps

-----------------------------------------------------------------------------
(* The actions                                                             *)

LEMMA GiveOptionStep ==
    ASSUME DriverInv, NEW p \in Compilers, GiveOption(p)
    PROVE  DriverInv'
<1>1. PICK o \in command.kind.options, x \in {"cpp", "java"} :
          run' = [run EXCEPT
                  ![p].given = @ \cup {o},
                  ![p].lang = Language(run[p], o, x),
                  ![p].x = IF o = "x" THEN x ELSE @,
                  ![p].dec = IF o \in {"d", "h", "j"} THEN optarg(p, o) ELSE @,
                  ![p].def = IF o \in {"D", "c", "j"} THEN optarg(p, o) ELSE @]
  BY DEF GiveOption
<1> DEFINE lang == Language(run[p], o, x)
           given == run[p].given \cup {o}
           arg == IF o = "x" THEN x ELSE run[p].x
           dec == IF o \in {"d", "h", "j"} THEN optarg(p, o) ELSE run[p].dec
           def == IF o \in {"D", "c", "j"} THEN optarg(p, o) ELSE run[p].def
           r == [run[p] EXCEPT !.given = given, !.lang = lang, !.x = arg, !.dec = dec, !.def = def]
<1>2. Moves(p, r)
  BY <1>1, CompilerKnown DEF Moves, TypeOK
<1>3. o \in Letters
  BY CompilerKnown, CommandsAssumption DEF TypeOK
<1>4. optarg(p, o) \in OutputsOf(p)
  BY <1>3 DEF OutputsOf
<1>5. /\ lang \in {NoLanguage, "cpp", "java"} /\ arg \in {NoLanguage, "cpp", "java"}
      /\ given \in SUBSET Letters
      /\ dec \in OutputsOf(p) \cup {NoPath} /\ def \in OutputsOf(p) \cup {NoPath}
  <2>1. /\ run[p].lang \in {NoLanguage, "cpp", "java"} /\ run[p].x \in {NoLanguage, "cpp", "java"}
        /\ run[p].given \in SUBSET Letters
        /\ run[p].dec \in OutputsOf(p) \cup {NoPath} /\ run[p].def \in OutputsOf(p) \cup {NoPath}
    BY CompilerKnown DEF CompilerType
  <2> QED
    BY <1>3, <1>4, <2>1 DEF Language
<1> HIDE DEF lang, given, arg, dec, def
<1>6. /\ r \in CompilerType(p) /\ r.pc = run[p].pc /\ r.source = run[p].source
      /\ r.given = given /\ r.lang = lang /\ r.x = arg /\ r.target = run[p].target
      /\ r.temp = run[p].temp
  <2>1. run[p] \in CompilerType(p)
    BY CompilerKnown
  <2>2. r \in CompilerType(p)
    BY <2>1, <1>5, ZenonT(40) DEF CompilerType
  <2> QED
    BY <2>1, <2>2, <1>5 DEF CompilerType
<1> HIDE DEF r
<1>7. run[p].pc = "options"
  BY DEF GiveOption, At
<1>8. PathsKnown(r)
  BY <1>6, <1>7, CompilerKnown DEF PathsKnown
<1>9. r.target = NoPath
  BY <1>6, <1>7, CompilerKnown DEF PathsKnown
<1>10. LanguageKnown(r)
  BY <1>6, <1>7, <1>9, CompilerKnown DEF LanguageKnown, Language, NoLanguage, lang, given, arg
<1> QED
  BY <1>2, <1>6, <1>8, <1>10, QuietStep DEF GiveOption

LEMMA CheckOptionsStep ==
    ASSUME DriverInv, NEW p \in Compilers, CheckOptions(p)
    PROVE  DriverInv'
<1>1. CASE ~OptionsAgree(run[p].given)
  BY <1>1, ExitStep DEF CheckOptions, EX_USAGE
<1>2. CASE OptionsAgree(run[p].given) /\ "v" \in run[p].given
  BY <1>2, ExitStep DEF CheckOptions, EX_OK
<1>3. CASE OptionsAgree(run[p].given) /\ "v" \notin run[p].given
  <2>1. Go(p, "main") /\ fs' = fs /\ command' = command /\ run[p].pc = "options"
    BY <1>3 DEF CheckOptions, At
  <2>2. PICK r : Moves(p, r) /\ Goes(p, "main", r)
    BY <2>1, GoMoves, CompilerKnown DEF Places
  <2>3. PathsKnown(r)
    BY <2>1, <2>2, CompilerKnown DEF PathsKnown, Goes
  <2>4. LanguageKnown(r)
    BY <1>3, <2>2, CompilerKnown DEF LanguageKnown, Goes
  <2> QED
    BY <2>1, <2>2, <2>3, <2>4, QuietStep DEF Goes
<1> QED
  BY <1>1, <1>2, <1>3

LEMMA ChooseFilesStep ==
    ASSUME DriverInv, NEW p \in Compilers, ChooseFiles(p)
    PROVE  DriverInv'
<1> DEFINE r == run[p]
           lang == IF r.lang = NoLanguage THEN map_ext_to_lang(r.source[3]) ELSE r.lang
           exts == get_filename_exts(lang)
           dec == IF codegen_only(r) THEN stdout(p)
                  ELSE IF r.dec = NoPath THEN replace_extension(r.source, exts[1]) ELSE r.dec
           def == IF codegen_only(r) THEN stdout(p)
                  ELSE IF r.def = NoPath THEN replace_extension(r.source, exts[2]) ELSE r.def
           w == [run[p] EXCEPT !.pc = "source", !.lang = lang, !.dec = dec, !.def = def]
<1>0. r.pc = "main" /\ command' = command
  BY DEF ChooseFiles, At
<1>1. CASE lang = NoLanguage
  BY <1>1, ExitStep DEF ChooseFiles, EX_DATAERR
<1>2. CASE lang # NoLanguage
  <2>1. fs' = fs /\ run' = [run EXCEPT ![p].pc = "source", ![p].lang = lang,
                                       ![p].dec = dec, ![p].def = def]
    BY <1>2 DEF ChooseFiles
  <2>2. lang \in {NoLanguage, "cpp", "java"}
    BY CompilerKnown DEF map_ext_to_lang, CompilerType
  <2>3. exts[1] \in Generated /\ exts[2] \in Generated
    BY DEF get_filename_exts, Generated
  <2>4. \A e \in Generated : replace_extension(r.source, e) \in OutputsOf(p)
    <3>1. r.source \in SourcesOf(p)
      BY <1>0, CompilerKnown DEF PathsKnown, CompilerType
    <3>2. PICK d \in command.kind.directories, x \in command.kind.extensions : r.source = <<d, p, x>>
      BY <3>1 DEF SourcesOf
    <3>3. \A e : replace_extension(<<d, p, x>>, e) = <<d, p, e>>
      BY DEF replace_extension
    <3> QED
      BY <3>2, <3>3 DEF OutputsOf
  <2>5. stdout(p) \in OutputsOf(p)
    BY DEF OutputsOf
  <2>6. r.dec \in OutputsOf(p) \cup {NoPath} /\ r.def \in OutputsOf(p) \cup {NoPath}
    BY CompilerKnown DEF CompilerType
  <2> HIDE DEF exts
  <2>7. dec \in OutputsOf(p) /\ def \in OutputsOf(p)
    BY <2>3, <2>4, <2>5, <2>6
  <2>8. lang = r.lang \/ r.lang = NoLanguage
    OBVIOUS
  <2> HIDE DEF lang, dec, def
  <2>9. Moves(p, w)
    BY <2>1, CompilerKnown DEF Moves, TypeOK
  <2>10. /\ w \in CompilerType(p) /\ w.pc = "source" /\ w.source = r.source /\ w.given = r.given
         /\ w.lang = lang /\ w.x = r.x /\ w.dec = dec /\ w.def = def /\ w.target = r.target
         /\ w.temp = r.temp
    <3>1. r \in CompilerType(p)
      BY CompilerKnown
    <3>2. w \in CompilerType(p)
      BY <3>1, <2>2, <2>7, ZenonT(40) DEF CompilerType, Places
    <3> QED
      BY <3>1, <3>2, <2>2, <2>7 DEF CompilerType, Places
  <2> HIDE DEF w
  <2>11. NoPath \notin OutputsOf(p)
    BY CompilerKnown, PathsApart
  <2>12. PathsKnown(w)
    BY <1>0, <2>7, <2>10, <2>11, CompilerKnown DEF PathsKnown
  <2>13. LanguageKnown(w)
    BY <1>0, <2>8, <2>10, CompilerKnown DEF LanguageKnown, NoLanguage
  <2> QED
    BY <1>0, <2>1, <2>9, <2>10, <2>12, <2>13, QuietStep
<1> QED
  BY <1>1, <1>2

LEMMA OpenSourceStep ==
    ASSUME DriverInv, NEW p \in Compilers, OpenSource(p)
    PROVE  DriverInv'
<1>1. CASE run[p].source \notin DOMAIN fs
  BY <1>1, ExitStep DEF OpenSource, EX_NOINPUT
<1>2. CASE run[p].source \in DOMAIN fs
  <2>1. Go(p, "target") /\ fs' = fs /\ command' = command /\ run[p].pc = "source"
    BY <1>2 DEF OpenSource, At
  <2>2. PICK r : Moves(p, r) /\ Goes(p, "target", r)
    BY <2>1, GoMoves, CompilerKnown DEF Places
  <2>3. run[p].temp = NoPath
    BY <2>1, CompilerKnown DEF PathsKnown
  <2>4. PathsKnown(r) /\ LanguageKnown(r)
    BY <2>1, <2>2, <2>3, CompilerKnown, StillKnown
  <2> QED
    BY <2>1, <2>2, <2>4, QuietStep DEF Goes
<1> QED
  BY <1>1, <1>2

\* Opening the target: the declarations' file, later the definitions'.
LEMMA OpenedStep ==
    ASSUME DriverInv, NEW p \in Compilers, NEW q \in OutputsOf(p), NEW place \in Places,
           OpenedAs(p, q, place), command' = command,
           run[p].pc \notin {"options", "main", "exited"},
           place \notin {"options", "main", "temp", "exited"},
           place \in {"source", "target", "mktemp"} => run[p].temp = NoPath
    PROVE  DriverInv'
<1> DEFINE r == [run[p] EXCEPT !.pc = place, !.target = q]
<1>1. Moves(p, r)
  BY CompilerKnown DEF OpenedAs, Moves, TypeOK
<1>2. /\ r \in CompilerType(p) /\ r.pc = place /\ r.source = run[p].source /\ r.target = q
      /\ r.given = run[p].given /\ r.lang = run[p].lang /\ r.x = run[p].x
      /\ r.dec = run[p].dec /\ r.def = run[p].def /\ r.temp = run[p].temp
  BY CompilerKnown DEF CompilerType
<1> HIDE DEF r
<1>3. PathsKnown(r)
  BY <1>2, CompilerKnown DEF PathsKnown
<1>4. LanguageKnown(r)
  BY <1>2, CompilerKnown DEF LanguageKnown
<1>5. Files(fs') /\ Elsewhere({q}, fs, fs') /\ DOMAIN fs' \subseteq DOMAIN fs \cup {q}
  BY CompilerKnown, CreateFiles DEF OpenedAs, Elsewhere
<1>6. NoPath \notin DOMAIN fs'
  BY <1>5, CompilerKnown, PathsApart DEF DriverInv
<1> QED
  BY <1>1, <1>2, <1>3, <1>4, <1>5, <1>6, OutputStep

LEMMA OpenTargetStep ==
    ASSUME DriverInv, NEW p \in Compilers, OpenTarget(p) \/ SwitchTarget(p)
    PROVE  DriverInv'
<1>1. run[p].dec \in OutputsOf(p) \cup {NoPath} /\ run[p].def \in OutputsOf(p) \cup {NoPath}
  BY CompilerKnown DEF CompilerType
<1>2. CASE OpenTarget(p)
  <2>1. /\ run[p].pc = "target" /\ OpenedAs(p, run[p].dec, "mktemp") /\ command' = command
        /\ run[p].dec \in OutputsOf(p) /\ run[p].temp = NoPath
    BY <1>1, <1>2, CompilerKnown DEF OpenTarget, At, PathsKnown
  <2> QED
    BY <2>1, OpenedStep DEF Places
<1>3. CASE SwitchTarget(p)
  <2>1. /\ run[p].pc = "switch" /\ OpenedAs(p, run[p].def, "definition") /\ command' = command
        /\ run[p].def \in OutputsOf(p)
    BY <1>1, <1>3, CompilerKnown DEF SwitchTarget, At, PathsKnown
  <2> QED
    BY <2>1, OpenedStep DEF Places
<1> QED
  BY <1>2, <1>3

LEMMA OpenFailsStep ==
    ASSUME DriverInv, NEW p \in Compilers, OpenFails(p)
    PROVE  DriverInv'
  BY ExitStep DEF OpenFails, EX_NOINPUT

LEMMA UsageStep ==
    ASSUME DriverInv, NEW p \in Compilers, Usage(p)
    PROVE  DriverInv'
  BY ExitStep DEF Usage, EX_USAGE

LEMMA ReturnStep ==
    ASSUME DriverInv, NEW p \in Compilers, ReturnFromMain(p)
    PROVE  DriverInv'
<1> DEFINE s == IF run[p].errors = 0 THEN EX_OK ELSE EX_DATAERR
<1>1. Exit(p, s) /\ command' = command
  BY DEF ReturnFromMain
<1>2. s \in Int
  BY DEF EX_OK, EX_DATAERR
<1> HIDE DEF s
<1> QED
  BY <1>1, <1>2, ExitStep

LEMMA MakeTempNameStep ==
    ASSUME DriverInv, NEW p \in Compilers, MakeTempName(p)
    PROVE  DriverInv'
<1>1. PICK t \in command.kind.temps :
          run' = [run EXCEPT ![p].pc = "temp", ![p].name = temp_path(t)]
  BY DEF MakeTempName
<1> DEFINE n == temp_path(t)
           r == [run[p] EXCEPT !.pc = "temp", !.name = n]
<1>2. Moves(p, r)
  BY <1>1, CompilerKnown DEF Moves, TypeOK
<1>3. n \in Temps /\ n # NoPath
  <2>1. n \in Temps
    BY DEF Temps
  <2> QED
    BY <2>1, CompilerKnown, PathsApart
<1> HIDE DEF n
<1>4. /\ r \in CompilerType(p) /\ r.pc = "temp" /\ r.source = run[p].source /\ r.name = n
      /\ r.given = run[p].given /\ r.lang = run[p].lang /\ r.x = run[p].x
      /\ r.dec = run[p].dec /\ r.def = run[p].def /\ r.temp = run[p].temp
      /\ r.target = run[p].target
  <2>1. run[p] \in CompilerType(p)
    BY CompilerKnown
  <2>2. r \in CompilerType(p)
    BY <2>1, <1>3, ZenonT(40) DEF CompilerType, Places
  <2> QED
    BY <2>1, <2>2, <1>3 DEF CompilerType, Places
<1> HIDE DEF r
<1>5. run[p].pc = "mktemp" /\ fs' = fs /\ command' = command
  BY DEF MakeTempName, At
<1>6. PathsKnown(r)
  BY <1>3, <1>4, <1>5, CompilerKnown DEF PathsKnown
<1>7. LanguageKnown(r)
  BY <1>4, <1>5, CompilerKnown DEF LanguageKnown
<1> QED
  BY <1>2, <1>4, <1>5, <1>6, <1>7, QuietStep

LEMMA OpenTempStep ==
    ASSUME DriverInv, NEW p \in Compilers, OpenTemp(p)
    PROVE  DriverInv'
<1> DEFINE n == run[p].name
           r == [run[p] EXCEPT !.pc = "declarations", !.temp = n]
<1>1. run[p].pc = "temp" /\ fs' = Create(n) /\ command' = command
  BY DEF OpenTemp, At
<1>2. Moves(p, r)
  BY CompilerKnown DEF OpenTemp, Moves, TypeOK
<1>3. n \in Temps /\ n # NoPath
  BY <1>1, CompilerKnown DEF PathsKnown, CompilerType
<1>4. /\ r \in CompilerType(p) /\ r.pc = "declarations" /\ r.source = run[p].source
      /\ r.given = run[p].given /\ r.lang = run[p].lang /\ r.x = run[p].x
      /\ r.dec = run[p].dec /\ r.def = run[p].def /\ r.temp = n
      /\ r.target = run[p].target
  <2>1. run[p] \in CompilerType(p)
    BY CompilerKnown
  <2>2. r \in CompilerType(p)
    BY <2>1, ZenonT(40) DEF CompilerType, Places
  <2> QED
    BY <2>1, <2>2 DEF CompilerType, Places
<1> HIDE DEF r, n
<1>5. PathsKnown(r)
  BY <1>1, <1>4, CompilerKnown DEF PathsKnown
<1>6. LanguageKnown(r)
  BY <1>1, <1>4, CompilerKnown DEF LanguageKnown
<1>7. Files(fs') /\ Elsewhere({n}, fs, fs') /\ DOMAIN fs' = DOMAIN fs \cup {n}
  BY <1>1, CompilerKnown, CreateFiles
<1>8. run[p].temp = NoPath
  BY <1>1, CompilerKnown DEF PathsKnown
<1>9. GoesOn(p, r, {n})
  BY <1>1, <1>2, <1>3, <1>4, <1>5, <1>6, <1>7, <1>8 DEF GoesOn, Moves, DriverInv
<1> QED
  BY <1>9, GoesOnKeeps

-----------------------------------------------------------------------------
(* Writing                                                                 *)

LEMMA SectionUnits ==
    ASSUME NEW s \in SectionNames
    PROVE  Section(s) \in Units /\ <<Section(s)>> \in Seq(Units)
<1>1. Section(s) \in Units
  BY DEF Units
<1> QED
  BY <1>1

\* A write to the target on the way to a place past the options.
LEMMA WriteStep ==
    ASSUME DriverInv, NEW p \in Compilers, NEW s \in Seq(Units), NEW place \in Places, NEW r,
           Moves(p, r), Goes(p, place, r), fs' = Write(run[p].target, s), command' = command,
           run[p].pc \notin {"options", "main", "exited"},
           place \notin {"options", "main", "temp", "exited", "source", "target", "mktemp"}
    PROVE  DriverInv'
<1> DEFINE t == run[p].target
<1>1. PathsKnown(r) /\ LanguageKnown(r)
  BY CompilerKnown, StillKnown
<1>2. Files(fs') /\ Elsewhere({t}, fs, fs') /\ DOMAIN fs' = DOMAIN fs
  BY CompilerKnown, WriteFiles
<1>3. {t} \subseteq OutputsOf(p) \cup {NoPath} /\ NoPath \notin DOMAIN fs'
  BY <1>2, CompilerKnown DEF DriverInv
<1> HIDE DEF t
<1> QED
  BY <1>1, <1>2, <1>3, OutputStep DEF Goes

LEMMA EchoDeclarationsStep ==
    ASSUME DriverInv, NEW p \in Compilers, EchoDeclarations(p)
    PROVE  DriverInv'
<1>1. /\ run[p].pc = "declarations" /\ command' = command
      /\ fs' = Write(run[p].target, <<Section("declarations")>>) /\ Go(p, "description")
  BY DEF EchoDeclarations, At
<1>2. <<Section("declarations")>> \in Seq(Units)
  BY SectionUnits DEF SectionNames
<1>3. PICK r : Moves(p, r) /\ Goes(p, "description", r)
  BY <1>1, GoMoves, CompilerKnown DEF Places
<1> QED
  BY <1>1, <1>2, <1>3, WriteStep DEF Places

LEMMA EmitDeclarationStep ==
    ASSUME DriverInv, NEW p \in Compilers, EmitDeclaration(p)
    PROVE  DriverInv'
<1>1. PICK place \in {"reopen", "definition", "switch"} : Go(p, place)
  BY DEF EmitDeclaration
<1>2. /\ run[p].pc = "emit" /\ command' = command
      /\ fs' = Write(run[p].target, <<Section("machine")>>)
  BY DEF EmitDeclaration, At
<1>3. <<Section("machine")>> \in Seq(Units)
  BY SectionUnits DEF SectionNames
<1>4. place \in Places
  BY DEF Places
<1>5. PICK r : Moves(p, r) /\ Goes(p, place, r)
  BY <1>1, <1>4, GoMoves, CompilerKnown
<1> QED
  BY <1>2, <1>3, <1>4, <1>5, WriteStep

LEMMA EmitDefinitionStep ==
    ASSUME DriverInv, NEW p \in Compilers, EmitDefinition(p)
    PROVE  DriverInv'
<1>1. /\ run[p].pc = "definition" /\ command' = command
      /\ fs' = Write(run[p].target, <<Section("definition")>>) /\ Go(p, "reopen")
  BY DEF EmitDefinition, At
<1>2. <<Section("definition")>> \in Seq(Units)
  BY SectionUnits DEF SectionNames
<1>3. PICK r : Moves(p, r) /\ Goes(p, "reopen", r)
  BY <1>1, GoMoves, CompilerKnown DEF Places
<1> QED
  BY <1>1, <1>2, <1>3, WriteStep DEF Places

LEMMA EmitTheEndStep ==
    ASSUME DriverInv, NEW p \in Compilers, EmitTheEnd(p)
    PROVE  DriverInv'
<1>1. /\ run[p].pc = "end" /\ command' = command
      /\ fs' = Write(run[p].target, <<Section("end")>>) /\ Go(p, "the_end")
  BY DEF EmitTheEnd, At
<1>2. <<Section("end")>> \in Seq(Units)
  BY SectionUnits DEF SectionNames
<1>3. PICK r : Moves(p, r) /\ Goes(p, "the_end", r)
  BY <1>1, GoMoves, CompilerKnown DEF Places
<1> QED
  BY <1>1, <1>2, <1>3, WriteStep DEF Places

LEMMA CopyBlockStep ==
    ASSUME DriverInv, NEW p \in Compilers, CopyBlock(p)
    PROVE  DriverInv'
<1> DEFINE in == run[p].reading
           buf == command.kind.buf
           count == IF Len(in) < buf THEN Len(in) ELSE buf
           place == IF More(count) THEN "copy" ELSE "end"
           rest == SubSeq(in, count + 1, Len(in))
           block == SubSeq(in, 1, count)
           r == [run[p] EXCEPT !.reading = rest, !.pc = place]
<1>1. /\ run[p].pc = "copy" /\ command' = command /\ fs' = Write(run[p].target, block)
      /\ run' = [run EXCEPT ![p].reading = rest, ![p].pc = place]
  BY DEF CopyBlock, At
<1>2. in \in Seq(Units) /\ buf \in Nat
  BY CompilerKnown, CommandsAssumption DEF CompilerType, TypeOK
<1>3. PICK n \in Nat : n = Len(in)
  BY <1>2
<1>4. count \in Nat /\ count <= n
  BY <1>2, <1>3
<1> HIDE DEF in, count
<1>5. block \in Seq(Units) /\ rest \in Seq(Units)
  BY <1>2, <1>3, <1>4
<1>6. place \in {"copy", "end"}
  OBVIOUS
<1> HIDE DEF rest, block, place
<1>7. Moves(p, r)
  BY <1>1, CompilerKnown DEF Moves, TypeOK
<1>8. place \in Places
  BY <1>6 DEF Places
<1>9. Goes(p, place, r)
  BY <1>5, <1>8, CompilerKnown DEF Goes, CompilerType
<1> HIDE DEF r
<1> QED
  BY <1>1, <1>5, <1>6, <1>7, <1>8, <1>9, WriteStep

LEMMA EchoUserCodeStep ==
    ASSUME DriverInv, NEW p \in Compilers, EchoUserCode(p)
    PROVE  DriverInv'
<1> DEFINE i == run[p].code + 1
           t == run[p].temp
           r == [run[p] EXCEPT !.code = i]
<1>1. /\ run[p].pc = "description" /\ command' = command /\ fs' = WriteAt(t, i, <<p, i>>)
      /\ run' = [run EXCEPT ![p].code = i]
  BY DEF EchoUserCode, At
<1>2. i \in Nat \ {0}
  BY CompilerKnown DEF CompilerType
<1>3. <<p, i>> \in Units
  BY <1>2 DEF Units
<1> HIDE DEF i
<1>4. Moves(p, r)
  BY <1>1, CompilerKnown DEF Moves, TypeOK
<1>5. Goes(p, "description", r)
  BY <1>1, <1>2, CompilerKnown DEF Goes, CompilerType
<1> HIDE DEF r
<1>6. PathsKnown(r) /\ LanguageKnown(r)
  BY <1>1, <1>5, CompilerKnown, StillKnown
<1>7. Files(fs') /\ Elsewhere({t}, fs, fs') /\ DOMAIN fs' = DOMAIN fs
  BY <1>1, <1>2, <1>3, CompilerKnown, WriteAtFiles
<1>8. GoesOn(p, r, {t})
  BY <1>1, <1>4, <1>5, <1>6, <1>7, CompilerKnown DEF GoesOn, Goes, Moves, DriverInv
<1> QED
  BY <1>8, GoesOnKeeps

\* Text to the target, the end of its line to stdout.
LEMMA EchoDoneStep ==
    ASSUME DriverInv, NEW p \in Compilers, EchoDone(p)
    PROVE  DriverInv'
<1> DEFINE t == run[p].target
           o == stdout(p)
           text == Write(t, <<Section("text")>>)
           n == run[p].tail + 1
           r == [run[p] EXCEPT !.tail = n]
<1>1. /\ run[p].pc = "the_end" /\ command' = command
      /\ fs' = [text EXCEPT ![o] = Append(text[o], Section("newline"))]
      /\ run' = [run EXCEPT ![p].tail = n]
  BY DEF EchoDone, At
<1>2. n \in Nat
  BY CompilerKnown DEF CompilerType
<1>3. o \in OutputsOf(p)
  BY DEF OutputsOf
<1>4. <<Section("text")>> \in Seq(Units) /\ Section("newline") \in Units
  BY SectionUnits DEF SectionNames
<1>5. Files(text) /\ Elsewhere({t}, fs, text) /\ DOMAIN text = DOMAIN fs
  BY <1>4, CompilerKnown, WriteFiles
<1> HIDE DEF text, n, o
<1>6. o \in DOMAIN text => Append(text[o], Section("newline")) \in Seq(Units)
  BY <1>4, <1>5 DEF Files
<1>7. Files(fs') /\ Elsewhere({t, o}, fs, fs') /\ DOMAIN fs' = DOMAIN fs
  BY <1>1, <1>5, <1>6 DEF Files, Elsewhere
<1>8. Moves(p, r)
  BY <1>1, CompilerKnown DEF Moves, TypeOK
<1>9. Goes(p, "the_end", r)
  BY <1>1, <1>2, CompilerKnown DEF Goes, CompilerType
<1> HIDE DEF r
<1>10. PathsKnown(r) /\ LanguageKnown(r)
  BY <1>1, <1>9, CompilerKnown, StillKnown
<1>11. {t, o} \subseteq OutputsOf(p) \cup {NoPath} /\ NoPath \notin DOMAIN fs'
  BY <1>3, <1>7, CompilerKnown DEF DriverInv
<1> HIDE DEF t
<1> QED
  BY <1>1, <1>7, <1>8, <1>9, <1>10, <1>11, OutputStep DEF Goes

-----------------------------------------------------------------------------
(* The other steps of the parser                                           *)

\* A step to a place past the options that leaves the files alone.
LEMMA QuietGo ==
    ASSUME DriverInv, NEW p \in Compilers, NEW r, NEW place, Moves(p, r), Goes(p, place, r),
           run[p].pc \notin {"options", "main", "exited"},
           place \notin {"options", "main", "temp", "exited", "source", "target", "mktemp"},
           fs' = fs, command' = command
    PROVE  DriverInv'
<1>1. PathsKnown(r) /\ LanguageKnown(r)
  BY CompilerKnown, StillKnown
<1> QED
  BY <1>1, QuietStep DEF Goes

LEMMA ReportErrorStep ==
    ASSUME DriverInv, NEW p \in Compilers, ReportError(p)
    PROVE  DriverInv'
<1> DEFINE r == [run[p] EXCEPT !.errors = 1]
<1>1. Moves(p, r)
  BY CompilerKnown DEF ReportError, Moves, TypeOK
<1>2. run[p].pc = "description" /\ fs' = fs /\ command' = command
  BY DEF ReportError, At
<1>3. Goes(p, "description", r)
  BY <1>2, CompilerKnown, SMTT(30) DEF Goes, CompilerType
<1> HIDE DEF r
<1> QED
  BY <1>1, <1>2, <1>3, QuietGo

LEMMA SyntaxErrorStep ==
    ASSUME DriverInv, NEW p \in Compilers, SyntaxError(p)
    PROVE  DriverInv'
<1> DEFINE n == run[p].errors + 1
           r == [run[p] EXCEPT !.pc = "return", !.errors = n]
<1>1. Moves(p, r)
  BY CompilerKnown DEF SyntaxError, Moves, TypeOK
<1>2. run[p].pc \in {"description", "the_end"} /\ fs' = fs /\ command' = command
  BY DEF SyntaxError, At
<1>3. n \in Nat
  BY CompilerKnown DEF CompilerType
<1> HIDE DEF n
<1>4. Goes(p, "return", r)
  <2>1. run[p] \in CompilerType(p)
    BY CompilerKnown
  <2>2. r \in CompilerType(p)
    BY <2>1, <1>3, ZenonT(40) DEF CompilerType, Places
  <2> QED
    BY <2>1, <2>2, <1>3 DEF Goes, CompilerType, Places
<1> HIDE DEF r
<1> QED
  BY <1>1, <1>2, <1>4, QuietGo

LEMMA EndDescriptionStep ==
    ASSUME DriverInv, NEW p \in Compilers, EndDescription(p)
    PROVE  DriverInv'
<1>0. run[p].pc = "description" /\ command' = command
  BY DEF EndDescription, At
<1>1. CASE run[p].errors = 0
  <2>1. Go(p, "emit") /\ fs' = fs
    BY <1>1 DEF EndDescription
  <2>2. PICK r : Moves(p, r) /\ Goes(p, "emit", r)
    BY <2>1, GoMoves, CompilerKnown DEF Places
  <2> QED
    BY <1>0, <2>1, <2>2, QuietGo
<1>2. CASE run[p].errors # 0
  <2> DEFINE t == run[p].target
  <2>1. Go(p, "the_end") /\ (fs' = fs \/ fs' = Unlink(t))
    BY <1>2 DEF EndDescription
  <2>2. PICK r : Moves(p, r) /\ Goes(p, "the_end", r)
    BY <2>1, GoMoves, CompilerKnown DEF Places
  <2>3. CASE fs' = fs
    BY <1>0, <2>2, <2>3, QuietGo
  <2>4. CASE fs' = Unlink(t)
    <3>1. Files(fs') /\ Elsewhere({t}, fs, fs') /\ DOMAIN fs' = DOMAIN fs \ {t}
      BY <2>4, CompilerKnown, UnlinkFiles
    <3>2. PathsKnown(r) /\ LanguageKnown(r)
      BY <1>0, <2>2, CompilerKnown, StillKnown
    <3>3. {t} \subseteq OutputsOf(p) \cup {NoPath} /\ NoPath \notin DOMAIN fs'
      BY <3>1, CompilerKnown DEF DriverInv
    <3> QED
      BY <1>0, <2>2, <3>1, <3>2, <3>3, OutputStep DEF Goes
  <2> QED
    BY <2>1, <2>3, <2>4
<1> QED
  BY <1>1, <1>2

LEMMA ReopenTempStep ==
    ASSUME DriverInv, NEW p \in Compilers, ReopenTemp(p)
    PROVE  DriverInv'
<1>1. CASE run[p].temp \notin DOMAIN fs
  BY <1>1, ExitStep DEF ReopenTemp, EX_NOINPUT
<1>2. CASE run[p].temp \in DOMAIN fs
  <2> DEFINE in == fs[run[p].temp]
             r == [run[p] EXCEPT !.pc = "copy", !.reading = in]
  <2>1. in \in Seq(Units)
    BY <1>2, CompilerKnown DEF Files
  <2>2. /\ run[p].pc = "reopen" /\ fs' = fs /\ command' = command
        /\ run' = [run EXCEPT ![p].pc = "copy", ![p].reading = in]
    BY <1>2 DEF ReopenTemp, At
  <2> HIDE DEF in
  <2>3. Moves(p, r)
    BY <2>2, CompilerKnown DEF Moves, TypeOK
  <2>4. Goes(p, "copy", r)
    <3>1. run[p] \in CompilerType(p)
      BY CompilerKnown
    <3>2. r \in CompilerType(p)
      BY <3>1, <2>1, ZenonT(40) DEF CompilerType, Places
    <3> QED
      BY <3>1, <3>2, <2>1 DEF Goes, CompilerType, Places
  <2> HIDE DEF r
  <2> QED
    BY <2>2, <2>3, <2>4, QuietGo
<1> QED
  BY <1>1, <1>2

LEMMA EndOfSourceStep ==
    ASSUME DriverInv, NEW p \in Compilers, EndOfSource(p)
    PROVE  DriverInv'
<1>1. run[p].pc = "the_end" /\ Go(p, "return") /\ fs' = fs /\ command' = command
  BY DEF EndOfSource, At
<1>2. PICK r : Moves(p, r) /\ Goes(p, "return", r)
  BY <1>1, GoMoves, CompilerKnown DEF Places
<1> QED
  BY <1>1, <1>2, QuietGo

\* A step that leaves the compilers and the files alone.
LEMMA StutterStep ==
    ASSUME DriverInv, run' = run, fs' = fs, command'.kind = command.kind, command'.full \in BOOLEAN,
           command' = [kind |-> command'.kind, full |-> command'.full]
    PROVE  DriverInv'
<1>1. Temps' = Temps /\ \A p : CompilerType(p)' = CompilerType(p)
  BY KindKept
<1>2. TypeOK'
  <2>1. \A p \in Compilers : run'[p] \in CompilerType(p)'
    BY <1>1 DEF DriverInv, TypeOK
  <2> QED
    BY <2>1 DEF DriverInv, TypeOK
<1> QED
  BY <1>1, <1>2 DEF DriverInv, TempsOwned, SourcePreserved

LEMMA DiskFullStep ==
    DriverInv /\ DiskFull => DriverInv'
<1> SUFFICES ASSUME DriverInv, DiskFull PROVE DriverInv'
  OBVIOUS
<1>1. command = [kind |-> command.kind, full |-> command.full]
  BY DEF DriverInv, TypeOK
<1>2. command' = [command EXCEPT !.full = TRUE] /\ run' = run /\ fs' = fs
  BY DEF DiskFull
<1>3. command' = [kind |-> command.kind, full |-> TRUE]
  BY <1>1, <1>2
<1> QED
  BY <1>2, <1>3, StutterStep

-----------------------------------------------------------------------------
(* The theorems                                                            *)

LEMMA InitInv == Init => DriverInv
<1> SUFFICES ASSUME Init PROVE DriverInv
  OBVIOUS
<1>0. PICK k \in Commands :
          \E src \in [k.procs -> k.directories \X k.extensions], there \in SUBSET k.procs :
              Starts(k, src, there)
  BY DEF Init
<1>1. PICK src \in [k.procs -> k.directories \X k.extensions], there \in SUBSET k.procs :
          Starts(k, src, there)
  BY <1>0
<1> DEFINE source(p) == IF p \in k.procs THEN <<src[p][1], p, src[p][2]>> ELSE NoPath
<1>2. /\ command.kind = k /\ command.full = FALSE
      /\ command = [kind |-> command.kind, full |-> command.full]
      /\ k.procs \subseteq Compilers
  BY <1>1, CommandsAssumption DEF Starts
<1>3. /\ DOMAIN run = Compilers
      /\ \A p \in Compilers :
             run[p] = [pc |-> IF p \in k.procs THEN "options" ELSE "exited", source |-> source(p),
                given |-> {}, lang |-> NoLanguage, x |-> NoLanguage,
                dec |-> NoPath, def |-> NoPath, target |-> NoPath, name |-> NoPath, temp |-> NoPath,
                code |-> 0, reading |-> <<>>, tail |-> 0, errors |-> 0, status |-> Running]
  BY <1>1 DEF Starts
<1>4. fs = [q \in {source(p) : p \in there} \cup {stdout(p) : p \in k.procs} |->
                    IF q[1] = "stdout" THEN <<>> ELSE <<Section("source")>>]
  BY <1>1 DEF Starts
<1>5. \A p \in k.procs : source(p) \in SourcesOf(p)
  BY <1>2 DEF SourcesOf
<1>6. \A p \in Compilers : p \notin k.procs => source(p) = NoPath
  OBVIOUS
<1> HIDE DEF source
<1>7. Running \in Int /\ <<>> \in Seq(Units)
  BY DEF Running
<1>8. ASSUME NEW p \in Compilers PROVE run[p] \in CompilerType(p)
  <2> DEFINE place == IF p \in k.procs THEN "options" ELSE "exited"
             s == source(p)
  <2>1. place \in Places
    BY DEF Places
  <2>2. s \in SourcesOf(p) \cup {NoPath}
    BY <1>5, <1>6
  <2>3. run[p] = [pc |-> place, source |-> s,
                given |-> {}, lang |-> NoLanguage, x |-> NoLanguage,
                dec |-> NoPath, def |-> NoPath, target |-> NoPath, name |-> NoPath, temp |-> NoPath,
                code |-> 0, reading |-> <<>>, tail |-> 0, errors |-> 0, status |-> Running]
    BY <1>3
  <2> HIDE DEF place, s
  <2>4. {} \in SUBSET Letters /\ 0 \in Nat
    OBVIOUS
  <2> HIDE DEF source
  <2> QED
    BY <1>7, <2>1, <2>2, <2>3, <2>4 DEF CompilerType
<1>9. fs \in [DOMAIN fs -> Seq(Units)]
  <2>1. <<Section("source")>> \in Seq(Units)
    BY SectionUnits DEF SectionNames
  <2> QED
    BY <1>4, <1>7, <2>1
<1>10. TypeOK
  BY <1>2, <1>3, <1>8, <1>9 DEF TypeOK
<1>11. \A q \in DOMAIN fs : (\E p \in k.procs : q \in SourcesOf(p) \/ q \in OutputsOf(p))
  BY <1>4, <1>5 DEF OutputsOf
<1>12. NoPath \notin DOMAIN fs /\ \A q \in Temps : q \notin DOMAIN fs
  BY <1>2, <1>10, <1>11, PathsApart
<1>13. \A p \in Compilers : NoPath \notin SourcesOf(p)
  BY <1>10, PathsApart
<1>14. \A p \in Compilers : PathsKnown(run[p])
  BY <1>3, <1>5, <1>13 DEF PathsKnown
<1>15. \A p \in Compilers : LanguageKnown(run[p])
  BY <1>3 DEF LanguageKnown
<1>16. SourcePreserved
  <2> SUFFICES ASSUME NEW p \in Compilers, run[p].source \in DOMAIN fs
               PROVE  fs[run[p].source] = <<Section("source")>>
    BY DEF SourcePreserved
  <2>1. run[p].source = source(p) /\ source(p) # NoPath /\ source(p) \in SourcesOf(p)
    BY <1>3, <1>5, <1>6, <1>12
  <2>2. \A x \in SourcesOf(p) : x[1] # "stdout"
    <3>1. \A d \in command.kind.directories : d # "stdout"
      BY <1>2, CommandsAssumption
    <3> QED
      BY <3>1 DEF SourcesOf
  <2> QED
    BY <1>4, <2>1, <2>2
<1> QED
  BY <1>10, <1>12, <1>14, <1>15, <1>16 DEF DriverInv, TempsOwned

LEMMA NextInv == DriverInv /\ [Next]_vars => DriverInv'
<1> SUFFICES ASSUME DriverInv, [Next]_vars PROVE DriverInv'
  OBVIOUS
<1>1. ASSUME NEW p \in Compilers, Step(p) PROVE DriverInv'
  BY <1>1, CheckOptionsStep, ChooseFilesStep, OpenSourceStep, OpenTargetStep, OpenFailsStep,
     MakeTempNameStep, OpenTempStep, EchoDeclarationsStep, EndDescriptionStep,
     EmitDeclarationStep, EmitDefinitionStep, ReopenTempStep, CopyBlockStep, EmitTheEndStep,
     EndOfSourceStep, ReturnStep DEF Step
<1>2. ASSUME NEW p \in Compilers, Input(p) PROVE DriverInv'
  BY <1>2, GiveOptionStep, UsageStep, EchoUserCodeStep, ReportErrorStep, SyntaxErrorStep,
     EchoDoneStep DEF Input
<1>3. CASE UNCHANGED vars
  BY <1>3, StutterStep DEF vars, DriverInv, TypeOK
<1>4. Next => (\E p \in Compilers : Step(p) \/ Input(p)) \/ DiskFull \/ UNCHANGED vars
  BY DEF Next, Exited
<1> QED
  BY <1>1, <1>2, <1>3, <1>4, DiskFullStep

\* Whatever the compilers that run at once do, every temporary file is one's that has not
\* ended, no source has been written to, and the options that set the language agree.
THEOREM DriverInvariant == Spec => []DriverInv
<1> QED
  BY InitInv, NextInv, PTL DEF Spec

\* However the compilers end, by whichever exit() or by returning from main(), no temporary
\* file is left and no source is spoiled.
THEOREM FilesStayTidy == Spec => []FilesTidy
<1>1. DriverInv => FilesTidy
  <2> SUFFICES ASSUME DriverInv PROVE FilesTidy
    OBVIOUS
  <2>1. TempRemoved
    <3> SUFFICES ASSUME \A p \in Compilers : At(p, "exited"), NEW t \in command.kind.temps,
                        temp_path(t) \in DOMAIN fs
                 PROVE  FALSE
      BY DEF TempRemoved
    <3>1. temp_path(t) \in Temps
      BY DEF Temps
    <3>2. PICK p \in Compilers : run[p].temp = temp_path(t)
      BY <3>1 DEF DriverInv, TempsOwned
    <3>3. run[p].temp = NoPath
      BY CompilerKnown DEF At, PathsKnown
    <3> QED
      BY <3>1, <3>2, <3>3, CompilerKnown, PathsApart
  <2> QED
    BY <2>1 DEF FilesTidy, DriverInv
<1> QED
  BY <1>1, DriverInvariant, PTL

\* The language of the output is the one every option implies, in whatever order they came.
THEOREM LanguageStaysAsGiven == Spec => []LanguageAsGiven
<1>1. DriverInv => LanguageAsGiven
  <2> SUFFICES ASSUME DriverInv, NEW p \in Compilers, run[p].target # NoPath
               PROVE  /\ run[p].given \cap {"c", "h"} # {} => run[p].lang = "cpp"
                      /\ "j" \in run[p].given => run[p].lang = "java"
                      /\ "x" \in run[p].given => run[p].lang = run[p].x
    BY DEF LanguageAsGiven
  <2>1. LanguageKnown(run[p])
    BY DEF DriverInv
  <2> QED
    BY <2>1 DEF LanguageKnown, OptionsAgree, check_mutually_exclusive
<1> QED
  BY <1>1, DriverInvariant, PTL

-----------------------------------------------------------------------------
(* How far the output of each compiler is                                  *)

\* No compiler writes to another's output.
LEMMA OutputsApart ==
    ASSUME NEW p, NEW q, p # q
    PROVE  OutputsOf(p) \cap OutputsOf(q) = {}
<1>1. ASSUME NEW r PROVE \A x \in OutputsOf(r) : x[2] = r
  <2>1. \A x \in {stdout(r)} : x[2] = r
    BY DEF stdout
  <2>2. \A x \in {optarg(r, o) : o \in Letters} : x[2] = r
    BY DEF optarg
  <2>3. \A x \in {<<d, r, e>> : d \in command.kind.directories, e \in Generated} : x[2] = r
    OBVIOUS
  <2> QED
    BY <2>1, <2>2, <2>3 DEF OutputsOf
<1> QED
  BY <1>1

Outputs == \A q \in Compilers : OutputInv(q)

\* Compiler p goes on as r, having touched its own files in Q only, and its output is as
\* far as r says.
Continues(p, r, Q) ==
    /\ command' = command /\ Moves(p, r) /\ r \in CompilerType(p)
    /\ Elsewhere(Q, fs, fs') /\ Q \subseteq OutputsOf(p) \cup {NoPath, run[p].temp, r.temp}
    /\ r.name = run[p].name \/ run[p].name = NoPath
    /\ FilesChosen(p, r) /\ TempChosen(r)
    /\ Stage(r) \in BeforeTarget => stdout(p) \in DOMAIN fs' /\ fs'[stdout(p)] = <<>>
    /\ ~full /\ r.errors = 0 =>
          /\ Output(r, fs')
          /\ Alone(p) \/ r.name # run[p].name => Copied(r, fs', UnitsOf(p, r.code))

\* Output and Copied only look at files of the compiler.
LEMMA OutputStays ==
    ASSUME NEW r, NEW f, NEW g, NEW code, NEW X,
           \A x \in X : x \in DOMAIN f => x \in DOMAIN g /\ g[x] = f[x],
           r.target \in X, r.dec \in X
    PROVE  /\ Output(r, f) => Output(r, g)
           /\ (r.temp \in X \/ Stage(r) \notin InDescription \cup {"definition", "reopen"})
                 /\ Output(r, f) /\ Copied(r, f, code) => Copied(r, g, code)
<1>1. Output(r, f) => Output(r, g)
  BY DEF Output, BeforeTarget, BeforeFiles, InDefinition
<1>2. ASSUME r.temp \in X \/ Stage(r) \notin InDescription \cup {"definition", "reopen"}, Output(r, f), Copied(r, f, code)
      PROVE  Copied(r, g, code)
  <2>1. Stage(r) \in InDescription \cup {"definition", "reopen"} => r.temp \in DOMAIN g /\ g[r.temp] = code
    BY <1>2 DEF Copied
  <2>2. Stage(r) \in {"copy", "end", "the_end", "return"} => g[r.target] = f[r.target]
    BY <1>2 DEF Output, BeforeTarget, BeforeFiles
  <2> QED
    BY <1>2, <2>1, <2>2 DEF Copied
<1> QED
  BY <1>1, <1>2

LEMMA ContinuesKeeps ==
    ASSUME DriverInv, Outputs, NEW p \in Compilers, NEW r, NEW Q, Continues(p, r, Q)
    PROVE  Outputs'
<1>1. ASSUME NEW q \in Compilers PROVE UserCode(q)' = UnitsOf(q, run'[q].code)
  BY DEF UserCode, UnitsOf
<1>2. full' = full /\ run'[p] = r /\ \A q \in Compilers \ {p} : run'[q] = run[q]
  BY DEF Continues, Moves, full
<1>3. OutputInv(p)'
  <2>1. Alone(p)' => Alone(p) \/ r.name # run[p].name
    BY <1>2 DEF Alone
  <2> QED
    BY <1>1, <1>2, <2>1 DEF OutputInv, Continues
<1>4. ASSUME NEW q \in Compilers \ {p} PROVE OutputInv(q)'
  <2> DEFINE s == run[q]
  <2>1. run'[q] = s /\ OutputInv(q)
    BY <1>2 DEF Outputs
  <2>2. /\ TypeOK /\ run[q] \in CompilerType(q) /\ s.target \in OutputsOf(q) \cup {NoPath}
        /\ s.dec \in OutputsOf(q) \cup {NoPath} /\ NoPath \notin DOMAIN fs
        /\ s.temp \in Temps \cup {NoPath}
    <3>1. run[q] \in CompilerType(q)
      BY CompilerKnown
    <3> QED
      BY <3>1, CompilerKnown DEF CompilerType, DriverInv
  <2>3. /\ run[p].temp \in Temps \cup {NoPath}
        /\ run[p].temp \in {NoPath, run[p].name} /\ r.temp \in {NoPath, r.name}
        /\ r.name = run[p].name \/ run[p].name = NoPath
    BY CompilerKnown DEF Outputs, OutputInv, TempChosen, Continues
  <2>4. r.temp \in Temps \cup {NoPath}
    BY DEF Continues, CompilerType
  <2>5. ASSUME NEW x \in OutputsOf(q) \cup {NoPath}, x \in DOMAIN fs
        PROVE  x \in DOMAIN fs' /\ fs'[x] = fs[x]
    <3>1. x \in OutputsOf(q) /\ x # NoPath
      BY <2>2, <2>5
    <3>2. x \notin Q
      BY <2>2, <2>3, <2>4, <3>1, OutputsApart, PathsApart DEF Continues
    <3> QED
      BY <2>5, <3>2 DEF Continues, Elsewhere
  <2>6. ASSUME Alone(q)', s.name # NoPath
        PROVE  Alone(q) /\ s.name \notin {run[p].temp, r.temp, NoPath}
    <3>1. r.name # s.name /\ \A t \in Compilers \ {q} : run'[t].name # s.name
      BY <1>2, <2>1, <2>6 DEF Alone
    <3>2. run[p].name # s.name
      BY <2>3, <2>6, <3>1
    <3>3. \A t \in Compilers \ {q} : run[t].name # s.name
      BY <1>2, <3>1, <3>2
    <3> QED
      BY <2>3, <2>6, <3>1, <3>2, <3>3 DEF Alone
  <2>7. ASSUME s.temp \in DOMAIN fs, s.temp \notin {run[p].temp, r.temp, NoPath}
        PROVE  s.temp \in DOMAIN fs' /\ fs'[s.temp] = fs[s.temp]
    <3>1. s.temp \notin Q
      BY <2>2, <2>7, PathsApart DEF Continues
    <3> QED
      BY <2>7, <3>1 DEF Continues, Elsewhere
  <2>8. FilesChosen(q, s) /\ TempChosen(s)
    BY <2>1 DEF OutputInv
  <2>9. stdout(q) \in DOMAIN fs => stdout(q) \in DOMAIN fs' /\ fs'[stdout(q)] = fs[stdout(q)]
    <3>1. stdout(q) \in OutputsOf(q)
      BY DEF OutputsOf
    <3> QED
      BY <2>5, <3>1
  <2>10. Stage(s) \in BeforeTarget => stdout(q) \in DOMAIN fs' /\ fs'[stdout(q)] = <<>>
    BY <2>1, <2>9 DEF OutputInv
  <2>11. ASSUME ~full, s.errors = 0
         PROVE  Output(s, fs') /\ (Alone(q)' => Copied(s, fs', UserCode(q)))
    <3>1. Output(s, fs) /\ (Alone(q) => Copied(s, fs, UserCode(q)))
      BY <2>1, <2>11 DEF OutputInv
    <3> DEFINE X == OutputsOf(q) \cup {NoPath}
    <3>2. Output(s, fs')
      BY <2>2, <2>5, <3>1, OutputStays
    <3>3. ASSUME Alone(q)' PROVE Copied(s, fs', UserCode(q))
      <4>1. CASE Stage(s) \in InDescription \cup {"definition", "reopen"}
        <5>1. s.name # NoPath
          BY <2>8, <4>1 DEF TempChosen, InDefinition
        <5>2. s.temp = s.name
          BY <2>8, <4>1 DEF TempChosen, InDefinition, InDescription, Stage
        <5>3. Copied(s, fs, UserCode(q))
          BY <2>6, <3>1, <3>3, <5>1
        <5>4. s.temp \in DOMAIN fs /\ fs[s.temp] = UserCode(q)
          BY <4>1, <5>3 DEF Copied
        <5>5. s.temp \in DOMAIN fs' /\ fs'[s.temp] = UserCode(q)
          BY <2>6, <2>7, <3>3, <5>1, <5>2, <5>4
        <5> QED
          BY <4>1, <5>5 DEF Copied, InDescription
      <4>2. CASE Stage(s) \in {"copy", "end", "the_end", "return"}
        <5>1. s.name # NoPath
          BY <2>8, <4>2 DEF TempChosen, InDefinition
        <5>2. Copied(s, fs, UserCode(q))
          BY <2>6, <3>1, <3>3, <5>1
        <5>3. Stage(s) \notin InDescription \cup {"definition", "reopen"}
          BY <4>2 DEF InDescription
        <5> QED
          BY <2>2, <2>5, <3>1, <5>2, <5>3, OutputStays
      <4>3. CASE /\ Stage(s) \notin {"copy", "end", "the_end", "return"}
                 /\ Stage(s) \notin InDescription \cup {"definition", "reopen"}
        BY <4>3 DEF Copied
      <4> QED
        BY <4>1, <4>2, <4>3
    <3> QED
      BY <3>2, <3>3
  <2>12. UserCode(q)' = UserCode(q)
    BY <2>1 DEF UserCode, UnitsOf
  <2> QED
    BY <1>2, <2>1, <2>8, <2>10, <2>11, <2>12 DEF OutputInv
<1> QED
  BY <1>3, <1>4 DEF Outputs

-----------------------------------------------------------------------------
(* The steps that leave the contents of the output alone                   *)

USE DEF BeforeFiles, BeforeTarget, BeforeTemp, InDescription, InDefinition

\* What a compiler counts and copies is as before.
SameCounts(p, r) ==
    /\ r.code = run[p].code /\ r.reading = run[p].reading /\ r.tail = run[p].tail
    /\ r.errors = run[p].errors /\ r.status = run[p].status

LEMMA GoKeepsCounts ==
    ASSUME TypeOK, NEW p \in Compilers, NEW place \in Places, Go(p, place)
    PROVE  \E r : Moves(p, r) /\ Goes(p, place, r) /\ SameCounts(p, r)
<1> DEFINE r == [run[p] EXCEPT !.pc = place]
<1>1. Moves(p, r)
  BY DEF Moves, Go, TypeOK
<1>2. run[p] \in CompilerType(p)
  BY DEF TypeOK
<1>3. Goes(p, place, r) /\ SameCounts(p, r)
  BY <1>2 DEF Goes, CompilerType, SameCounts
<1> QED
  BY <1>1, <1>3

LEMMA StageRunning ==
    ASSUME NEW r, r.pc # "exited"
    PROVE  Stage(r) = r.pc
  BY DEF Stage

\* exit() with an error, or for -v.
LEMMA FailedExitOutputs ==
    ASSUME DriverInv, Outputs, NEW p \in Compilers, NEW s \in Int, Exit(p, s), command' = command,
           s # EX_OK \/ "v" \in run[p].given
    PROVE  Outputs'
<1> DEFINE r == [run[p] EXCEPT !.pc = "exited", !.status = s, !.temp = NoPath]
           t == run[p].temp
<1>1. Moves(p, r)
  BY CompilerKnown DEF Moves, Exit, Ended, TypeOK
<1>2. /\ r \in CompilerType(p) /\ r.pc = "exited" /\ r.temp = NoPath /\ r.name = run[p].name
      /\ r.given = run[p].given /\ r.status = s
  <2>1. run[p] \in CompilerType(p)
    BY CompilerKnown
  <2>2. r \in CompilerType(p)
    BY <2>1, ZenonT(40) DEF CompilerType, Places
  <2> QED
    BY <2>1, <2>2 DEF CompilerType, Places
<1> HIDE DEF r
<1>3. Stage(r) = "exited"
  BY <1>2 DEF Stage, Compiled
<1>4. FilesChosen(p, r) /\ TempChosen(r)
  BY <1>2, <1>3 DEF FilesChosen, TempChosen
<1>5. Output(r, fs') /\ Copied(r, fs', UnitsOf(p, r.code))
  BY <1>3 DEF Output, Copied
<1>6. Elsewhere({t}, fs, fs')
  BY CompilerKnown, UnlinkFiles DEF Exit
<1>7. Continues(p, r, {t})
  BY <1>1, <1>2, <1>3, <1>4, <1>5, <1>6 DEF Continues
<1> QED
  BY <1>7, ContinuesKeeps

LEMMA GiveOptionOutputs ==
    ASSUME DriverInv, Outputs, NEW p \in Compilers, GiveOption(p)
    PROVE  Outputs'
<1>1. PICK o \in command.kind.options, x \in {"cpp", "java"} :
          run' = [run EXCEPT
                  ![p].given = @ \cup {o},
                  ![p].lang = Language(run[p], o, x),
                  ![p].x = IF o = "x" THEN x ELSE @,
                  ![p].dec = IF o \in {"d", "h", "j"} THEN optarg(p, o) ELSE @,
                  ![p].def = IF o \in {"D", "c", "j"} THEN optarg(p, o) ELSE @]
  BY DEF GiveOption
<1> DEFINE lang == Language(run[p], o, x)
           given == run[p].given \cup {o}
           arg == IF o = "x" THEN x ELSE run[p].x
           dec == IF o \in {"d", "h", "j"} THEN optarg(p, o) ELSE run[p].dec
           def == IF o \in {"D", "c", "j"} THEN optarg(p, o) ELSE run[p].def
           r == [run[p] EXCEPT !.given = given, !.lang = lang, !.x = arg, !.dec = dec, !.def = def]
<1>2. Moves(p, r)
  BY <1>1, CompilerKnown DEF Moves, TypeOK
<1>3. o \in Letters
  BY CompilerKnown, CommandsAssumption DEF TypeOK
<1>4. optarg(p, o) \in OutputsOf(p) /\ optarg(p, o) # stdout(p)
  BY <1>3 DEF OutputsOf, optarg, stdout
<1>5. /\ lang \in {NoLanguage, "cpp", "java"} /\ arg \in {NoLanguage, "cpp", "java"}
      /\ given \in SUBSET Letters
      /\ dec \in OutputsOf(p) \cup {NoPath} /\ def \in OutputsOf(p) \cup {NoPath}
  <2>1. /\ run[p].lang \in {NoLanguage, "cpp", "java"} /\ run[p].x \in {NoLanguage, "cpp", "java"}
        /\ run[p].given \in SUBSET Letters
        /\ run[p].dec \in OutputsOf(p) \cup {NoPath} /\ run[p].def \in OutputsOf(p) \cup {NoPath}
    BY CompilerKnown DEF CompilerType
  <2> QED
    BY <1>3, <1>4, <2>1 DEF Language
<1> HIDE DEF lang, given, arg, dec, def
<1>6. /\ r \in CompilerType(p) /\ r.pc = run[p].pc /\ r.given = given
      /\ r.dec = dec /\ r.def = def /\ r.name = run[p].name /\ r.temp = run[p].temp
      /\ r.code = run[p].code /\ r.tail = run[p].tail /\ r.status = run[p].status
  <2>1. run[p] \in CompilerType(p)
    BY CompilerKnown
  <2>2. r \in CompilerType(p)
    BY <2>1, <1>5, ZenonT(40) DEF CompilerType
  <2> QED
    BY <2>1, <2>2, <1>5 DEF CompilerType
<1> HIDE DEF r
<1>7. run[p].pc = "options" /\ command' = command /\ fs' = fs
  BY DEF GiveOption, At
<1>8. Stage(r) = "options" /\ Stage(run[p]) = "options"
  BY <1>6, <1>7, StageRunning
<1>9. OutputInv(p)
  BY DEF Outputs
<1>10. FilesChosen(p, r)
  <2>1. FilesChosen(p, run[p])
    BY <1>9 DEF OutputInv
  <2>2. r.dec # stdout(p) /\ r.def # stdout(p)
    BY <1>4, <1>6, <1>8, <2>1 DEF FilesChosen, dec, def
  <2>3. ASSUME "j" \notin r.given
        PROVE  /\ r.dec \in {NoPath, optarg(p, "d"), optarg(p, "h")}
               /\ r.def \in {NoPath, optarg(p, "D"), optarg(p, "c")}
    BY <1>6, <1>8, <2>1, <2>3 DEF FilesChosen, dec, def, given
  <2> QED
    BY <1>8, <2>2, <2>3 DEF FilesChosen
<1>11. TempChosen(r)
  BY <1>6, <1>7, <1>8, <1>9 DEF OutputInv, TempChosen
<1>12. Output(r, fs') /\ Copied(r, fs', UnitsOf(p, r.code))
  BY <1>8 DEF Output, Copied
<1>13. stdout(p) \in DOMAIN fs' /\ fs'[stdout(p)] = <<>>
  BY <1>7, <1>8, <1>9 DEF OutputInv
<1>14. Continues(p, r, {})
  BY <1>2, <1>6, <1>7, <1>10, <1>11, <1>12, <1>13 DEF Continues, Elsewhere
<1> QED
  BY <1>14, ContinuesKeeps

\* A compiler that goes to a place before its target is opened.
LEMMA EarlyGo ==
    ASSUME DriverInv, Outputs, NEW p \in Compilers, NEW r, NEW place,
           Moves(p, r), Goes(p, place, r), SameCounts(p, r),
           fs' = fs, command' = command,
           \/ run[p].pc = "options" /\ place = "main"
           \/ run[p].pc = "source" /\ place = "target"
    PROVE  Outputs'
<1>1. Stage(r) = place /\ Stage(run[p]) = run[p].pc
  BY StageRunning DEF Goes
<1>2. OutputInv(p)
  BY DEF Outputs
<1>3. FilesChosen(p, r)
  BY <1>1, <1>2 DEF OutputInv, FilesChosen, Goes, codegen_only, TwoFiles
<1>4. TempChosen(r)
  BY <1>1, <1>2 DEF OutputInv, TempChosen, Goes, SameCounts
<1>5. Output(r, fs') /\ Copied(r, fs', UnitsOf(p, r.code))
  BY <1>1 DEF Output, Copied
<1>6. stdout(p) \in DOMAIN fs' /\ fs'[stdout(p)] = <<>>
  BY <1>1, <1>2 DEF OutputInv
<1>7. Continues(p, r, {})
  BY <1>3, <1>4, <1>5, <1>6 DEF Continues, Elsewhere, Goes
<1> QED
  BY <1>7, ContinuesKeeps

LEMMA CheckOptionsOutputs ==
    ASSUME DriverInv, Outputs, NEW p \in Compilers, CheckOptions(p)
    PROVE  Outputs'
<1>1. CASE ~OptionsAgree(run[p].given)
  BY <1>1, FailedExitOutputs DEF CheckOptions, EX_USAGE, EX_OK
<1>2. CASE OptionsAgree(run[p].given) /\ "v" \in run[p].given
  BY <1>2, FailedExitOutputs DEF CheckOptions, EX_OK
<1>3. CASE OptionsAgree(run[p].given) /\ "v" \notin run[p].given
  <2>1. Go(p, "main") /\ fs' = fs /\ command' = command /\ run[p].pc = "options"
    BY <1>3 DEF CheckOptions, At
  <2>2. PICK r : Moves(p, r) /\ Goes(p, "main", r) /\ SameCounts(p, r)
    BY <2>1, GoKeepsCounts, CompilerKnown DEF Places
  <2> QED
    BY <2>1, <2>2, EarlyGo
<1> QED
  BY <1>1, <1>2, <1>3

LEMMA OpenSourceOutputs ==
    ASSUME DriverInv, Outputs, NEW p \in Compilers, OpenSource(p)
    PROVE  Outputs'
<1>1. CASE run[p].source \notin DOMAIN fs
  BY <1>1, FailedExitOutputs DEF OpenSource, EX_NOINPUT, EX_OK
<1>2. CASE run[p].source \in DOMAIN fs
  <2>1. Go(p, "target") /\ fs' = fs /\ command' = command /\ run[p].pc = "source"
    BY <1>2 DEF OpenSource, At
  <2>2. PICK r : Moves(p, r) /\ Goes(p, "target", r) /\ SameCounts(p, r)
    BY <2>1, GoKeepsCounts, CompilerKnown DEF Places
  <2> QED
    BY <2>1, <2>2, EarlyGo
<1> QED
  BY <1>1, <1>2

LEMMA ChooseFilesOutputs ==
    ASSUME DriverInv, Outputs, NEW p \in Compilers, ChooseFiles(p)
    PROVE  Outputs'
<1> DEFINE r == run[p]
           lang == IF r.lang = NoLanguage THEN map_ext_to_lang(r.source[3]) ELSE r.lang
           exts == get_filename_exts(lang)
           dec == IF codegen_only(r) THEN stdout(p)
                  ELSE IF r.dec = NoPath THEN replace_extension(r.source, exts[1]) ELSE r.dec
           def == IF codegen_only(r) THEN stdout(p)
                  ELSE IF r.def = NoPath THEN replace_extension(r.source, exts[2]) ELSE r.def
           w == [run[p] EXCEPT !.pc = "source", !.lang = lang, !.dec = dec, !.def = def]
<1>0. r.pc = "main" /\ command' = command
  BY DEF ChooseFiles, At
<1>1. CASE lang = NoLanguage
  BY <1>1, FailedExitOutputs DEF ChooseFiles, EX_DATAERR, EX_OK
<1>2. CASE lang # NoLanguage
  <2>1. fs' = fs /\ run' = [run EXCEPT ![p].pc = "source", ![p].lang = lang,
                                       ![p].dec = dec, ![p].def = def]
    BY <1>2 DEF ChooseFiles
  <2>2. lang \in {NoLanguage, "cpp", "java"}
    BY CompilerKnown DEF map_ext_to_lang, CompilerType
  <2>3. /\ exts[1] \in Generated /\ exts[2] \in Generated
        /\ lang = "cpp" => exts[1] = "h" /\ exts[2] = "cpp"
    BY DEF get_filename_exts, Generated
  <2>4. ASSUME NEW e \in Generated
        PROVE  LET x == replace_extension(r.source, e)
               IN  x \in OutputsOf(p) /\ x # stdout(p) /\ x[3] = e
    <3>1. r.source \in SourcesOf(p)
      BY <1>0, CompilerKnown DEF PathsKnown, CompilerType
    <3>2. PICK d \in command.kind.directories, x \in command.kind.extensions : r.source = <<d, p, x>>
      BY <3>1 DEF SourcesOf
    <3>3. replace_extension(<<d, p, x>>, e) = <<d, p, e>>
      BY DEF replace_extension
    <3>4. d # "stdout"
      BY CompilerKnown, CommandsAssumption DEF TypeOK
    <3>5. <<d, p, e>> # stdout(p) /\ <<d, p, e>>[3] = e
      BY <3>4 DEF stdout
    <3>6. <<d, p, e>> \in OutputsOf(p)
      BY DEF OutputsOf
    <3> QED
      BY <3>2, <3>3, <3>5, <3>6
  <2>5. stdout(p) \in OutputsOf(p)
    BY DEF OutputsOf
  <2>6. r.dec \in OutputsOf(p) \cup {NoPath} /\ r.def \in OutputsOf(p) \cup {NoPath}
    BY CompilerKnown DEF CompilerType
  <2>7. OutputInv(p) /\ Stage(r) = "main" /\ FilesChosen(p, r) /\ TempChosen(r)
    BY <1>0, StageRunning DEF Outputs, OutputInv
  <2>8. r.dec # stdout(p) /\ r.def # stdout(p)
    BY <2>7 DEF FilesChosen
  <2> HIDE DEF exts
  <2>9. /\ dec \in OutputsOf(p) /\ def \in OutputsOf(p)
        /\ codegen_only(r) => dec = stdout(p) /\ def = stdout(p)
        /\ ~codegen_only(r) => dec # stdout(p) /\ def # stdout(p)
    BY <2>3, <2>4, <2>5, <2>6, <2>8
  <2>10. ASSUME ~codegen_only(r), lang # "java" PROVE dec # def
    <3>1. lang = "cpp"
      BY <1>2, <2>2, <2>10
    <3>2. "j" \notin r.given
      <4>1. LanguageKnown(r) /\ OptionsAgree(r.given)
        BY <1>0, CompilerKnown DEF LanguageKnown
      <4>2. lang = r.lang \/ r.lang = NoLanguage
        OBVIOUS
      <4> QED
        BY <3>1, <4>1, <4>2 DEF LanguageKnown, OptionsAgree, check_mutually_exclusive, NoLanguage
    <3>3. /\ r.dec \in {NoPath, optarg(p, "d"), optarg(p, "h")}
          /\ r.def \in {NoPath, optarg(p, "D"), optarg(p, "c")}
      BY <2>7, <3>2 DEF FilesChosen
    <3>4. dec[3] \in {"d", "h"}
      <4>1. CASE r.dec = NoPath
        <5>1. dec = replace_extension(r.source, "h")
          BY <2>3, <2>10, <3>1, <4>1
        <5> QED
          BY <2>4, <5>1 DEF Generated
      <4>2. CASE r.dec # NoPath
        BY <2>10, <3>3, <4>2 DEF optarg
      <4> QED
        BY <4>1, <4>2
    <3>5. def[3] \in {"D", "c", "cpp"}
      <4>1. CASE r.def = NoPath
        <5>1. def = replace_extension(r.source, "cpp")
          BY <2>3, <2>10, <3>1, <4>1
        <5> QED
          BY <2>4, <5>1 DEF Generated
      <4>2. CASE r.def # NoPath
        BY <2>10, <3>3, <4>2 DEF optarg
      <4> QED
        BY <4>1, <4>2
    <3> HIDE DEF dec, def
    <3> QED
      BY <3>4, <3>5
  <2> HIDE DEF lang, dec, def
  <2>11. Moves(p, w)
    BY <2>1, CompilerKnown DEF Moves, TypeOK
  <2>12. /\ w \in CompilerType(p) /\ w.pc = "source" /\ w.given = r.given
         /\ w.lang = lang /\ w.dec = dec /\ w.def = def /\ w.name = r.name
         /\ w.temp = r.temp /\ w.code = r.code /\ w.tail = r.tail /\ w.status = r.status
    <3>1. r \in CompilerType(p)
      BY CompilerKnown
    <3>2. w \in CompilerType(p)
      BY <3>1, <2>2, <2>9, ZenonT(40) DEF CompilerType, Places
    <3> QED
      BY <3>1, <3>2, <2>2, <2>9 DEF CompilerType, Places
  <2> HIDE DEF w
  <2>13. Stage(w) = "source"
    BY <2>12, StageRunning
  <2>14. FilesChosen(p, w)
    BY <1>2, <2>9, <2>10, <2>12, <2>13 DEF FilesChosen, codegen_only, TwoFiles
  <2>15. TempChosen(w)
    BY <1>0, <2>7, <2>12, <2>13 DEF TempChosen
  <2>16. Output(w, fs') /\ Copied(w, fs', UnitsOf(p, w.code))
    BY <2>13 DEF Output, Copied
  <2>17. stdout(p) \in DOMAIN fs' /\ fs'[stdout(p)] = <<>>
    BY <2>1, <2>7 DEF OutputInv
  <2>18. Continues(p, w, {})
    BY <1>0, <2>1, <2>11, <2>12, <2>14, <2>15, <2>16, <2>17 DEF Continues, Elsewhere
  <2> QED
    BY <2>18, ContinuesKeeps
<1> QED
  BY <1>1, <1>2

\* A file that is opened for output is there and empty, stdout is as it was.
LEMMA OpenedFile ==
    ASSUME DriverInv, NEW p \in Compilers, NEW q \in OutputsOf(p), NEW place \in Places,
           OpenedAs(p, q, place)
    PROVE  /\ \E r : /\ Moves(p, r) /\ r \in CompilerType(p) /\ r.pc = place /\ r.target = q
                     /\ r.given = run[p].given /\ r.lang = run[p].lang /\ r.dec = run[p].dec
                     /\ r.def = run[p].def /\ r.name = run[p].name /\ r.temp = run[p].temp
                     /\ SameCounts(p, r)
           /\ Elsewhere({q}, fs, fs')
           /\ q = stdout(p) => fs' = fs
           /\ q # stdout(p) => q \in DOMAIN fs' /\ fs'[q] = <<>>
<1> DEFINE r == [run[p] EXCEPT !.pc = place, !.target = q]
<1>1. Moves(p, r)
  BY CompilerKnown DEF OpenedAs, Moves, TypeOK
<1>2. /\ r \in CompilerType(p) /\ r.pc = place /\ r.target = q
      /\ r.given = run[p].given /\ r.lang = run[p].lang
      /\ r.dec = run[p].dec /\ r.def = run[p].def /\ r.name = run[p].name /\ r.temp = run[p].temp
      /\ SameCounts(p, r)
  BY CompilerKnown DEF CompilerType, SameCounts
<1> HIDE DEF r
<1>3. Elsewhere({q}, fs, fs')
  BY CompilerKnown, CreateFiles DEF OpenedAs, Elsewhere
<1>4. /\ q = stdout(p) => fs' = fs
      /\ q # stdout(p) => q \in DOMAIN fs' /\ fs'[q] = <<>>
  BY DEF OpenedAs, Create
<1> QED
  BY <1>1, <1>2, <1>3, <1>4

LEMMA OpenTargetOutputs ==
    ASSUME DriverInv, Outputs, NEW p \in Compilers, OpenTarget(p)
    PROVE  Outputs'
<1> DEFINE q == run[p].dec
<1>0. "mktemp" \in Places
  BY DEF Places
<1>1. /\ run[p].pc = "target" /\ OpenedAs(p, q, "mktemp") /\ command' = command
      /\ q \in OutputsOf(p)
  BY CompilerKnown DEF OpenTarget, At, PathsKnown, CompilerType
<1>2. PICK r : /\ Moves(p, r) /\ r \in CompilerType(p) /\ r.pc = "mktemp" /\ r.target = q
               /\ r.given = run[p].given /\ r.lang = run[p].lang /\ r.dec = run[p].dec
               /\ r.def = run[p].def /\ r.name = run[p].name /\ r.temp = run[p].temp
               /\ SameCounts(p, r)
  BY <1>0, <1>1, OpenedFile
<1>3. /\ Elsewhere({q}, fs, fs')
      /\ q = stdout(p) => fs' = fs
      /\ q # stdout(p) => q \in DOMAIN fs' /\ fs'[q] = <<>>
  BY <1>0, <1>1, OpenedFile
<1>4. Stage(r) = "mktemp" /\ Stage(run[p]) = "target" /\ OutputInv(p)
  BY <1>1, <1>2, StageRunning DEF Outputs
<1>5. FilesChosen(p, r)
  BY <1>2, <1>4 DEF OutputInv, FilesChosen, codegen_only, TwoFiles
<1>6. TempChosen(r)
  BY <1>1, <1>2, <1>4 DEF OutputInv, TempChosen, SameCounts
<1>7. q \in DOMAIN fs' /\ fs'[q] = <<>>
  BY <1>3, <1>4 DEF OutputInv
<1>8. Output(r, fs') /\ Copied(r, fs', UnitsOf(p, r.code))
  BY <1>2, <1>4, <1>7 DEF Output, Copied
<1>9. Continues(p, r, {q})
  BY <1>1, <1>2, <1>3, <1>4, <1>5, <1>6, <1>8 DEF Continues
<1> QED
  BY <1>9, ContinuesKeeps

LEMMA SwitchTargetOutputs ==
    ASSUME DriverInv, Outputs, NEW p \in Compilers, SwitchTarget(p)
    PROVE  Outputs'
<1> DEFINE q == run[p].def
           d == run[p].dec
           t == run[p].temp
<1>0. "definition" \in Places
  BY DEF Places
<1>1. /\ run[p].pc = "switch" /\ OpenedAs(p, q, "definition") /\ command' = command
      /\ q \in OutputsOf(p)
  BY CompilerKnown DEF SwitchTarget, At, PathsKnown, CompilerType
<1>2. PICK r : /\ Moves(p, r) /\ r \in CompilerType(p) /\ r.pc = "definition" /\ r.target = q
               /\ r.given = run[p].given /\ r.lang = run[p].lang /\ r.dec = run[p].dec
               /\ r.def = run[p].def /\ r.name = run[p].name /\ r.temp = run[p].temp
               /\ SameCounts(p, r)
  BY <1>0, <1>1, OpenedFile
<1>3. /\ Elsewhere({q}, fs, fs')
      /\ q = stdout(p) => fs' = fs
      /\ q # stdout(p) => q \in DOMAIN fs' /\ fs'[q] = <<>>
  BY <1>0, <1>1, OpenedFile
<1>4. Stage(r) = "definition" /\ Stage(run[p]) = "switch" /\ OutputInv(p)
  BY <1>1, <1>2, StageRunning DEF Outputs
<1>5. FilesChosen(p, run[p]) /\ TempChosen(run[p])
  BY <1>4 DEF OutputInv
<1>6. /\ run[p].lang # "java" /\ ~codegen_only(run[p]) /\ q # stdout(p) /\ run[p].target = d
      /\ d # q /\ TwoFiles(r)
  BY <1>2, <1>4, <1>5 DEF FilesChosen, TwoFiles, codegen_only
<1>7. FilesChosen(p, r)
  BY <1>2, <1>4, <1>5, <1>6 DEF FilesChosen, codegen_only, TwoFiles, LastFile
<1>8. TempChosen(r)
  BY <1>1, <1>2, <1>4, <1>5 DEF TempChosen, SameCounts
<1>9. ASSUME ~full, r.errors = 0
      PROVE  /\ Output(r, fs')
             /\ Alone(p) => Copied(r, fs', UnitsOf(p, r.code))
  <2>1. d \in DOMAIN fs /\ fs[d] = Declared
    BY <1>2, <1>4, <1>6, <1>9 DEF OutputInv, Output, SameCounts
  <2>2. d \in DOMAIN fs' /\ fs'[d] = Declared
    BY <1>3, <1>6, <2>1 DEF Elsewhere
  <2>3. Output(r, fs')
    BY <1>2, <1>3, <1>4, <1>6, <2>2 DEF Output
  <2>4. ASSUME Alone(p) PROVE Copied(r, fs', UnitsOf(p, r.code))
    <3>1. t \in DOMAIN fs /\ fs[t] = UnitsOf(p, r.code)
      BY <1>2, <1>4, <1>9, <2>4 DEF OutputInv, Copied, SameCounts, UserCode
    <3>2. t # q
      BY <1>1, <3>1, CompilerKnown, PathsApart DEF DriverInv
    <3>3. t \in DOMAIN fs' /\ fs'[t] = UnitsOf(p, r.code)
      BY <1>3, <3>1, <3>2 DEF Elsewhere
    <3> QED
      BY <1>2, <1>4, <3>3 DEF Copied
  <2> QED
    BY <2>3, <2>4
<1>10. Continues(p, r, {q})
  BY <1>1, <1>2, <1>3, <1>4, <1>7, <1>8, <1>9 DEF Continues
<1> QED
  BY <1>10, ContinuesKeeps

LEMMA MakeTempNameOutputs ==
    ASSUME DriverInv, Outputs, NEW p \in Compilers, MakeTempName(p)
    PROVE  Outputs'
<1>1. PICK t \in command.kind.temps :
          run' = [run EXCEPT ![p].pc = "temp", ![p].name = temp_path(t)]
  BY DEF MakeTempName
<1> DEFINE n == temp_path(t)
           r == [run[p] EXCEPT !.pc = "temp", !.name = n]
<1>2. Moves(p, r)
  BY <1>1, CompilerKnown DEF Moves, TypeOK
<1>3. n \in Temps
  BY DEF Temps
<1> HIDE DEF n
<1>4. /\ r \in CompilerType(p) /\ r.pc = "temp" /\ r.name = n
      /\ r.given = run[p].given /\ r.lang = run[p].lang
      /\ r.dec = run[p].dec /\ r.def = run[p].def /\ r.temp = run[p].temp
      /\ r.target = run[p].target /\ SameCounts(p, r)
  <2>1. run[p] \in CompilerType(p)
    BY CompilerKnown
  <2>2. r \in CompilerType(p)
    BY <2>1, <1>3, ZenonT(40) DEF CompilerType, Places
  <2> QED
    BY <2>1, <2>2, <1>3 DEF CompilerType, Places, SameCounts
<1> HIDE DEF r
<1>5. run[p].pc = "mktemp" /\ fs' = fs /\ command' = command /\ run[p].temp = NoPath
  BY CompilerKnown DEF MakeTempName, At, PathsKnown
<1>6. Stage(r) = "temp" /\ Stage(run[p]) = "mktemp" /\ OutputInv(p)
  BY <1>4, <1>5, StageRunning DEF Outputs
<1>7. FilesChosen(p, r)
  BY <1>4, <1>6 DEF OutputInv, FilesChosen, codegen_only, TwoFiles
<1>8. TempChosen(r)
  BY <1>4, <1>5, <1>6 DEF OutputInv, TempChosen, SameCounts
<1>9. ~full /\ r.errors = 0 => Output(r, fs')
  BY <1>4, <1>5, <1>6 DEF OutputInv, Output, SameCounts
<1>10. Copied(r, fs', UnitsOf(p, r.code))
  BY <1>6 DEF Copied
<1>11. run[p].name = NoPath
  BY <1>6 DEF OutputInv, TempChosen
<1>12. Continues(p, r, {})
  BY <1>2, <1>4, <1>5, <1>6, <1>7, <1>8, <1>9, <1>10, <1>11 DEF Continues, Elsewhere
<1> QED
  BY <1>12, ContinuesKeeps

LEMMA OpenTempOutputs ==
    ASSUME DriverInv, Outputs, NEW p \in Compilers, OpenTemp(p)
    PROVE  Outputs'
<1> DEFINE n == run[p].name
           r == [run[p] EXCEPT !.pc = "declarations", !.temp = n]
<1>1. run[p].pc = "temp" /\ fs' = Create(n) /\ command' = command
  BY DEF OpenTemp, At
<1>2. Moves(p, r)
  BY CompilerKnown DEF OpenTemp, Moves, TypeOK
<1>3. n \in Temps /\ n # NoPath
  BY <1>1, CompilerKnown DEF PathsKnown, CompilerType
<1>4. /\ r \in CompilerType(p) /\ r.pc = "declarations" /\ r.name = n
      /\ r.given = run[p].given /\ r.lang = run[p].lang
      /\ r.dec = run[p].dec /\ r.def = run[p].def /\ r.temp = n
      /\ r.target = run[p].target /\ SameCounts(p, r)
  <2>1. run[p] \in CompilerType(p)
    BY CompilerKnown
  <2>2. r \in CompilerType(p)
    BY <2>1, ZenonT(40) DEF CompilerType, Places
  <2> QED
    BY <2>1, <2>2 DEF CompilerType, Places, SameCounts
<1> HIDE DEF r
<1>5. Stage(r) = "declarations" /\ Stage(run[p]) = "temp" /\ OutputInv(p)
  BY <1>1, <1>4, StageRunning DEF Outputs
<1>6. FilesChosen(p, r)
  BY <1>4, <1>5 DEF OutputInv, FilesChosen, codegen_only, TwoFiles
<1>7. TempChosen(r)
  BY <1>3, <1>4, <1>5, <1>1 DEF OutputInv, TempChosen, SameCounts
<1>8. Elsewhere({n}, fs, fs') /\ n \in DOMAIN fs' /\ fs'[n] = <<>>
  BY <1>1, CompilerKnown, CreateFiles DEF Create
<1>9. r.code = 0 /\ UnitsOf(p, r.code) = <<>>
  BY <1>5, <1>7 DEF TempChosen, UnitsOf
<1>10. Copied(r, fs', UnitsOf(p, r.code))
  BY <1>4, <1>5, <1>8, <1>9 DEF Copied
<1>11. run[p].target # n
  BY <1>3, CompilerKnown, PathsApart
<1>12. ~full /\ r.errors = 0 => Output(r, fs')
  BY <1>4, <1>5, <1>8, <1>11 DEF OutputInv, Output, SameCounts, Elsewhere
<1>13. Continues(p, r, {n})
  BY <1>1, <1>2, <1>4, <1>5, <1>6, <1>7, <1>8, <1>10, <1>12 DEF Continues
<1> QED
  BY <1>13, ContinuesKeeps

LEMMA OpenFailsOutputs ==
    ASSUME DriverInv, Outputs, NEW p \in Compilers, OpenFails(p) \/ Usage(p)
    PROVE  Outputs'
  BY FailedExitOutputs DEF OpenFails, Usage, EX_NOINPUT, EX_USAGE, EX_OK

-----------------------------------------------------------------------------
(* Writing to the target                                                   *)

\* A write to the target appends to it; the file that was finished before and the temporary
\* one stay.
LEMMA Written ==
    ASSUME DriverInv, Outputs, NEW p \in Compilers, NEW s \in Seq(Units),
           fs' = Write(run[p].target, s), run[p].pc \in InDescription \cup InDefinition
    PROVE  /\ Elsewhere({run[p].target}, fs, fs')
           /\ run[p].target \in OutputsOf(p) \cup {NoPath}
           /\ ~full /\ run[p].errors = 0 =>
                 /\ run[p].target \in DOMAIN fs' /\ fs'[run[p].target] = fs[run[p].target] \o s
                 /\ run[p].pc \in InDefinition /\ TwoFiles(run[p]) =>
                       run[p].dec \in DOMAIN fs' /\ fs'[run[p].dec] = Declared
                 /\ Alone(p) /\ run[p].pc \in InDescription \cup {"definition", "reopen"} =>
                       run[p].temp \in DOMAIN fs' /\ fs'[run[p].temp] = UserCode(p)
<1> DEFINE t == run[p].target
<1>1. Elsewhere({t}, fs, fs')
  BY CompilerKnown, WriteFiles
<1>2. t \in OutputsOf(p) \cup {NoPath}
  BY CompilerKnown
<1>3. Stage(run[p]) = run[p].pc /\ OutputInv(p)
  BY StageRunning DEF Outputs
<1>4. ASSUME ~full, run[p].errors = 0
      PROVE  /\ t \in DOMAIN fs' /\ fs'[t] = fs[t] \o s
             /\ run[p].pc \in InDefinition /\ TwoFiles(run[p]) =>
                   run[p].dec \in DOMAIN fs' /\ fs'[run[p].dec] = Declared
             /\ Alone(p) /\ run[p].pc \in InDescription \cup {"definition", "reopen"} =>
                   run[p].temp \in DOMAIN fs' /\ fs'[run[p].temp] = UserCode(p)
  <2>1. Output(run[p], fs) /\ (Alone(p) => Copied(run[p], fs, UserCode(p)))
    BY <1>3, <1>4 DEF OutputInv
  <2>2. t \in DOMAIN fs
    BY <1>3, <2>1 DEF Output
  <2>3. t \in DOMAIN fs' /\ fs'[t] = fs[t] \o s
    BY <1>4, <2>2 DEF Write
  <2>4. ASSUME run[p].pc \in InDefinition, TwoFiles(run[p])
        PROVE  run[p].dec \in DOMAIN fs' /\ fs'[run[p].dec] = Declared
    <3>1. run[p].dec # t
      BY <1>3, <1>4, <2>4 DEF OutputInv, FilesChosen, TwoFiles, LastFile
    <3>2. run[p].dec \in DOMAIN fs /\ fs[run[p].dec] = Declared
      BY <1>3, <2>1, <2>4 DEF Output
    <3> QED
      BY <1>1, <3>1, <3>2 DEF Elsewhere
  <2>5. ASSUME Alone(p), run[p].pc \in InDescription \cup {"definition", "reopen"}
        PROVE  run[p].temp \in DOMAIN fs' /\ fs'[run[p].temp] = UserCode(p)
    <3>1. run[p].temp \in DOMAIN fs /\ fs[run[p].temp] = UserCode(p)
      BY <1>3, <2>1, <2>5 DEF Copied
    <3>2. run[p].temp # t
      BY <2>2, CompilerKnown, PathsApart DEF DriverInv
    <3> QED
      BY <1>1, <3>1, <3>2 DEF Elsewhere
  <2> QED
    BY <2>3, <2>4, <2>5
<1> QED
  BY <1>1, <1>2, <1>4

LEMMA TwoSections ==
    ASSUME NEW a, NEW b
    PROVE  <<a>> \o <<b>> = <<a, b>>
<1>1. <<a>> \in Seq({a, b}) /\ <<b>> \in Seq({a, b}) /\ <<a, b>> \in Seq({a, b})
  OBVIOUS
<1>2. /\ Len(<<a>> \o <<b>>) = 2 /\ (<<a>> \o <<b>>)[1] = a /\ (<<a>> \o <<b>>)[2] = b
      /\ <<a>> \o <<b>> \in Seq({a, b})
  BY <1>1
<1>3. /\ Len(<<a, b>>) = 2 /\ <<a, b>>[1] = a /\ <<a, b>>[2] = b
  OBVIOUS
<1>4. 1 .. 2 = {1, 2}
  OBVIOUS
<1> QED
  BY <1>1, <1>2, <1>3, <1>4, SeqEqual

LEMMA EchoDeclarationsOutputs ==
    ASSUME DriverInv, Outputs, NEW p \in Compilers, EchoDeclarations(p)
    PROVE  Outputs'
<1> DEFINE s == <<Section("declarations")>>
           t == run[p].target
<1>1. /\ run[p].pc = "declarations" /\ command' = command
      /\ fs' = Write(t, s) /\ Go(p, "description")
  BY DEF EchoDeclarations, At
<1>2. s \in Seq(Units)
  BY SectionUnits DEF SectionNames
<1>3. PICK r : Moves(p, r) /\ Goes(p, "description", r) /\ SameCounts(p, r)
  BY <1>1, GoKeepsCounts, CompilerKnown DEF Places
<1>4. Stage(r) = "description" /\ Stage(run[p]) = "declarations" /\ OutputInv(p)
  BY <1>1, <1>3, StageRunning DEF Outputs, Goes
<1>5. FilesChosen(p, r)
  BY <1>3, <1>4 DEF OutputInv, FilesChosen, codegen_only, TwoFiles, Goes
<1>6. TempChosen(r)
  BY <1>1, <1>3, <1>4 DEF OutputInv, TempChosen, SameCounts, Goes
<1>7. Elsewhere({t}, fs, fs') /\ t \in OutputsOf(p) \cup {NoPath}
  BY <1>1, <1>2, Written
<1>8. ASSUME ~full, r.errors = 0
      PROVE  Output(r, fs') /\ (Alone(p) => Copied(r, fs', UnitsOf(p, r.code)))
  <2>1. run[p].errors = 0 /\ r.target = t /\ r.temp = run[p].temp /\ UserCode(p) = UnitsOf(p, r.code)
    BY <1>3, <1>8 DEF SameCounts, Goes, UserCode
  <2>2. fs[t] = <<>>
    BY <1>4, <1>8, <2>1 DEF OutputInv, Output
  <2>3. t \in DOMAIN fs' /\ fs'[t] = <<>> \o s
    BY <1>1, <1>2, <1>8, <2>1, <2>2, Written
  <2>4. <<>> \o s = s
    BY <1>2, ConcatEmptySeq
  <2>5. Output(r, fs')
    BY <1>4, <2>1, <2>3, <2>4 DEF Output
  <2>6. Alone(p) => r.temp \in DOMAIN fs' /\ fs'[r.temp] = UnitsOf(p, r.code)
    BY <1>1, <1>2, <1>8, <2>1, Written
  <2> QED
    BY <1>4, <2>5, <2>6 DEF Copied
<1>9. Continues(p, r, {t})
  BY <1>1, <1>3, <1>4, <1>5, <1>6, <1>7, <1>8 DEF Continues, Goes
<1> QED
  BY <1>9, ContinuesKeeps

LEMMA EmitDeclarationOutputs ==
    ASSUME DriverInv, Outputs, NEW p \in Compilers, EmitDeclaration(p)
    PROVE  Outputs'
<1> DEFINE s == <<Section("machine")>>
           t == run[p].target
           place == IF run[p].lang = "java" THEN "reopen"
                    ELSE IF codegen_only(run[p]) THEN "definition" ELSE "switch"
<1>1. /\ run[p].pc = "emit" /\ command' = command
      /\ fs' = Write(t, s) /\ Go(p, place)
  BY DEF EmitDeclaration, At
<1>2. s \in Seq(Units)
  BY SectionUnits DEF SectionNames
<1>3. /\ place \in {"reopen", "definition", "switch"}
      /\ place = "reopen" => run[p].lang = "java"
      /\ place = "definition" => run[p].lang # "java" /\ codegen_only(run[p])
      /\ place = "switch" => run[p].lang # "java" /\ ~codegen_only(run[p])
  OBVIOUS
<1> HIDE DEF place
<1>4. place \in Places
  BY <1>3 DEF Places
<1>5. PICK r : Moves(p, r) /\ Goes(p, place, r) /\ SameCounts(p, r)
  BY <1>1, <1>4, GoKeepsCounts, CompilerKnown
<1>6. Stage(r) = place /\ r.pc = place /\ Stage(run[p]) = "emit" /\ OutputInv(p)
  BY <1>1, <1>3, <1>5, StageRunning DEF Outputs, Goes
<1>7. FilesChosen(p, r)
  <2>1. FilesChosen(p, run[p])
    BY <1>6 DEF OutputInv
  <2>2. r.target = run[p].dec /\ r.dec = run[p].dec /\ r.def = run[p].def /\ r.lang = run[p].lang /\ r.given = run[p].given
    BY <1>5, <1>6, <2>1 DEF FilesChosen, Goes
  <2>3. place # "switch" => r.target = LastFile(r)
    BY <1>3, <1>6, <2>1, <2>2 DEF FilesChosen, LastFile
  <2> QED
    BY <1>3, <1>6, <2>1, <2>2, <2>3 DEF FilesChosen, codegen_only, TwoFiles
<1>8. TempChosen(r)
  BY <1>1, <1>3, <1>5, <1>6 DEF OutputInv, TempChosen, SameCounts, Goes
<1>9. Elsewhere({t}, fs, fs') /\ t \in OutputsOf(p) \cup {NoPath}
  BY <1>1, <1>2, Written
<1>10. ASSUME ~full, r.errors = 0
       PROVE  Output(r, fs') /\ (Alone(p) => Copied(r, fs', UnitsOf(p, r.code)))
  <2>1. /\ run[p].errors = 0 /\ r.target = t /\ r.temp = run[p].temp
        /\ UserCode(p) = UnitsOf(p, r.code) /\ r.lang = run[p].lang /\ r.given = run[p].given
    BY <1>5, <1>10 DEF SameCounts, Goes, UserCode
  <2>2. fs[t] = <<Section("declarations")>>
    BY <1>6, <1>10, <2>1 DEF OutputInv, Output
  <2>3. t \in DOMAIN fs' /\ fs'[t] = <<Section("declarations")>> \o s
    BY <1>1, <1>2, <1>10, <2>1, <2>2, Written
  <2>4. <<Section("declarations")>> \o s = Declared
    BY TwoSections DEF Declared
  <2>5. place # "switch" => ~TwoFiles(r)
    BY <1>3, <2>1 DEF TwoFiles, codegen_only
  <2>6. place = "reopen" => Before(r) = Declared
    BY <1>3, <2>1, <2>5 DEF Before
  <2>7. Output(r, fs')
    BY <1>3, <1>6, <2>1, <2>3, <2>4, <2>5, <2>6 DEF Output
  <2>8. Alone(p) => r.temp \in DOMAIN fs' /\ fs'[r.temp] = UnitsOf(p, r.code)
    BY <1>1, <1>2, <1>10, <2>1, Written
  <2> QED
    BY <1>3, <1>6, <2>7, <2>8 DEF Copied
<1>11. Continues(p, r, {t})
  BY <1>1, <1>3, <1>5, <1>6, <1>7, <1>8, <1>9, <1>10 DEF Continues, Goes
<1> QED
  BY <1>11, ContinuesKeeps

LEMMA EmitDefinitionOutputs ==
    ASSUME DriverInv, Outputs, NEW p \in Compilers, EmitDefinition(p)
    PROVE  Outputs'
<1> DEFINE s == <<Section("definition")>>
           t == run[p].target
<1>1. /\ run[p].pc = "definition" /\ command' = command
      /\ fs' = Write(t, s) /\ Go(p, "reopen")
  BY DEF EmitDefinition, At
<1>2. s \in Seq(Units)
  BY SectionUnits DEF SectionNames
<1>3. PICK r : Moves(p, r) /\ Goes(p, "reopen", r) /\ SameCounts(p, r)
  BY <1>1, GoKeepsCounts, CompilerKnown DEF Places
<1>4. Stage(r) = "reopen" /\ Stage(run[p]) = "definition" /\ OutputInv(p)
  BY <1>1, <1>3, StageRunning DEF Outputs, Goes
<1>5. FilesChosen(p, r)
  BY <1>3, <1>4 DEF OutputInv, FilesChosen, codegen_only, TwoFiles, LastFile, Goes, SameCounts
<1>6. TempChosen(r)
  BY <1>1, <1>3, <1>4 DEF OutputInv, TempChosen, SameCounts, Goes
<1>7. Elsewhere({t}, fs, fs') /\ t \in OutputsOf(p) \cup {NoPath}
  BY <1>1, <1>2, Written
<1>8. ASSUME ~full, r.errors = 0
      PROVE  Output(r, fs') /\ (Alone(p) => Copied(r, fs', UnitsOf(p, r.code)))
  <2>1. /\ run[p].errors = 0 /\ r.target = t /\ r.temp = run[p].temp /\ UserCode(p) = UnitsOf(p, r.code)
        /\ r.dec = run[p].dec /\ TwoFiles(r) = TwoFiles(run[p]) /\ r.lang # "java"
    BY <1>3, <1>4, <1>8 DEF OutputInv, FilesChosen, SameCounts, Goes, UserCode, TwoFiles, codegen_only
  <2>2. fs[t] = IF TwoFiles(r) THEN <<>> ELSE Declared
    BY <1>4, <1>8, <2>1 DEF OutputInv, Output
  <2>3. t \in DOMAIN fs' /\ fs'[t] = fs[t] \o s
    BY <1>1, <1>2, <1>8, <2>1, Written
  <2>4. <<>> \o s = s
    BY <1>2, ConcatEmptySeq
  <2>5. fs'[t] = Before(r)
    BY <2>1, <2>2, <2>3, <2>4 DEF Before
  <2>6. TwoFiles(r) => r.dec \in DOMAIN fs' /\ fs'[r.dec] = Declared
    BY <1>1, <1>2, <1>8, <2>1, Written
  <2>7. Output(r, fs')
    BY <1>4, <2>1, <2>3, <2>5, <2>6 DEF Output
  <2>8. Alone(p) => r.temp \in DOMAIN fs' /\ fs'[r.temp] = UnitsOf(p, r.code)
    BY <1>1, <1>2, <1>8, <2>1, Written
  <2> QED
    BY <1>4, <2>7, <2>8 DEF Copied
<1>9. Continues(p, r, {t})
  BY <1>1, <1>3, <1>4, <1>5, <1>6, <1>7, <1>8 DEF Continues, Goes
<1> QED
  BY <1>9, ContinuesKeeps

-----------------------------------------------------------------------------
(* Contents                                                                *)

LEMMA UnitsTyped ==
    ASSUME NEW p \in Compilers, NEW n \in Nat
    PROVE  UnitsOf(p, n) \in Seq(Units) /\ Len(UnitsOf(p, n)) = n
<1>1. \A i \in 1 .. n : <<p, i>> \in Units
  BY DEF Units
<1>2. UnitsOf(p, n) \in [1 .. n -> Units]
  BY <1>1 DEF UnitsOf
<1> QED
  BY <1>2

LEMMA BeforeTyped ==
    ASSUME NEW r
    PROVE  Before(r) \in Seq(Units)
<1>1. /\ Section("declarations") \in Units /\ Section("machine") \in Units
      /\ <<Section("definition")>> \in Seq(Units)
  BY SectionUnits DEF SectionNames
<1>2. Declared \in Seq(Units)
  BY <1>1 DEF Declared
<1>3. Declared \o <<Section("definition")>> \in Seq(Units)
  BY <1>1, <1>2, ConcatProperties
<1> QED
  BY <1>1, <1>2, <1>3 DEF Before

\* The text after the second %%, n lines of it, with or without line ends.
Lines(n) == [i \in 1 .. n |-> Section("text")]

LinesEnded(n) ==
    [i \in 1 .. 2 * n |-> IF \E m \in 1 .. n : i = 2 * m THEN Section("newline") ELSE Section("text")]

LEMMA TailIsLines ==
    ASSUME NEW r
    PROVE  TailText(r) = IF codegen_only(r) THEN LinesEnded(r.tail) ELSE Lines(r.tail)
  BY DEF TailText, Lines, LinesEnded

LEMMA LinesGrow ==
    ASSUME NEW n \in Nat
    PROVE  /\ Lines(n) \in Seq(Units) /\ Lines(0) = <<>>
           /\ Lines(n + 1) = Append(Lines(n), Section("text"))
<1>1. Section("text") \in Units
  BY SectionUnits DEF SectionNames
<1> DEFINE e == Section("text")
<1> HIDE DEF e
<1>2. \A m \in Nat : Lines(m) \in [1 .. m -> Units] /\ \A i \in 1 .. m : Lines(m)[i] = e
  BY <1>1 DEF Lines, e
<1>3. \A m \in Nat : Lines(m) \in Seq(Units) /\ Len(Lines(m)) = m
  BY <1>2
<1>4. Lines(0) = <<>>
  BY <1>3
<1>5. /\ Append(Lines(n), e) \in Seq(Units) /\ Len(Append(Lines(n), e)) = n + 1
      /\ \A i \in 1 .. n : Append(Lines(n), e)[i] = Lines(n)[i]
      /\ Append(Lines(n), e)[n + 1] = e
  BY <1>1, <1>3, AppendProperties DEF e
<1>6. \A i \in 1 .. n + 1 : Lines(n + 1)[i] = Append(Lines(n), e)[i]
  BY <1>2, <1>5
<1>7. Lines(n + 1) = Append(Lines(n), e)
  BY <1>3, <1>5, <1>6, SeqEqual
<1> QED
  BY <1>3, <1>4, <1>7 DEF e

LEMMA EndedLinesGrow ==
    ASSUME NEW n \in Nat
    PROVE  /\ LinesEnded(n) \in Seq(Units) /\ LinesEnded(0) = <<>>
           /\ LinesEnded(n + 1) = Append(Append(LinesEnded(n), Section("text")), Section("newline"))
<1>1. Section("text") \in Units /\ Section("newline") \in Units
  BY SectionUnits DEF SectionNames
<1> DEFINE e == Section("text")
           l == Section("newline")
<1> HIDE DEF e, l
<1>2. ASSUME NEW m \in Nat
      PROVE  /\ LinesEnded(m) \in [1 .. 2 * m -> Units]
             /\ \A i \in 1 .. 2 * m : LinesEnded(m)[i] = IF \E k \in 1 .. m : i = 2 * k THEN l ELSE e
  BY <1>1 DEF LinesEnded, e, l
<1>3. ASSUME NEW m \in Nat
      PROVE  LinesEnded(m) \in Seq(Units) /\ Len(LinesEnded(m)) = 2 * m
  <2>1. 2 * m \in Nat
    OBVIOUS
  <2> QED
    BY <1>2, <2>1, SMTT(30)
<1>4. LinesEnded(0) = <<>>
  BY <1>3
<1> DEFINE a == Append(LinesEnded(n), e)
           b == Append(a, l)
<1>5. /\ a \in Seq(Units) /\ Len(a) = 2 * n + 1
      /\ \A i \in 1 .. 2 * n : a[i] = LinesEnded(n)[i]
      /\ a[2 * n + 1] = e
  <2> DEFINE x == LinesEnded(n)
  <2>1. x \in Seq(Units) /\ Len(x) = 2 * n /\ e \in Units
    BY <1>1, <1>3 DEF e
  <2> HIDE DEF x
  <2>2. /\ Append(x, e) \in Seq(Units) /\ Len(Append(x, e)) = Len(x) + 1
        /\ \A i \in 1 .. Len(x) : Append(x, e)[i] = x[i]
        /\ Append(x, e)[Len(x) + 1] = e
    BY <2>1, AppendProperties
  <2> QED
    BY <2>1, <2>2 DEF x
<1> HIDE DEF a
<1>6. /\ b \in Seq(Units) /\ Len(b) = 2 * n + 2
      /\ \A i \in 1 .. 2 * n + 1 : b[i] = a[i]
      /\ b[2 * n + 2] = l
  BY <1>1, <1>5, AppendProperties DEF l
<1> HIDE DEF b
<1>7. ASSUME NEW i \in 1 .. 2 * (n + 1) PROVE LinesEnded(n + 1)[i] = b[i]
  <2>0. n + 1 \in Nat
    OBVIOUS
  <2>1. LinesEnded(n + 1)[i] = IF \E k \in 1 .. n + 1 : i = 2 * k THEN l ELSE e
    BY <1>2, <2>0
  <2>2. CASE i \in 1 .. 2 * n
    <3>1. (\E k \in 1 .. n + 1 : i = 2 * k) <=> (\E k \in 1 .. n : i = 2 * k)
      BY <2>2
    <3>2. LinesEnded(n)[i] = IF \E k \in 1 .. n : i = 2 * k THEN l ELSE e
      BY <1>2, <2>2
    <3>3. b[i] = LinesEnded(n)[i]
      BY <1>5, <1>6, <2>2
    <3> QED
      BY <2>1, <3>1, <3>2, <3>3
  <2>3. CASE i = 2 * n + 1
    <3>1. ~ \E k \in 1 .. n + 1 : i = 2 * k
      BY <2>3
    <3> QED
      BY <1>5, <1>6, <2>1, <2>3, <3>1
  <2>4. CASE i = 2 * n + 2
    <3>1. n + 1 \in 1 .. n + 1 /\ i = 2 * (n + 1)
      BY <2>4
    <3> QED
      BY <1>6, <2>1, <2>4, <3>1
  <2>5. i \in 1 .. 2 * n \/ i = 2 * n + 1 \/ i = 2 * n + 2
    OBVIOUS
  <2> QED
    BY <2>2, <2>3, <2>4, <2>5
<1>8. LinesEnded(n + 1) = b
  <2>1. LinesEnded(n + 1) \in Seq(Units) /\ Len(LinesEnded(n + 1)) = 2 * (n + 1)
    BY <1>3
  <2>2. Len(b) = 2 * (n + 1)
    BY <1>6
  <2> QED
    BY <1>6, <1>7, <2>1, <2>2, SeqEqual
<1> QED
  BY <1>3, <1>4, <1>8 DEF a, b, e, l

LEMMA AppendBehind ==
    ASSUME NEW S, NEW s \in Seq(S), NEW t \in Seq(S), NEW e \in S
    PROVE  s \o Append(t, e) = Append(s \o t, e)
<1>1. <<e>> \in Seq(S) /\ s \o t \in Seq(S)
  BY ConcatProperties
<1> QED
  BY <1>1, AppendIsConcat, ConcatAssociative


LEMMA SplitInTwo ==
    ASSUME NEW S, NEW s \in Seq(S), NEW k \in Nat, k <= Len(s)
    PROVE  SubSeq(s, 1, k) \o SubSeq(s, k + 1, Len(s)) = s
<1>1. Len(s) \in Nat
  OBVIOUS
<1>2. 1 \in 1 .. Len(s) + 1 /\ k \in 1 - 1 .. Len(s) /\ Len(s) \in k .. Len(s)
  BY <1>1
<1>3. SubSeq(s, 1, k) \o SubSeq(s, k + 1, Len(s)) = SubSeq(s, 1, Len(s))
  BY <1>2, ConcatAdjacentSubSeq, Zenon
<1> QED
  BY <1>3, SubSeqFull

-----------------------------------------------------------------------------
(* Steps that write, divert and copy the user's code                       *)

LEMMA EmitTheEndOutputs ==
    ASSUME DriverInv, Outputs, NEW p \in Compilers, EmitTheEnd(p)
    PROVE  Outputs'
<1> DEFINE s == <<Section("end")>>
           t == run[p].target
<1>1. /\ run[p].pc = "end" /\ command' = command
      /\ fs' = Write(t, s) /\ Go(p, "the_end")
  BY DEF EmitTheEnd, At
<1>2. s \in Seq(Units)
  BY SectionUnits DEF SectionNames
<1>3. PICK r : Moves(p, r) /\ Goes(p, "the_end", r) /\ SameCounts(p, r)
  BY <1>1, GoKeepsCounts, CompilerKnown DEF Places
<1>4. Stage(r) = "the_end" /\ Stage(run[p]) = "end" /\ OutputInv(p)
  BY <1>1, <1>3, StageRunning DEF Outputs, Goes
<1>5. FilesChosen(p, r)
  BY <1>3, <1>4 DEF OutputInv, FilesChosen, codegen_only, TwoFiles, LastFile, Goes, SameCounts
<1>6. TempChosen(r)
  BY <1>1, <1>3, <1>4 DEF OutputInv, TempChosen, SameCounts, Goes
<1>7. Elsewhere({t}, fs, fs') /\ t \in OutputsOf(p) \cup {NoPath}
  BY <1>1, <1>2, Written
<1>8. ASSUME ~full, r.errors = 0
      PROVE  Output(r, fs') /\ (Alone(p) => Copied(r, fs', UnitsOf(p, r.code)))
  <2>1. /\ run[p].errors = 0 /\ r.target = t /\ UserCode(p) = UnitsOf(p, r.code)
        /\ r.dec = run[p].dec /\ TwoFiles(r) = TwoFiles(run[p]) /\ r.tail = 0 /\ r.code \in Nat
        /\ Before(r) = Before(run[p])
    <3>1. r.lang = run[p].lang /\ r.given = run[p].given /\ r \in CompilerType(p)
      BY <1>3 DEF Goes
    <3>2. TwoFiles(r) = TwoFiles(run[p]) /\ Before(r) = Before(run[p])
      BY <3>1 DEF TwoFiles, codegen_only, Before
    <3>3. r.code \in Nat
      BY <3>1 DEF CompilerType
    <3> QED
      BY <1>3, <1>4, <1>8, <3>2, <3>3 DEF OutputInv, TempChosen, SameCounts, Goes, UserCode
  <2>2. t \in DOMAIN fs' /\ fs'[t] = fs[t] \o s
    BY <1>1, <1>2, <1>8, <2>1, Written
  <2>3. TwoFiles(r) => r.dec \in DOMAIN fs' /\ fs'[r.dec] = Declared
    BY <1>1, <1>2, <1>8, <2>1, Written
  <2>4. Output(r, fs')
    BY <1>4, <2>1, <2>2, <2>3 DEF Output
  <2>5. ASSUME Alone(p) PROVE Copied(r, fs', UnitsOf(p, r.code))
    <3> DEFINE b == Before(r) \o UnitsOf(p, r.code)
    <3>1. fs[t] = b
      BY <1>4, <1>8, <2>1, <2>5 DEF OutputInv, Copied
    <3>2. b \in Seq(Units) /\ b \o s \in Seq(Units)
      BY <1>2, <2>1, BeforeTyped, UnitsTyped, ConcatProperties
    <3>3. TailText(r) = <<>>
      BY <2>1, TailIsLines, LinesGrow, EndedLinesGrow
    <3>4. (b \o s) \o TailText(r) = b \o s
      BY <3>2, <3>3, ConcatEmptySeq
    <3> QED
      BY <1>4, <2>1, <2>2, <3>1, <3>4 DEF Copied
  <2> QED
    BY <2>4, <2>5
<1>9. Continues(p, r, {t})
  BY <1>1, <1>3, <1>4, <1>5, <1>6, <1>7, <1>8 DEF Continues, Goes
<1> QED
  BY <1>9, ContinuesKeeps

\* The whole of the temporary file is copied, in whatever blocks.
LEMMA CopyBlockOutputs ==
    ASSUME DriverInv, Outputs, NEW p \in Compilers, CopyBlock(p)
    PROVE  Outputs'
<1> DEFINE in == run[p].reading
           buf == command.kind.buf
           count == IF Len(in) < buf THEN Len(in) ELSE buf
           place == IF More(count) THEN "copy" ELSE "end"
           rest == SubSeq(in, count + 1, Len(in))
           block == SubSeq(in, 1, count)
           r == [run[p] EXCEPT !.reading = rest, !.pc = place]
           t == run[p].target
<1>1. /\ run[p].pc = "copy" /\ command' = command /\ fs' = Write(t, block)
      /\ run' = [run EXCEPT ![p].reading = rest, ![p].pc = place]
  BY DEF CopyBlock, At
<1>2. in \in Seq(Units) /\ buf \in Nat
  BY CompilerKnown, CommandsAssumption DEF CompilerType, TypeOK
<1>3. PICK n \in Nat : n = Len(in)
  BY <1>2
<1>4. count \in Nat /\ count <= n
  BY <1>2, <1>3
<1>5. place = "end" => count = n
  BY <1>2, <1>3 DEF More
<1> HIDE DEF in, count
<1>6. block \in Seq(Units) /\ rest \in Seq(Units)
  BY <1>2, <1>3, <1>4
<1>7. block \o rest = in
  BY <1>2, <1>3, <1>4, SplitInTwo
<1>8. place = "end" => rest = <<>>
  BY <1>3, <1>4, <1>5, SubSeqEmpty
<1>9. place \in {"copy", "end"}
  OBVIOUS
<1> HIDE DEF rest, block, place
<1>10. Moves(p, r)
  BY <1>1, CompilerKnown DEF Moves, TypeOK
<1>11. place \in Places
  BY <1>9 DEF Places
<1>12. /\ Goes(p, place, r) /\ r.reading = rest /\ r.code = run[p].code /\ r.tail = run[p].tail
       /\ r.errors = run[p].errors /\ r.status = run[p].status
  BY <1>6, <1>11, CompilerKnown DEF Goes, CompilerType
<1> HIDE DEF r
<1>13. Stage(r) = place /\ r.pc = place /\ Stage(run[p]) = "copy" /\ OutputInv(p)
  BY <1>1, <1>9, <1>12, StageRunning DEF Outputs, Goes
<1>14. FilesChosen(p, r)
  BY <1>9, <1>12, <1>13 DEF OutputInv, FilesChosen, codegen_only, TwoFiles, LastFile, Goes
<1>15. TempChosen(r)
  BY <1>1, <1>9, <1>12, <1>13 DEF OutputInv, TempChosen, Goes
<1>16. Elsewhere({t}, fs, fs') /\ t \in OutputsOf(p) \cup {NoPath}
  BY <1>1, <1>6, Written
<1>17. ASSUME ~full, r.errors = 0
       PROVE  Output(r, fs') /\ (Alone(p) => Copied(r, fs', UnitsOf(p, r.code)))
  <2>1. /\ run[p].errors = 0 /\ r.target = t /\ UserCode(p) = UnitsOf(p, r.code)
        /\ r.dec = run[p].dec /\ r.lang = run[p].lang /\ r.given = run[p].given
    BY <1>12, <1>17 DEF Goes, UserCode
  <2>2. TwoFiles(r) = TwoFiles(run[p]) /\ Before(r) = Before(run[p])
    BY <2>1 DEF TwoFiles, codegen_only, Before
  <2>3. t \in DOMAIN fs' /\ fs'[t] = fs[t] \o block
    BY <1>1, <1>6, <1>17, <2>1, Written
  <2>4. TwoFiles(r) => r.dec \in DOMAIN fs' /\ fs'[r.dec] = Declared
    BY <1>1, <1>6, <1>17, <2>1, <2>2, Written
  <2>5. Output(r, fs')
    BY <1>9, <1>13, <2>1, <2>3, <2>4 DEF Output
  <2>6. ASSUME Alone(p) PROVE Copied(r, fs', UnitsOf(p, r.code))
    <3>1. fs[t] \o in = Before(r) \o UnitsOf(p, r.code)
      BY <1>13, <1>17, <2>1, <2>2, <2>6 DEF OutputInv, Copied, in
    <3>2. t \in DOMAIN fs
      BY <1>13, <1>17, <2>1 DEF OutputInv, Output
    <3>3. fs[t] \in Seq(Units)
      BY <3>2, CompilerKnown DEF Files
    <3>4. fs'[t] \o rest = fs[t] \o in
      <4>1. ASSUME NEW a \in Seq(Units), NEW b \in Seq(Units), NEW c \in Seq(Units)
            PROVE  (a \o b) \o c = a \o (b \o c)
        BY ConcatAssociative
      <4>2. (fs[t] \o block) \o rest = fs[t] \o (block \o rest)
        BY <1>6, <3>3, <4>1
      <4> QED
        BY <1>7, <2>3, <4>2
    <3>5. place = "end" => fs'[t] = fs'[t] \o rest
      <4>1. fs'[t] \in Seq(Units)
        BY <1>6, <2>3, <3>3, ConcatProperties
      <4> QED
        BY <1>8, <4>1, ConcatEmptySeq
    <3> QED
      BY <1>9, <1>12, <1>13, <2>1, <3>1, <3>4, <3>5 DEF Copied
  <2> QED
    BY <2>5, <2>6
<1>18. Continues(p, r, {t})
  BY <1>1, <1>9, <1>10, <1>12, <1>13, <1>14, <1>15, <1>16, <1>17 DEF Continues, Goes
<1> QED
  BY <1>18, ContinuesKeeps

LEMMA ReopenTempOutputs ==
    ASSUME DriverInv, Outputs, NEW p \in Compilers, ReopenTemp(p)
    PROVE  Outputs'
<1>1. CASE run[p].temp \notin DOMAIN fs
  BY <1>1, FailedExitOutputs DEF ReopenTemp, EX_NOINPUT, EX_OK
<1>2. CASE run[p].temp \in DOMAIN fs
  <2> DEFINE in == fs[run[p].temp]
             r == [run[p] EXCEPT !.pc = "copy", !.reading = in]
  <2>1. in \in Seq(Units)
    BY <1>2, CompilerKnown DEF Files
  <2>2. /\ run[p].pc = "reopen" /\ fs' = fs /\ command' = command
        /\ run' = [run EXCEPT ![p].pc = "copy", ![p].reading = in]
    BY <1>2 DEF ReopenTemp, At
  <2> HIDE DEF in
  <2>3. Moves(p, r)
    BY <2>2, CompilerKnown DEF Moves, TypeOK
  <2>4. /\ Goes(p, "copy", r) /\ r.reading = in /\ r.code = run[p].code /\ r.tail = run[p].tail
        /\ r.errors = run[p].errors /\ r.status = run[p].status
    <3>1. run[p] \in CompilerType(p)
      BY CompilerKnown
    <3>2. r \in CompilerType(p)
      BY <3>1, <2>1, ZenonT(40) DEF CompilerType, Places
    <3> QED
      BY <3>1, <3>2, <2>1 DEF Goes, CompilerType, Places
  <2> HIDE DEF r
  <2>5. Stage(r) = "copy" /\ Stage(run[p]) = "reopen" /\ OutputInv(p)
    BY <2>2, <2>4, StageRunning DEF Outputs, Goes
  <2>6. FilesChosen(p, r)
    BY <2>4, <2>5 DEF OutputInv, FilesChosen, codegen_only, TwoFiles, LastFile, Goes
  <2>7. TempChosen(r)
    BY <2>2, <2>4, <2>5 DEF OutputInv, TempChosen, Goes
  <2>8. ASSUME ~full, r.errors = 0
        PROVE  Output(r, fs') /\ (Alone(p) => Copied(r, fs', UnitsOf(p, r.code)))
    <3>1. /\ run[p].errors = 0 /\ r.target = run[p].target /\ UserCode(p) = UnitsOf(p, r.code)
          /\ r.dec = run[p].dec /\ r.lang = run[p].lang /\ r.given = run[p].given
      BY <2>4, <2>8 DEF Goes, UserCode
    <3>2. TwoFiles(r) = TwoFiles(run[p]) /\ Before(r) = Before(run[p])
      BY <3>1 DEF TwoFiles, codegen_only, Before
    <3>3. Output(run[p], fs) /\ (Alone(p) => Copied(run[p], fs, UserCode(p)))
      BY <2>5, <2>8, <3>1 DEF OutputInv
    <3>4. Output(r, fs')
      BY <2>2, <2>5, <3>1, <3>2, <3>3 DEF Output
    <3>5. Alone(p) => in = UnitsOf(p, r.code)
      BY <2>5, <3>1, <3>3 DEF Copied, in
    <3>6. fs[r.target] = Before(r)
      BY <2>5, <3>1, <3>2, <3>3 DEF Output
    <3> QED
      BY <2>2, <2>4, <2>5, <3>4, <3>5, <3>6 DEF Copied
  <2>9. Continues(p, r, {})
    BY <2>2, <2>3, <2>4, <2>5, <2>6, <2>7, <2>8 DEF Continues, Goes, Elsewhere
  <2> QED
    BY <2>9, ContinuesKeeps
<1> QED
  BY <1>1, <1>2

\* If the temporary file is the compiler's own, the next unit goes to its end.
LEMMA WriteAtEnd ==
    ASSUME NEW p \in Compilers, NEW q \in DOMAIN fs, NEW n \in Nat, ~full, fs[q] = UnitsOf(p, n)
    PROVE  WriteAt(q, n + 1, <<p, n + 1>>)[q] = UnitsOf(p, n + 1)
<1> DEFINE u == <<p, n + 1>>
           s == fs[q]
           w == [k \in 1 .. (IF n + 1 > Len(s) THEN n + 1 ELSE Len(s)) |->
                       IF k = n + 1 THEN u ELSE IF k <= Len(s) THEN s[k] ELSE Section("hole")]
<1>1. WriteAt(q, n + 1, u)[q] = w
  BY DEF WriteAt
<1>2. Len(s) = n
  BY UnitsTyped
<1>3. w = [k \in 1 .. n + 1 |-> IF k = n + 1 THEN u ELSE IF k <= n THEN s[k] ELSE Section("hole")]
  <2>1. (IF n + 1 > n THEN n + 1 ELSE n) = n + 1
    OBVIOUS
  <2> QED
    BY <1>2, <2>1
<1>4. \A k \in 1 .. n + 1 :
          (IF k = n + 1 THEN u ELSE IF k <= n THEN s[k] ELSE Section("hole")) = <<p, k>>
  <2>1. \A k \in 1 .. n : s[k] = <<p, k>>
    BY DEF UnitsOf
  <2> QED
    BY <2>1
<1>5. w = UnitsOf(p, n + 1)
  BY <1>3, <1>4 DEF UnitsOf
<1> QED
  BY <1>1, <1>5

LEMMA EchoUserCodeOutputs ==
    ASSUME DriverInv, Outputs, NEW p \in Compilers, EchoUserCode(p)
    PROVE  Outputs'
<1> DEFINE n == run[p].code
           i == n + 1
           t == run[p].temp
           o == run[p].target
           r == [run[p] EXCEPT !.code = i]
<1>1. /\ run[p].pc = "description" /\ command' = command /\ fs' = WriteAt(t, i, <<p, i>>)
      /\ run' = [run EXCEPT ![p].code = i]
  BY DEF EchoUserCode, At
<1>2. n \in Nat /\ i \in Nat \ {0}
  BY CompilerKnown DEF CompilerType
<1>3. <<p, i>> \in Units
  BY <1>2 DEF Units
<1> HIDE DEF i, n
<1>4. Moves(p, r)
  BY <1>1, CompilerKnown DEF Moves, TypeOK
<1>5. /\ Goes(p, "description", r) /\ r.code = i /\ r.tail = run[p].tail
      /\ r.errors = run[p].errors /\ r.status = run[p].status
  BY <1>1, <1>2, CompilerKnown DEF Goes, CompilerType
<1> HIDE DEF r
<1>6. Elsewhere({t}, fs, fs') /\ DOMAIN fs' = DOMAIN fs
  BY <1>1, <1>2, <1>3, CompilerKnown, WriteAtFiles
<1>7. Stage(r) = "description" /\ Stage(run[p]) = "description" /\ OutputInv(p)
  BY <1>1, <1>5, StageRunning DEF Outputs, Goes
<1>8. FilesChosen(p, r)
  BY <1>5, <1>7 DEF OutputInv, FilesChosen, codegen_only, TwoFiles, Goes
<1>9. TempChosen(r)
  BY <1>1, <1>5, <1>7 DEF OutputInv, TempChosen, Goes
<1>10. ASSUME ~full, r.errors = 0
       PROVE  Output(r, fs') /\ (Alone(p) => Copied(r, fs', UnitsOf(p, r.code)))
  <2>1. /\ Output(run[p], fs) /\ (Alone(p) => Copied(run[p], fs, UserCode(p)))
        /\ r.target = o /\ r.temp = t
    BY <1>5, <1>7, <1>10 DEF OutputInv, Goes
  <2>2. o \in DOMAIN fs /\ fs[o] = <<Section("declarations")>>
    BY <1>7, <2>1 DEF Output
  <2>3. o # t
    BY <2>2, CompilerKnown, PathsApart DEF DriverInv
  <2>4. Output(r, fs')
    BY <1>6, <1>7, <2>1, <2>2, <2>3 DEF Output, Elsewhere
  <2>5. ASSUME Alone(p) PROVE Copied(r, fs', UnitsOf(p, r.code))
    <3>1. t \in DOMAIN fs /\ fs[t] = UnitsOf(p, n)
      BY <1>7, <2>1, <2>5 DEF Copied, UserCode, n
    <3>2. fs'[t] = UnitsOf(p, i)
      BY <1>1, <1>2, <1>10, <3>1, WriteAtEnd DEF i
    <3> QED
      BY <1>5, <1>6, <1>7, <2>1, <3>1, <3>2 DEF Copied
  <2> QED
    BY <2>4, <2>5
<1>11. Continues(p, r, {t})
  BY <1>1, <1>4, <1>5, <1>6, <1>7, <1>8, <1>9, <1>10 DEF Continues, Goes
<1> QED
  BY <1>11, ContinuesKeeps

\* A line after the second %% goes behind those before it, and its end where stdout is.
LEMMA EchoDoneOutputs ==
    ASSUME DriverInv, Outputs, NEW p \in Compilers, EchoDone(p)
    PROVE  Outputs'
<1> DEFINE t == run[p].target
           o == stdout(p)
           s == <<Section("text")>>
           l == Section("newline")
           text == Write(t, s)
           k == run[p].tail
           n == k + 1
           r == [run[p] EXCEPT !.tail = n]
<1>1. /\ run[p].pc = "the_end" /\ command' = command
      /\ fs' = [text EXCEPT ![o] = Append(text[o], l)]
      /\ run' = [run EXCEPT ![p].tail = n]
  BY DEF EchoDone, At
<1>2. k \in Nat /\ n \in Nat
  BY CompilerKnown DEF CompilerType
<1>3. o \in OutputsOf(p) /\ t \in OutputsOf(p) \cup {NoPath}
  BY CompilerKnown DEF OutputsOf
<1>4. s \in Seq(Units) /\ l \in Units /\ Section("text") \in Units
  BY SectionUnits DEF SectionNames
<1>5. Files(text) /\ Elsewhere({t}, fs, text) /\ DOMAIN text = DOMAIN fs
  BY <1>4, CompilerKnown, WriteFiles
<1>6. ~full /\ t \in DOMAIN fs => text[t] = fs[t] \o s
  BY DEF Write
<1> HIDE DEF text, n, k, o, l
<1>7. /\ Elsewhere({t, o}, fs, fs') /\ DOMAIN fs' = DOMAIN fs
      /\ o \in DOMAIN fs => fs'[o] = Append(text[o], l)
      /\ \A x \in DOMAIN fs : x # o => fs'[x] = text[x]
  BY <1>1, <1>5 DEF Elsewhere
<1>8. Moves(p, r)
  BY <1>1, CompilerKnown DEF Moves, TypeOK
<1>9. /\ Goes(p, "the_end", r) /\ r.tail = n /\ r.code = run[p].code
      /\ r.errors = run[p].errors /\ r.status = run[p].status
  BY <1>1, <1>2, CompilerKnown DEF Goes, CompilerType
<1> HIDE DEF r
<1>10. Stage(r) = "the_end" /\ Stage(run[p]) = "the_end" /\ OutputInv(p)
  BY <1>1, <1>9, StageRunning DEF Outputs, Goes
<1>11. FilesChosen(p, r)
  BY <1>9, <1>10 DEF OutputInv, FilesChosen, codegen_only, TwoFiles, LastFile, Goes
<1>12. TempChosen(r)
  BY <1>1, <1>9, <1>10 DEF OutputInv, TempChosen, Goes
<1>13. ASSUME ~full, r.errors = 0
       PROVE  Output(r, fs') /\ (Alone(p) => Copied(r, fs', UnitsOf(p, r.code)))
  <2>1. /\ run[p].errors = 0 /\ r.target = t /\ UserCode(p) = UnitsOf(p, r.code)
        /\ r.dec = run[p].dec /\ r.lang = run[p].lang /\ r.given = run[p].given /\ r.code \in Nat
    <3>1. r.code \in Nat
      BY <1>9 DEF Goes, CompilerType
    <3> QED
      BY <1>9, <1>13, <3>1 DEF Goes, UserCode
  <2>2. /\ TwoFiles(r) = TwoFiles(run[p]) /\ Before(r) = Before(run[p])
        /\ codegen_only(r) = codegen_only(run[p])
    BY <2>1 DEF TwoFiles, codegen_only, Before
  <2>3. Output(run[p], fs) /\ (Alone(p) => Copied(run[p], fs, UserCode(p)))
    BY <1>10, <1>13, <2>1 DEF OutputInv
  <2>4. t \in DOMAIN fs /\ fs[t] \in Seq(Units)
    <3>1. t \in DOMAIN fs
      BY <1>10, <2>3 DEF Output
    <3> QED
      BY <3>1, CompilerKnown DEF Files
  <2>5. /\ codegen_only(r) => t = o
        /\ ~codegen_only(r) => t # o /\ r.dec # o
        /\ TwoFiles(r) => r.dec # t /\ r.dec # o
    <3>1. FilesChosen(p, r) /\ t = LastFile(r)
      BY <1>10, <1>11, <1>13, <2>1 DEF FilesChosen
    <3>2. TwoFiles(r) => ~codegen_only(r) /\ t = r.def
      BY <3>1 DEF TwoFiles, LastFile
    <3> QED
      BY <1>10, <3>1, <3>2 DEF FilesChosen, LastFile, o
  <2>6. TwoFiles(r) => r.dec \in DOMAIN fs' /\ fs'[r.dec] = Declared
    <3>1. TwoFiles(r) => r.dec \in DOMAIN fs /\ fs[r.dec] = Declared
      BY <1>10, <2>1, <2>2, <2>3 DEF Output
    <3> QED
      BY <1>7, <2>5, <3>1 DEF Elsewhere
  <2>7. Output(r, fs')
    BY <1>7, <1>10, <2>1, <2>4, <2>6 DEF Output
  <2>8. ASSUME Alone(p) PROVE Copied(r, fs', UnitsOf(p, r.code))
    <3> DEFINE a == Before(r) \o UnitsOf(p, r.code) \o <<Section("end")>>
               tail == TailText(run[p])
               e == Section("text")
    <3>1. fs[t] = a \o tail
      BY <1>10, <2>1, <2>2, <2>3, <2>8 DEF Copied
    <3>2. a \in Seq(Units)
      <4>1. <<Section("end")>> \in Seq(Units)
        BY SectionUnits DEF SectionNames
      <4>2. Before(r) \o UnitsOf(p, r.code) \in Seq(Units)
        BY <2>1, BeforeTyped, UnitsTyped, ConcatProperties
      <4> QED
        BY <4>1, <4>2, ConcatProperties
    <3>3. text[t] = Append(a \o tail, e)
      <4>1. fs[t] \o s = Append(fs[t], e)
        BY <1>4, <2>4, AppendIsConcat
      <4> QED
        BY <1>6, <1>13, <2>4, <3>1, <4>1
    <3>4. tail \in Seq(Units)
      BY <1>2, TailIsLines, LinesGrow, EndedLinesGrow DEF k
    <3> HIDE DEF a, tail, e
    <3>5. e \in Units
      BY <1>4 DEF e
    <3>6. a \o Append(tail, e) = Append(a \o tail, e)
      BY <3>2, <3>4, <3>5, AppendBehind
    <3>7. CASE codegen_only(r)
      <4>1. TailText(r) = Append(Append(tail, e), l)
        <5>1. TailText(r) = LinesEnded(k + 1) /\ tail = LinesEnded(k)
          BY <1>9, <2>2, <3>7, TailIsLines DEF tail, k, n
        <5> QED
          BY <1>2, <5>1, EndedLinesGrow DEF e, l
      <4>2. Append(tail, e) \in Seq(Units)
        BY <3>4, <3>5, AppendProperties
      <4>3. a \o Append(Append(tail, e), l) = Append(a \o Append(tail, e), l)
        BY <1>4, <3>2, <4>2, AppendBehind
      <4>4. fs'[t] = Append(text[t], l)
        BY <1>7, <2>4, <2>5, <3>7
      <4>5. fs'[t] = a \o TailText(r)
        BY <3>3, <3>6, <4>1, <4>3, <4>4
      <4> QED
        BY <1>10, <2>1, <4>5 DEF Copied, a
    <3>8. CASE ~codegen_only(r)
      <4>1. TailText(r) = Append(tail, e)
        <5>1. TailText(r) = Lines(k + 1) /\ tail = Lines(k)
          BY <1>9, <2>2, <3>8, TailIsLines DEF tail, k, n
        <5> QED
          BY <1>2, <5>1, LinesGrow DEF e
      <4>2. fs'[t] = text[t]
        BY <1>7, <2>4, <2>5, <3>8
      <4>3. fs'[t] = a \o TailText(r)
        BY <3>3, <3>6, <4>1, <4>2
      <4> QED
        BY <1>10, <2>1, <4>3 DEF Copied, a
    <3> QED
      BY <3>7, <3>8
  <2> QED
    BY <2>7, <2>8
<1>14. Continues(p, r, {t, o})
  BY <1>1, <1>3, <1>7, <1>8, <1>9, <1>10, <1>11, <1>12, <1>13 DEF Continues, Goes
<1> QED
  BY <1>14, ContinuesKeeps

-----------------------------------------------------------------------------
(* Errors and ends                                                         *)

\* A step after an error: nothing is claimed of what is written any more.
LEMMA ErrorOutputs ==
    ASSUME DriverInv, Outputs, NEW p \in Compilers, NEW r, NEW place, NEW Q,
           Moves(p, r), Goes(p, place, r), command' = command, Elsewhere(Q, fs, fs'),
           Q \subseteq OutputsOf(p) \cup {NoPath},
           r.errors # 0, r.code = run[p].code, r.tail = run[p].tail, r.status = run[p].status,
           \/ run[p].pc = "description" /\ place \in {"description", "the_end", "return"}
           \/ run[p].pc = "the_end" /\ place = "return"
    PROVE  Outputs'
<1>1. Stage(r) = place /\ r.pc = place /\ Stage(run[p]) = run[p].pc /\ OutputInv(p)
  BY StageRunning DEF Outputs, Goes
<1>2. FilesChosen(p, r)
  BY <1>1 DEF OutputInv, FilesChosen, codegen_only, TwoFiles, Goes
<1>3. TempChosen(r)
  BY <1>1 DEF OutputInv, TempChosen, Goes
<1>4. Continues(p, r, Q)
  BY <1>1, <1>2, <1>3 DEF Continues, Goes
<1> QED
  BY <1>4, ContinuesKeeps

LEMMA ReportErrorOutputs ==
    ASSUME DriverInv, Outputs, NEW p \in Compilers, ReportError(p)
    PROVE  Outputs'
<1> DEFINE r == [run[p] EXCEPT !.errors = 1]
<1>1. Moves(p, r)
  BY CompilerKnown DEF ReportError, Moves, TypeOK
<1>2. run[p].pc = "description" /\ fs' = fs /\ command' = command
  BY DEF ReportError, At
<1>3. /\ Goes(p, "description", r) /\ r.errors # 0 /\ r.code = run[p].code /\ r.tail = run[p].tail
      /\ r.status = run[p].status
  BY <1>2, CompilerKnown, SMTT(30) DEF Goes, CompilerType
<1> HIDE DEF r
<1>4. Elsewhere({}, fs, fs')
  BY <1>2 DEF Elsewhere
<1> QED
  BY <1>1, <1>2, <1>3, <1>4, ErrorOutputs

LEMMA SyntaxErrorOutputs ==
    ASSUME DriverInv, Outputs, NEW p \in Compilers, SyntaxError(p)
    PROVE  Outputs'
<1> DEFINE n == run[p].errors + 1
           r == [run[p] EXCEPT !.pc = "return", !.errors = n]
<1>1. Moves(p, r)
  BY CompilerKnown DEF SyntaxError, Moves, TypeOK
<1>2. run[p].pc \in {"description", "the_end"} /\ fs' = fs /\ command' = command
  BY DEF SyntaxError, At
<1>3. n \in Nat /\ n # 0
  BY CompilerKnown DEF CompilerType
<1> HIDE DEF n
<1>4. /\ Goes(p, "return", r) /\ r.errors # 0 /\ r.code = run[p].code /\ r.tail = run[p].tail
      /\ r.status = run[p].status
  <2>1. run[p] \in CompilerType(p)
    BY CompilerKnown
  <2>2. r \in CompilerType(p)
    BY <2>1, <1>3, ZenonT(40) DEF CompilerType, Places
  <2> QED
    BY <2>1, <2>2, <1>3 DEF Goes, CompilerType, Places
<1> HIDE DEF r
<1>5. Elsewhere({}, fs, fs')
  BY <1>2 DEF Elsewhere
<1> QED
  BY <1>1, <1>2, <1>4, <1>5, ErrorOutputs

\* A step that only goes on: from the description to the generators, or to the end.
LEMMA QuietGoOutputs ==
    ASSUME DriverInv, Outputs, NEW p \in Compilers, NEW r, NEW place,
           Moves(p, r), Goes(p, place, r), SameCounts(p, r), command' = command, fs' = fs,
           \/ run[p].pc = "description" /\ place = "emit"
           \/ run[p].pc = "the_end" /\ place = "return"
    PROVE  Outputs'
<1>1. Stage(r) = place /\ r.pc = place /\ Stage(run[p]) = run[p].pc /\ OutputInv(p)
  BY StageRunning DEF Outputs, Goes
<1>2. FilesChosen(p, r)
  BY <1>1 DEF OutputInv, FilesChosen, codegen_only, TwoFiles, LastFile, Goes, SameCounts
<1>3. TempChosen(r)
  BY <1>1 DEF OutputInv, TempChosen, Goes, SameCounts
<1>4. ASSUME ~full, r.errors = 0
      PROVE  Output(r, fs') /\ (Alone(p) => Copied(r, fs', UnitsOf(p, r.code)))
  <2>1. /\ run[p].errors = 0 /\ UserCode(p) = UnitsOf(p, r.code) /\ r.target = run[p].target
        /\ r.temp = run[p].temp /\ r.dec = run[p].dec /\ r.lang = run[p].lang
        /\ r.given = run[p].given /\ r.tail = run[p].tail
    BY <1>4 DEF Goes, SameCounts, UserCode
  <2>2. TwoFiles(r) = TwoFiles(run[p]) /\ Before(r) = Before(run[p]) /\ TailText(r) = TailText(run[p])
    BY <2>1 DEF TwoFiles, codegen_only, Before, TailText
  <2>3. Output(run[p], fs) /\ (Alone(p) => Copied(run[p], fs, UserCode(p)))
    BY <1>1, <1>4, <2>1 DEF OutputInv
  <2>4. Output(r, fs')
    BY <1>1, <2>1, <2>2, <2>3, SMTT(30) DEF Output
  <2>5. Alone(p) => Copied(r, fs', UnitsOf(p, r.code))
    BY <1>1, <2>1, <2>2, <2>3 DEF Copied
  <2> QED
    BY <2>4, <2>5
<1>5. Continues(p, r, {})
  BY <1>1, <1>2, <1>3, <1>4 DEF Continues, Goes, Elsewhere
<1> QED
  BY <1>5, ContinuesKeeps

LEMMA EndDescriptionOutputs ==
    ASSUME DriverInv, Outputs, NEW p \in Compilers, EndDescription(p)
    PROVE  Outputs'
<1>0. run[p].pc = "description" /\ command' = command
  BY DEF EndDescription, At
<1>1. CASE run[p].errors = 0
  <2>1. Go(p, "emit") /\ fs' = fs
    BY <1>1 DEF EndDescription
  <2>2. PICK r : Moves(p, r) /\ Goes(p, "emit", r) /\ SameCounts(p, r)
    BY <2>1, GoKeepsCounts, CompilerKnown DEF Places
  <2> QED
    BY <1>0, <2>1, <2>2, QuietGoOutputs
<1>2. CASE run[p].errors # 0
  <2> DEFINE t == run[p].target
  <2>1. Go(p, "the_end") /\ (fs' = fs \/ fs' = Unlink(t))
    BY <1>2 DEF EndDescription
  <2>2. PICK r : Moves(p, r) /\ Goes(p, "the_end", r) /\ SameCounts(p, r)
    BY <2>1, GoKeepsCounts, CompilerKnown DEF Places
  <2>3. Elsewhere({t}, fs, fs')
    <3>1. Elsewhere({t}, fs, Unlink(t))
      BY CompilerKnown, UnlinkFiles
    <3>2. Elsewhere({t}, fs, fs)
      BY DEF Elsewhere
    <3> QED
      BY <2>1, <3>1, <3>2
  <2>4. {t} \subseteq OutputsOf(p) \cup {NoPath}
    BY CompilerKnown
  <2>5. r.errors # 0 /\ r.code = run[p].code /\ r.tail = run[p].tail /\ r.status = run[p].status
    BY <1>2, <2>2 DEF SameCounts
  <2> QED
    BY <1>0, <2>2, <2>3, <2>4, <2>5, ErrorOutputs
<1> QED
  BY <1>1, <1>2

LEMMA EndOfSourceOutputs ==
    ASSUME DriverInv, Outputs, NEW p \in Compilers, EndOfSource(p)
    PROVE  Outputs'
<1>1. run[p].pc = "the_end" /\ Go(p, "return") /\ fs' = fs /\ command' = command
  BY DEF EndOfSource, At
<1>2. PICK r : Moves(p, r) /\ Goes(p, "return", r) /\ SameCounts(p, r)
  BY <1>1, GoKeepsCounts, CompilerKnown DEF Places
<1> QED
  BY <1>1, <1>2, QuietGoOutputs

\* Removing the temporary file leaves the output as it is.
LEMMA ReturnOutputs ==
    ASSUME DriverInv, Outputs, NEW p \in Compilers, ReturnFromMain(p)
    PROVE  Outputs'
<1> DEFINE s == IF run[p].errors = 0 THEN EX_OK ELSE EX_DATAERR
<1>1. Exit(p, s) /\ command' = command /\ run[p].pc = "return"
  BY DEF ReturnFromMain, At
<1>2. s \in Int
  BY DEF EX_OK, EX_DATAERR
<1>3. CASE run[p].errors # 0 \/ "v" \in run[p].given
  <2>1. s # EX_OK \/ "v" \in run[p].given
    BY <1>3 DEF EX_OK, EX_DATAERR
  <2> HIDE DEF s
  <2> QED
    BY <1>1, <1>2, <2>1, FailedExitOutputs
<1>4. CASE run[p].errors = 0 /\ "v" \notin run[p].given
  <2> DEFINE r == [run[p] EXCEPT !.pc = "exited", !.status = EX_OK, !.temp = NoPath]
             t == run[p].temp
             o == run[p].target
  <2>1. Moves(p, r) /\ fs' = Unlink(t)
    BY <1>1, <1>4, CompilerKnown DEF Moves, Exit, Ended, TypeOK
  <2>2. EX_OK \in Int
    BY DEF EX_OK
  <2>3. /\ r \in CompilerType(p) /\ r.pc = "exited" /\ r.temp = NoPath /\ r.name = run[p].name
        /\ r.given = run[p].given /\ r.status = EX_OK /\ r.lang = run[p].lang /\ r.dec = run[p].dec
        /\ r.def = run[p].def /\ r.target = o /\ r.code = run[p].code /\ r.tail = run[p].tail
        /\ r.errors = run[p].errors
    <3>1. run[p] \in CompilerType(p)
      BY CompilerKnown
    <3>2. r \in CompilerType(p)
      BY <3>1, <2>2, ZenonT(40) DEF CompilerType, Places
    <3> QED
      BY <3>1, <3>2, <2>2 DEF CompilerType, Places
  <2> HIDE DEF r
  <2>4. Stage(r) = "return" /\ Stage(run[p]) = "return" /\ OutputInv(p)
    BY <1>1, <1>4, <2>3, StageRunning DEF Stage, Compiled, Outputs
  <2>5. FilesChosen(p, r)
    BY <2>3, <2>4 DEF OutputInv, FilesChosen, codegen_only, TwoFiles, LastFile
  <2>6. TempChosen(r)
    BY <1>4, <2>3, <2>4 DEF OutputInv, TempChosen
  <2>7. Elsewhere({t}, fs, fs')
    BY <2>1, CompilerKnown, UnlinkFiles
  <2>8. ASSUME ~full, r.errors = 0
        PROVE  Output(r, fs') /\ (Alone(p) => Copied(r, fs', UnitsOf(p, r.code)))
    <3>1. UserCode(p) = UnitsOf(p, r.code)
      BY <2>3 DEF UserCode
    <3>2. /\ TwoFiles(r) = TwoFiles(run[p]) /\ Before(r) = Before(run[p])
          /\ TailText(r) = TailText(run[p])
      BY <2>3 DEF TwoFiles, codegen_only, Before, TailText
    <3>3. Output(run[p], fs) /\ (Alone(p) => Copied(run[p], fs, UserCode(p)))
      BY <1>4, <2>4, <2>8 DEF OutputInv
    <3>4. \A x \in OutputsOf(p) \cup {NoPath} : x \in DOMAIN fs => x \in DOMAIN fs' /\ fs'[x] = fs[x]
      BY <2>7, CompilerKnown, PathsApart DEF Elsewhere, DriverInv
    <3>5. o \in OutputsOf(p) \cup {NoPath} /\ r.dec \in OutputsOf(p) \cup {NoPath}
      BY <2>3, CompilerKnown DEF CompilerType
    <3>6. o \in DOMAIN fs
      BY <2>4, <3>3 DEF Output
    <3>7. o \in DOMAIN fs' /\ fs'[o] = fs[o]
      BY <3>4, <3>5, <3>6
    <3>8. TwoFiles(r) => r.dec \in DOMAIN fs' /\ fs'[r.dec] = Declared
      BY <2>3, <2>4, <3>2, <3>3, <3>4, <3>5 DEF Output
    <3>9. Output(r, fs')
      BY <2>3, <2>4, <3>7, <3>8 DEF Output
    <3>10. Alone(p) => Copied(r, fs', UnitsOf(p, r.code))
      BY <2>3, <2>4, <3>1, <3>2, <3>3, <3>7 DEF Copied
    <3> QED
      BY <3>9, <3>10
  <2>9. Continues(p, r, {t})
    BY <1>1, <2>1, <2>3, <2>4, <2>5, <2>6, <2>7, <2>8 DEF Continues
  <2> QED
    BY <2>9, ContinuesKeeps
<1> QED
  BY <1>3, <1>4

-----------------------------------------------------------------------------
(* The theorem about the output                                            *)

\* Once the disk is full nothing is claimed of what is written.
LEMMA UnchangedOutputs ==
    ASSUME DriverInv, Outputs, run' = run, fs' = fs, full' = full \/ full'
    PROVE  Outputs'
<1> SUFFICES ASSUME NEW p \in Compilers PROVE OutputInv(p)'
  BY DEF Outputs
<1>1. OutputInv(p)
  BY DEF Outputs
<1>2. UserCode(p)' = UserCode(p) /\ Alone(p)' = Alone(p)
  BY DEF UserCode, UnitsOf, Alone
<1> QED
  BY <1>1, <1>2 DEF OutputInv

LEMMA InitOutputs == Init => Outputs
<1> SUFFICES ASSUME Init, NEW p \in Compilers PROVE OutputInv(p)
  BY DEF Outputs
<1>0. PICK k \in Commands :
          \E src \in [k.procs -> k.directories \X k.extensions], there \in SUBSET k.procs :
              Starts(k, src, there)
  BY DEF Init
<1>1. PICK src \in [k.procs -> k.directories \X k.extensions], there \in SUBSET k.procs :
          Starts(k, src, there)
  BY <1>0
<1> DEFINE source(q) == IF q \in k.procs THEN <<src[q][1], q, src[q][2]>> ELSE NoPath
           r == run[p]
<1>2. run = [q \in Compilers |->
               [pc |-> IF q \in k.procs THEN "options" ELSE "exited", source |-> source(q),
                given |-> {}, lang |-> NoLanguage, x |-> NoLanguage,
                dec |-> NoPath, def |-> NoPath, target |-> NoPath, name |-> NoPath, temp |-> NoPath,
                code |-> 0, reading |-> <<>>, tail |-> 0, errors |-> 0, status |-> Running]]
  BY <1>1 DEF Starts
<1>3. fs = [q \in {source(u) : u \in there} \cup {stdout(u) : u \in k.procs} |->
                    IF q[1] = "stdout" THEN <<>> ELSE <<Section("source")>>]
  BY <1>1 DEF Starts
<1> HIDE DEF source
<1>4. /\ r.pc = IF p \in k.procs THEN "options" ELSE "exited"
      /\ r.dec = NoPath /\ r.def = NoPath /\ r.name = NoPath /\ r.temp = NoPath
      /\ r.code = 0 /\ r.tail = 0 /\ r.status = Running
  BY <1>2
<1> HIDE DEF r
<1>5. Stage(r) = r.pc
  BY <1>4 DEF Stage, Compiled, Running, EX_OK
<1>6. NoPath # stdout(p)
  BY DEF NoPath, stdout
<1>7. FilesChosen(p, r)
  BY <1>4, <1>5, <1>6 DEF FilesChosen
<1>8. TempChosen(r)
  BY <1>4, <1>5 DEF TempChosen
<1>9. Output(r, fs) /\ Copied(r, fs, UserCode(p))
  BY <1>4, <1>5 DEF Output, Copied
<1>10. p \in k.procs => stdout(p) \in DOMAIN fs /\ fs[stdout(p)] = <<>>
  <2>1. stdout(p)[1] = "stdout"
    BY DEF stdout
  <2> QED
    BY <1>3, <2>1
<1> QED
  BY <1>4, <1>5, <1>7, <1>8, <1>9, <1>10 DEF OutputInv, r

LEMMA NextOutputs == DriverInv /\ Outputs /\ [Next]_vars => Outputs'
<1> SUFFICES ASSUME DriverInv, Outputs, [Next]_vars PROVE Outputs'
  OBVIOUS
<1>1. ASSUME NEW p \in Compilers, Step(p) PROVE Outputs'
  BY <1>1, CheckOptionsOutputs, ChooseFilesOutputs, OpenSourceOutputs, OpenTargetOutputs,
     OpenFailsOutputs, MakeTempNameOutputs, OpenTempOutputs, EchoDeclarationsOutputs,
     EndDescriptionOutputs, EmitDeclarationOutputs, SwitchTargetOutputs, EmitDefinitionOutputs,
     ReopenTempOutputs, CopyBlockOutputs, EmitTheEndOutputs, EndOfSourceOutputs, ReturnOutputs
     DEF Step
<1>2. ASSUME NEW p \in Compilers, Input(p) PROVE Outputs'
  BY <1>2, GiveOptionOutputs, OpenFailsOutputs, EchoUserCodeOutputs, ReportErrorOutputs,
     SyntaxErrorOutputs, EchoDoneOutputs DEF Input
<1>3. CASE UNCHANGED vars
  BY <1>3, UnchangedOutputs DEF vars, full
<1>4. CASE DiskFull
  <2>1. full' /\ run' = run /\ fs' = fs
    BY <1>4 DEF DiskFull, full, DriverInv, TypeOK
  <2> QED
    BY <2>1, UnchangedOutputs
<1>5. Next => (\E p \in Compilers : Step(p) \/ Input(p)) \/ DiskFull \/ UNCHANGED vars
  BY DEF Next, Exited
<1> QED
  BY <1>1, <1>2, <1>3, <1>4, <1>5

\* Where each compiler is, its files have what they should have by then, and nobody else
\* writes to them.
THEOREM OutputInvariant == Spec => []DriverOutputInv
<1>1. DriverOutputInv <=> DriverInv /\ Outputs
  BY DEF DriverOutputInv, Outputs
<1>2. Init => DriverInv /\ Outputs
  BY InitInv, InitOutputs
<1>3. DriverInv /\ Outputs /\ [Next]_vars => (DriverInv /\ Outputs)'
  BY NextInv, NextOutputs
<1> QED
  BY <1>1, <1>2, <1>3, PTL DEF Spec

\* A compiler that reports success has written the whole of its output in the language asked
\* for: for any number of compilers at once, any options, any amount of user code and
\* any size of the blocks copy_to() copies it in.
THEOREM OutputIsComplete == Spec => []OutputComplete
<1>1. DriverOutputInv /\ LanguageAsGiven => OutputComplete
  <2> SUFFICES ASSUME DriverInv, Outputs, NEW p \in Compilers, Compiled(run[p]), ~full, Alone(p)
               PROVE  /\ fs[LastFile(run[p])] = Before(run[p]) \o UserCode(p) \o <<Section("end")>>
                                                    \o TailText(run[p])
                      /\ TwoFiles(run[p]) => fs[run[p].dec] = Declared
    BY DEF OutputComplete, DriverOutputInv, Outputs
  <2>1. FilesChosen(p, run[p]) /\ TempChosen(run[p])
    BY DEF Outputs, OutputInv
  <2>2. run[p].pc = "exited" /\ Stage(run[p]) = "return"
    BY <2>1 DEF TempChosen, Stage, Compiled, Running, EX_OK
  <2>3. run[p].errors = 0
    BY <2>1, <2>2 DEF TempChosen
  <2>4. run[p].target = LastFile(run[p])
    BY <2>1, <2>2, <2>3 DEF FilesChosen
  <2>5. Output(run[p], fs) /\ Copied(run[p], fs, UserCode(p))
    BY <2>3 DEF Outputs, OutputInv
  <2> QED
    BY <2>2, <2>4, <2>5 DEF Output, Copied
<1> QED
  BY <1>1, OutputInvariant, LanguageStaysAsGiven, PTL
=============================================================================
