------------------------------ MODULE BuildAll ------------------------------
(***************************************************************************)
(* build_all_claude_logger.bat: builds protobuf (and, if asked, Abseil)    *)
(* for every selected architecture, configuration and library type with    *)
(* CMake, logs a result per task, and collects the artifacts of all build  *)
(* directories in one output tree.  Build directories and outputs outlive  *)
(* a run of the script, so the model runs it several times.                *)
(*                                                                         *)
(* An artifact is the number of the run that made it, or found it up to    *)
(* date, and 0 if it is missing.                                           *)
(* The library of a build is its .lib and, for a DLL build, its .dll.      *)
(***************************************************************************)
EXTENDS Integers, Sequences, SequencesExt

CONSTANTS
  Configs,    \* the configurations, in the order in which they are built
  Settings,   \* the values the CONFIGURATION FLAGS may be given before a run
  MaxRuns     \* bound: runs of the script

ASSUME ConfigsAssumption == /\ Configs \in Seq({"Release", "Debug"}) /\ "Release" \in ToSet(Configs)
                            /\ \A i, j \in DOMAIN Configs : Configs[i] = Configs[j] => i = j
ASSUME RunsAssumption == MaxRuns \in Nat

\* What a run of the script depends on: the flags, which may have any value,
\* and the source directories that exist.
FlagNames == {"USE_EXTERNAL_ABSEIL", "BUILD_SHARED_LIBS", "BUILD_ARCHITECTURE",
              "STOP_ON_PROTOBUF_ERROR", "CLEAN_ABSEIL_BUILDS", "CLEAN_PROTOBUF_BUILDS",
              "sources"}
ASSUME SettingsAssumption == \A s \in Settings : DOMAIN s = FlagNames

VARIABLES
  run,        \* number of the current run, or of the last one
  settings,   \* the flags of the run
  pc,         \* the command to be executed next
  todo,       \* tasks of the current stage that are not finished
  log,        \* RESULT_FILE
  builds,     \* protobuf-builds: artifacts in each build directory
  abseil,     \* abseil-builds and abseil-installs
  bin,        \* outputs\bin: where the .exe and the .dll come from
  lib,        \* outputs\lib: where libprotobuf.lib comes from
  include,    \* outputs\include
  lost        \* copies of this run that failed (nothing in the script knows)

vars == <<run, settings, pc, todo, log, builds, abseil, bin, lib, include, lost>>

-----------------------------------------------------------------------------
(* Flags.  "set NAME=VALUE   " puts the spaces into the value, and an if   *)
(* compares all of it: a padded value equals no literal.                   *)

Value(text, padded) == [text |-> text, padded |-> padded]
Equals(flag, literal) == flag = Value(literal, FALSE)

Selected(architecture) ==
  CASE Equals(architecture, "ALL")   -> <<"x64", "Win32">>
    [] Equals(architecture, "X64")   -> <<"x64">>
    [] Equals(architecture, "WIN32") -> <<"Win32">>
    [] OTHER                         -> <<>>

-----------------------------------------------------------------------------
(* Tasks and the directories they work in.                                 *)

ProtoBuf(arch, config, type) == [arch |-> arch, config |-> config, type |-> type]
Abseil(arch, config)         == ProtoBuf(arch, config, "ABSEIL")
Copy(name)                   == ProtoBuf("outputs", "outputs", name)
Copies == <<Copy("Copy_Bin_Files"), Copy("Copy_Lib_Files"), Copy("Copy_Header_Files")>>

ConfigSet == ToSet(Configs)
Places    == {"x64", "Win32"} \X ConfigSet
Builds    == [arch : {"x64", "Win32"}, config : ConfigSet, type : {"LIB", "DLL"}]

AbseilTasks(architecture) ==
  FlattenSeq([a \in DOMAIN Selected(architecture) |->
    [c \in DOMAIN Configs |-> Abseil(Selected(architecture)[a], Configs[c])]])

ProtoBufTasks(architecture) ==
  FlattenSeq([a \in DOMAIN Selected(architecture) |->
    FlattenSeq([c \in DOMAIN Configs |->
      <<ProtoBuf(Selected(architecture)[a], Configs[c], "LIB"),
        ProtoBuf(Selected(architecture)[a], Configs[c], "DLL")>>])])

NoBuild    == [library |-> 0, exe |-> 0]
NoFile     == [type |-> "none", run |-> 0]
Task       == Head(todo)
TaskPlace  == <<Task.arch, Task.config>>
External   == Equals(settings.USE_EXTERNAL_ABSEIL, "ON")

-----------------------------------------------------------------------------
(* :logResult and the end of a task.  "exit /b 1" leaves the subroutine,   *)
(* as "goto :eof" does; the script goes on after the call either way.      *)

LogResult(task, result) == log' = Append(log, [task |-> task, result |-> result])

\* Mutant: a failed task is repeated until it passes.
UntilPassed(result, stage) ==
  /\ pc' = stage
  /\ IF result = "PASSED" THEN LogResult(Task, result) /\ todo' = Tail(todo)
                          ELSE UNCHANGED <<log, todo>>

\* Mutant: the first failure ends the build stage.
StopOnFailure(result, stage) ==
  /\ LogResult(Task, result)
  /\ todo' = IF result = "PASSED" THEN Tail(todo) ELSE <<>>
  /\ pc' = stage

EndTask(result, stage) ==
  /\ LogResult(Task, result)
  /\ todo' = Tail(todo)
  /\ pc' = stage

\* The user sets the flags and starts the script; the old log is overwritten.
StartScript(s) ==
  /\ pc = "idle"
  /\ run < MaxRuns
  /\ run' = run + 1
  /\ settings' = s
  /\ log' = <<>>
  /\ todo' = IF Equals(s.USE_EXTERNAL_ABSEIL, "ON")
             THEN AbseilTasks(s.BUILD_ARCHITECTURE) ELSE <<>>
  /\ pc' = "abseil"
  /\ lost' = {}
  /\ UNCHANGED <<builds, abseil, bin, lib, include>>

-----------------------------------------------------------------------------
(* :buildAbseilWithLog.                                                    *)

\* The install directory is created before anything is built.
AbseilPrepare ==
  /\ pc = "abseil" /\ todo # <<>>
  /\ \/ /\ "abseil" \notin settings.sources
        /\ EndTask("FAILED", "abseil")
        /\ UNCHANGED abseil
     \/ /\ "abseil" \in settings.sources
        /\ abseil' = [abseil EXCEPT
             ![TaskPlace] = [built |-> IF Equals(settings.CLEAN_ABSEIL_BUILDS, "ON")
                                       THEN 0 ELSE @.built,
                             installDir |-> TRUE, installed |-> @.installed,
                             dlls |-> @.dlls]]
        /\ pc' = "absl_configure"
        /\ UNCHANGED <<todo, log>>
  /\ UNCHANGED <<run, settings, builds, bin, lib, include, lost>>

AbseilConfigure ==
  /\ pc = "absl_configure"
  /\ \/ EndTask("FAILED", "abseil")
     \/ pc' = "absl_build" /\ UNCHANGED <<todo, log>>
  /\ UNCHANGED <<run, settings, builds, abseil, bin, lib, include, lost>>

AbseilBuild ==
  /\ pc = "absl_build"
  /\ \/ /\ EndTask("FAILED", "abseil")
        /\ UNCHANGED abseil
     \/ /\ abseil' = [abseil EXCEPT ![TaskPlace].built = run]
        /\ pc' = "absl_install"
        /\ UNCHANGED <<todo, log>>
  /\ UNCHANGED <<run, settings, builds, bin, lib, include, lost>>

\* CMake is given BUILD_SHARED_LIBS as a word of the command line, unpadded.
AbseilInstall ==
  /\ pc = "absl_install"
  /\ \/ /\ EndTask("FAILED", "abseil")
        /\ UNCHANGED abseil
     \/ /\ abseil' = [abseil EXCEPT
             ![TaskPlace].installed = run,
             ![TaskPlace].dlls = IF settings.BUILD_SHARED_LIBS.text = "ON" THEN run ELSE @]
        /\ EndTask("PASSED", "abseil")
  /\ UNCHANGED <<run, settings, builds, bin, lib, include, lost>>

-----------------------------------------------------------------------------
(* :buildProtoBufWithLog.                                                  *)

\* An unrecognized architecture becomes X64, after the Abseil stage has used it.
ChooseArchitecture ==
  LET given == settings.BUILD_ARCHITECTURE
      used  == IF Selected(given) = <<>> THEN Value("X64", FALSE) ELSE given IN
  /\ pc = "abseil" /\ todo = <<>>
  /\ settings' = [settings EXCEPT !.BUILD_ARCHITECTURE = used]
  /\ todo' = ProtoBufTasks(used)
  /\ pc' = "protobuf"
  /\ UNCHANGED <<run, log, builds, abseil, bin, lib, include, lost>>

\* Mutant: the removed build directory is not created again.
CleanedAway ==
  IF Equals(settings.CLEAN_PROTOBUF_BUILDS, "ON") \/ Task.type = "DLL"
  THEN [t \in DOMAIN builds \ {Task} |-> builds[t]] ELSE builds

\* Mutant: the name of the build directory to remove lacks the library type.
CleanBothTypes ==
  IF Equals(settings.CLEAN_PROTOBUF_BUILDS, "ON") \/ Task.type = "DLL"
  THEN [t \in Builds |-> IF <<t.arch, t.config>> = TaskPlace THEN NoBuild ELSE builds[t]]
  ELSE builds

\* The build directories after the cleaning; that of a DLL is always removed.
Cleaned ==
  IF Equals(settings.CLEAN_PROTOBUF_BUILDS, "ON") \/ Task.type = "DLL"
  THEN [builds EXCEPT ![Task] = NoBuild] ELSE builds

ProtoBufPrepare ==
  /\ pc = "protobuf" /\ todo # <<>>
  /\ \/ /\ "protobuf" \notin settings.sources
        /\ EndTask("FAILED", "protobuf")
        /\ UNCHANGED builds
     \/ /\ "protobuf" \in settings.sources
        /\ builds' = Cleaned
        /\ External /\ ~abseil[TaskPlace].installDir
        /\ EndTask("FAILED", "protobuf")
     \/ /\ "protobuf" \in settings.sources
        /\ builds' = Cleaned
        /\ External => abseil[TaskPlace].installDir
        /\ pc' = "configure"
        /\ UNCHANGED <<todo, log>>
  /\ UNCHANGED <<run, settings, abseil, bin, lib, include, lost>>

\* With the package provider, find_package needs an installed Abseil.
ProtoBufConfigure ==
  /\ pc = "configure"
  /\ \/ EndTask("FAILED", "protobuf")
     \/ /\ External => abseil[TaskPlace].installed > 0
        /\ pc' = "build"
        /\ UNCHANGED <<todo, log>>
  /\ UNCHANGED <<run, settings, builds, abseil, bin, lib, include, lost>>

\* Mutant: the result of the build is not tested.
ProtoBufBuildUntested ==
  /\ pc = "build"
  /\ \/ builds' = [builds EXCEPT ![Task] = [library |-> run, exe |-> run]]
     \/ UNCHANGED builds
  /\ EndTask("PASSED", "protobuf")
  /\ UNCHANGED <<run, settings, abseil, bin, lib, include, lost>>

\* A build that fails may have made the library, or the library and protoc.
ProtoBufBuild ==
  /\ pc = "build"
  /\ \/ /\ builds' = [builds EXCEPT ![Task] = [library |-> run, exe |-> run]]
        /\ EndTask("PASSED", "protobuf")
     \/ /\ builds' \in {builds,
                        [builds EXCEPT ![Task].library = run],
                        [builds EXCEPT ![Task] = [library |-> run, exe |-> run]]}
        /\ EndTask("FAILED", "protobuf")
  /\ UNCHANGED <<run, settings, abseil, bin, lib, include, lost>>

-----------------------------------------------------------------------------
(* The output tree.  Copying goes over every build directory there is, LIB *)
(* before DLL, whatever this run selected; what it does not replace stays. *)

\* Bound: the copying of one build directory's files fails in a step.
Failures(S) == {{}} \cup {{t} : t \in S}
HasBin(t)   == builds[t].exe > 0 \/ (t.type = "DLL" /\ builds[t].library > 0)
HasLib(t)   == builds[t].library > 0

\* What can be copied from the LIB and the DLL build of p.
LibOf(p, failed) == LET t == ProtoBuf(p[1], p[2], "LIB") IN
                    IF t \in failed THEN NoBuild ELSE builds[t]
DllOf(p, failed) == LET t == ProtoBuf(p[1], p[2], "DLL") IN
                    IF t \in failed THEN NoBuild ELSE builds[t]
Lost(dir, failed) == {<<dir, <<t.arch, t.config>>>> : t \in failed}
File(type, made) == [type |-> type, run |-> made]

\* Mutant: the DLL builds come first.
CopiedDllFirst(fromLib, fromDll, old) ==
  IF fromLib > 0 THEN File("LIB", fromLib)
  ELSE IF fromDll > 0 THEN File("DLL", fromDll) ELSE old

\* What a file that both builds may provide becomes.
Copied(fromLib, fromDll, old) ==
  IF fromDll > 0 THEN File("DLL", fromDll)
  ELSE IF fromLib > 0 THEN File("LIB", fromLib) ELSE old

CopyBinFiles ==
  /\ pc = "protobuf" /\ todo = <<>>
  /\ \E failed \in Failures({t \in Builds : HasBin(t)}) :
       /\ bin' = [p \in Places |->
            LET L == LibOf(p, failed)
                D == DllOf(p, failed) IN
            [exe  |-> Copied(L.exe, D.exe, bin[p].exe),
             dll  |-> IF D.library > 0 THEN File("DLL", D.library) ELSE bin[p].dll,
             absl |-> IF /\ External /\ Equals(settings.BUILD_SHARED_LIBS, "ON")
                         /\ abseil[p].dlls > 0
                      THEN abseil[p].dlls ELSE bin[p].absl]]
       /\ lost' = Lost("bin", failed)
  /\ LogResult(Copy("Copy_Bin_Files"), "PASSED")
  /\ pc' = "copy_lib"
  /\ UNCHANGED <<run, settings, todo, builds, abseil, lib, include>>

\* The static library and the import library of the DLL have the same name.
CopyLibFiles ==
  /\ pc = "copy_lib"
  /\ \E failed \in Failures({t \in Builds : HasLib(t)}) :
       /\ lib' = [p \in Places |->
            [libprotobuf |-> Copied(LibOf(p, failed).library, DllOf(p, failed).library,
                                    lib[p].libprotobuf),
             absl |-> IF External /\ abseil[p].installed > 0
                      THEN abseil[p].installed ELSE lib[p].absl]]
       /\ lost' = lost \cup Lost("lib", failed)
  /\ LogResult(Copy("Copy_Lib_Files"), "PASSED")
  /\ pc' = "copy_headers"
  /\ UNCHANGED <<run, settings, todo, builds, abseil, bin, include>>

\* Abseil's headers are taken from the x64 Release installation only.
CopyHeaderFiles ==
  LET installed == abseil[<<"x64", "Release">>].installed
      found == (IF "protobuf" \in settings.sources THEN {"google"} ELSE {})
                 \cup (IF External /\ installed > 0 THEN {"absl"} ELSE {}) IN
  /\ pc = "copy_headers"
  /\ \E copied \in SUBSET found :
       /\ include' = [google |-> IF "google" \in copied THEN run ELSE include.google,
                      absl   |-> IF "absl" \in copied THEN installed ELSE include.absl]
       /\ lost' = lost \cup {<<"include", <<h>>>> : h \in found \ copied}
  /\ LogResult(Copy("Copy_Header_Files"), "PASSED")
  /\ pc' = "complete"
  /\ UNCHANGED <<run, settings, todo, builds, abseil, bin, lib>>

BuildComplete ==
  /\ pc = "complete"
  /\ pc' = "idle"
  /\ UNCHANGED <<run, settings, todo, log, builds, abseil, bin, lib, include, lost>>

-----------------------------------------------------------------------------
\* Nothing has been built yet.
Init ==
  /\ run = 0
  /\ settings \in Settings
  /\ pc = "idle" /\ todo = <<>> /\ log = <<>>
  /\ builds = [t \in Builds |-> NoBuild]
  /\ abseil = [p \in Places |-> [built |-> 0, installDir |-> FALSE, installed |-> 0, dlls |-> 0]]
  /\ bin = [p \in Places |-> [exe |-> NoFile, dll |-> NoFile, absl |-> 0]]
  /\ lib = [p \in Places |-> [libprotobuf |-> NoFile, absl |-> 0]]
  /\ include = [google |-> 0, absl |-> 0]
  /\ lost = {}

Script ==
  \/ AbseilPrepare \/ AbseilConfigure \/ AbseilBuild \/ AbseilInstall
  \/ ChooseArchitecture \/ ProtoBufPrepare \/ ProtoBufConfigure \/ ProtoBufBuild
  \/ CopyBinFiles \/ CopyLibFiles \/ CopyHeaderFiles \/ BuildComplete

Next == Script \/ \E s \in Settings : StartScript(s)

Spec     == Init /\ [][Next]_vars
\* The commands the script waits for end; nobody need start it again.
FairSpec == Spec /\ WF_vars(Script)

-----------------------------------------------------------------------------
(* Every variable has its type.                                            *)
TypeOK ==
  LET Stamp == 0..run
      Files == [type : {"none", "LIB", "DLL"}, run : Stamp] IN
  /\ run \in 0..MaxRuns
  /\ pc \in {"idle", "abseil", "absl_configure", "absl_build", "absl_install", "protobuf",
             "configure", "build", "copy_lib", "copy_headers", "complete"}
  /\ builds \in [Builds -> [library : Stamp, exe : Stamp]]
  /\ abseil \in [Places -> [built : Stamp, installDir : BOOLEAN, installed : Stamp,
                              dlls : Stamp]]
  /\ bin \in [Places -> [exe : Files, dll : Files, absl : Stamp]]
  /\ lib \in [Places -> [libprotobuf : Files, absl : Stamp]]
  /\ include \in [google : Stamp, absl : Stamp]

Results(t) == {log[i].result : i \in {j \in DOMAIN log : log[j].task = t}}

(* Whatever fails, every selected configuration is attempted once, in      *)
(* order, and has one line in result.txt, before the three copy steps.     *)
EveryTaskLogged ==
  LET wanted == ProtoBufTasks(settings.BUILD_ARCHITECTURE) \o Copies
      tasks  == [i \in DOMAIN log |-> log[i].task] IN
  pc = "complete" =>
    tasks \in {wanted, AbseilTasks(settings.BUILD_ARCHITECTURE) \o wanted}

(* A configuration that result.txt calls PASSED has a library and a protoc *)
(* made by this run in its build directory, and nothing the script does    *)
(* later in the run removes or replaces them.                              *)
PassedIsBuilt ==
  \A t \in Builds : (pc # "idle" /\ "PASSED" \in Results(t)) =>
                      builds[t] = [library |-> run, exe |-> run]

(* A task works in its own build directory only, so that the failure or    *)
(* the cleaning of one configuration leaves the others alone.              *)
BuildsIndependent ==
  [][\A t \in Builds : builds'[t] # builds[t] => todo # <<>> /\ t = Head(todo)]_vars

(* After a DLL build that passed, protoc.exe, the DLL and the import       *)
(* library in the output tree belong together, although the LIB build and  *)
(* earlier runs put files with the same names there.                       *)
DllOutputsMatch ==
  \A p \in Places :
    (/\ pc = "complete" /\ <<"bin", p>> \notin lost /\ <<"lib", p>> \notin lost
     /\ "PASSED" \in Results(ProtoBuf(p[1], p[2], "DLL"))) =>
       {bin[p].exe, bin[p].dll, lib[p].libprotobuf} = {File("DLL", run)}

(* A run of the script ends if the commands it calls do.                   *)
Completes == pc # "idle" ~> pc = "idle"

-----------------------------------------------------------------------------
(* What the README and the script's comments say and the script does not.  *)

(* README.md, STOP_ON_PROTOBUF_ERROR: "ON=Hata durumunda dur", ON stops in *)
(* case of an error.                                                       *)
StopsOnError ==
  ~ /\ pc = "configure"
    /\ Equals(settings.STOP_ON_PROTOBUF_ERROR, "ON")
    /\ \E t \in Builds : "FAILED" \in Results(t)

=============================================================================
