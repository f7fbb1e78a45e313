-------------------------------- MODULE Lcov --------------------------------
(***************************************************************************)
(* tools/lcov.py, run again and again in the build directory between     *)
(* builds.  A run executes the seven unit-test binaries, which write a   *)
(* .gcda file beside every object file they ran; walks CMakeFiles and    *)
(* captures every .gcda file but geodata.cpp.gcda into                    *)
(* tracefiles/<root with '/' as '_'>_<file>.info; merges every file of   *)
(* tracefiles/ into coverage.info; removes the "/usr*", "extras/*" and   *)
(* "tests/*" sources from it; and renders it into html/.  Every tool is  *)
(* run with os.system and its exit status is ignored; a tool that fails  *)
(* leaves its output file as it was.  Nothing is ever deleted:          *)
(* tracefiles/, coverage.info and html/ outlive the run, and the object  *)
(* files outlive a build that no longer has them; only "lcov -z", which  *)
(* the script has commented out and a developer may run by hand, deletes *)
(* the .gcda files.                                                       *)
(*                                                                         *)
(* The coverage data of an object file is abstracted to the build it was *)
(* written by (a build number); a tracefile and the report hold pairs    *)
(* <<object file, build>>.  The lcov and genhtml tools are modelled by   *)
(* what they do to these files.                                          *)
(***************************************************************************)
EXTENDS Integers, SequencesExt, FiniteSets

CONSTANTS Objs,      \* object files: [dirs, file, matched] (matched: its
                     \* sources match one of the --remove patterns)
          MaxBuild,  \* the builds a behaviour may make
          NoFile     \* a file that does not exist

\* No .gcda file beside the object file.
Absent == -1

\* The file the walk leaves out, in whatever directory it is.
Skipped == "geodata.cpp.gcda"

\* Mutant: the tracefile is named after the .gcda file alone.
TraceNameFileOnly(o) == o.file \o ".info"

\* 'tracefiles/' + root.replace('/', '_') + '_' + file + '.info', with
\* root = 'CMakeFiles/' + the directories below it joined by '/'.
TraceName(o) ==
    FoldLeft(LAMBDA acc, d : acc \o "_" \o d, "CMakeFiles", o.dirs)
        \o "_" \o o.file \o ".info"

VARIABLES built,   \* the object files of the current build
          bver,    \* the number of the current build
          gcda,    \* the build each object file's .gcda was written by, or Absent
          cpc,     \* "idle" between runs, else the statement the run is at
          todo,    \* the .gcda files the walk has still to capture
          traces,  \* tracefiles/: a function from file name to its pair
          cov,     \* coverage.info: a set of pairs, or NoFile
          report   \* html/: the pairs it shows, or NoFile

lvars == <<built, bver, gcda, cpc, todo, traces, cov, report>>

Init ==
    /\ built \in SUBSET Objs \ {{}} /\ bver = 0
    /\ gcda = [o \in Objs |-> Absent]
    /\ cpc = "idle" /\ todo = {}
    /\ traces = <<>> /\ cov = NoFile /\ report = NoFile

\* The developer changes the sources and builds: the object files of the
\* new build are made; those of the old one stay where they are, .gcda
\* files included.
Build(S) ==
    /\ cpc = "idle" /\ bver < MaxBuild
    /\ built' = S /\ bver' = bver + 1
    /\ UNCHANGED <<gcda, cpc, todo, traces, cov, report>>

\* The developer zeroes the counters by hand with "lcov -z -d
\* ./CMakeFiles", the command the script has commented out: lcov deletes
\* every .gcda file.
ZeroCounters ==
    /\ cpc = "idle" /\ \E o \in Objs : gcda[o] # Absent
    /\ gcda' = [o \in Objs |-> Absent]
    /\ UNCHANGED <<built, bver, cpc, todo, traces, cov, report>>

\* The .gcda files os.walk('CMakeFiles') yields that pass the filter.
Walked(g) == {o \in Objs : g[o] # Absent /\ o.file # Skipped}

\* Mutant: tracefiles/ is emptied before the capture.
TestsClearTracefiles(ok) ==
    /\ cpc = "idle"
    /\ gcda' = [o \in Objs |-> IF o \in ok THEN bver ELSE gcda[o]]
    /\ todo' = Walked(gcda') /\ traces' = <<>> /\ cpc' = "capture"
    /\ UNCHANGED <<built, bver, cov, report>>

\* The unit-test binaries run; those that exit normally (ok) write the
\* .gcda files of their object files; os.mkdir('tracefiles') and
\* os.mkdir('html') fail quietly when they exist; the walk begins.
Tests(ok) ==
    /\ cpc = "idle"
    /\ gcda' = [o \in Objs |-> IF o \in ok THEN bver ELSE gcda[o]]
    /\ todo' = Walked(gcda') /\ cpc' = "capture"
    /\ UNCHANGED <<built, bver, traces, cov, report>>

\* lcov -c -q -d <root>/<file> -o tracefiles/<name>: the file is written
\* anew (or overwritten) with the .gcda file's data.
Capture(o) ==
    /\ cpc = "capture" /\ o \in todo
    /\ traces' = (TraceName(o) :> <<o, gcda[o]>>) @@ traces
    /\ todo' = todo \ {o}
    /\ UNCHANGED <<built, bver, gcda, cpc, cov, report>>

\* files = os.listdir('tracefiles'); lcov -a tracefiles/f1 -a ... -o
\* coverage.info.  With no file the command is "lcov -a tracefiles/ -o
\* coverage.info", which fails and leaves coverage.info as it was.
Merge ==
    /\ cpc = "capture" /\ todo = {}
    /\ cov' = IF traces = <<>> THEN cov ELSE Range(traces)
    /\ cpc' = "remove"
    /\ UNCHANGED <<built, bver, gcda, todo, traces, report>>

\* lcov --remove coverage.info "/usr*" "extras/*" "tests/*" -o coverage.info
LcovRemove ==
    /\ cpc = "remove"
    /\ cov' = IF cov = NoFile THEN cov ELSE {e \in cov : ~e[1].matched}
    /\ cpc' = "genhtml"
    /\ UNCHANGED <<built, bver, gcda, todo, traces, report>>

\* genhtml -o html coverage.info; the run ends.
GenHtml ==
    /\ cpc = "genhtml"
    /\ report' = IF cov = NoFile THEN report ELSE cov
    /\ cpc' = "idle"
    /\ UNCHANGED <<built, bver, gcda, todo, traces, cov>>

\* The steps of a run, which goes on once started.
Run == (\E o \in Objs : Capture(o)) \/ Merge \/ LcovRemove \/ GenHtml

Next ==
    \/ \E S \in SUBSET Objs \ {{}} : Build(S)
    \/ ZeroCounters
    \/ \E ok \in SUBSET built : Tests(ok)
    \/ Run

Spec == Init /\ [][Next]_lvars /\ WF_lvars(Run)

-----------------------------------------------------------------------------
Pairs == Objs \X ({Absent} \cup 0..MaxBuild)

TypeOK ==
    /\ built \subseteq Objs /\ bver \in 0..MaxBuild
    /\ gcda \in [Objs -> {Absent} \cup 0..MaxBuild]
    /\ cpc \in {"idle", "capture", "remove", "genhtml"} /\ todo \subseteq Objs
    /\ DOMAIN traces \subseteq {TraceName(o) : o \in Objs}
    /\ \A n \in DOMAIN traces : traces[n] \in Pairs
    /\ cov \in SUBSET Pairs \cup {NoFile} /\ report \in SUBSET Pairs \cup {NoFile}

(* Between runs, once there is a report, it shows every object file     *)
(* that has a .gcda file (but geodata.cpp and the sources the --remove  *)
(* patterns match) with the data of that .gcda file: the walk reaches   *)
(* every one, each gets a tracefile of its own, and the merge takes    *)
(* them all.  Whatever builds, zeroings and crashed tests came before.  *)
EveryGcdaReported ==
    cpc = "idle" /\ report # NoFile =>
        \A o \in Walked(gcda) : ~o.matched => <<o, gcda[o]>> \in report

(* tracefiles/ is never emptied and the merge takes every file in it, so *)
(* an object file, once in the report, stays in every later report, even *)
(* after its .gcda file is deleted by zeroing the counters and its tests *)
(* never run again.                                                      *)
ReportNeverForgets ==
    [][report # NoFile =>
         \A e \in report : \E e2 \in report' : e2[1] = e[1]]_lvars

(* The script runs the unit tests itself before it captures, merges and *)
(* renders ("Processing", "Merging tracefiles", "Generating HTML"), so   *)
(* the report a run writes is meant to be the coverage of that run: every *)
(* object file it shows has a .gcda file the run's walk found.           *)
ReportOfThisRun ==
    [][cpc = "genhtml" /\ report' # NoFile =>
         {e[1] : e \in report'} \subseteq Walked(gcda)]_lvars
=============================================================================
