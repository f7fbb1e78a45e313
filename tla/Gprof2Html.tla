---------------------------- MODULE Gprof2Html ----------------------------
(***************************************************************************)
(* tools/statistics/gprof2html.py, run again and again beside a server    *)
(* that is profiled again and again.  Two files outlive a run:           *)
(* profile_build/gmon.out, written by every profiled server run, and     *)
(* profile_build/server.prof, gprof's text output, which a run generates *)
(* only when it cannot open it.  A run opens server.prof (or, failing,   *)
(* runs gprof into it), skips its five heading lines, turns every line   *)
(* up to the first empty one into a `function` row, and writes the rows *)
(* to gprof.htm as html.makeSortableTable.                                *)
(*                                                                         *)
(* A profile is a sequence of functions: its name, whether gprof counted *)
(* its calls, the words of its name, and whether it has samples.        *)
(* A line of text is abstracted to what function() and the loop look at: *)
(* whether it is "\n", its number of blank-separated tokens, whether its *)
(* fourth token is an int, and the function it names.  A row keeps the  *)
(* name and whether its calls column came from the line or was set to 0. *)
(***************************************************************************)
EXTENDS Integers, Sequences

CONSTANTS Profiles,   \* the profiles gmon.out may hold: sequences of functions
          NoGmon,     \* no gmon.out in profile_build/
          NoFile      \* a file that does not exist

Ln(n, isInt, name) == [blank |-> FALSE, ntok |-> n, int4 |-> isInt, fn |-> name]
BlankLine == [blank |-> TRUE, ntok |-> 0, int4 |-> FALSE, fn |-> "-"]

\* A profile whose functions all have no samples (the server ran too
\* briefly for the profiling clock to hit it); gprof then has no time.
NoTime(p) == p # <<>> /\ \A k \in DOMAIN p : ~p[k].sampled

\* gprof's flat profile as text: "Flat profile:", "", "Each sample counts
\* as 0.01 seconds.", when no time accumulated the line " no time
\* accumulated" and an empty line, the two column-heading lines, one line
\* per function (six numbers and the name with the calls, three numbers
\* and the name for a function gprof has no call count for; a C++ name may
\* hold blanks), an empty line, then the call graph.  Without gmon.out
\* gprof writes nothing to stdout, and the shell's "> server.prof" leaves
\* the file empty.
GprofText(p) ==
    IF p = NoGmon THEN <<>>
    ELSE << Ln(2, FALSE, "-"), BlankLine, Ln(6, FALSE, "-") >>
         \o (IF NoTime(p) THEN << Ln(3, FALSE, "-"), BlankLine >> ELSE <<>>)
         \o << Ln(5, FALSE, "-"), Ln(7, FALSE, "-") >>
         \o [k \in DOMAIN p |-> IF p[k].called THEN Ln(6 + p[k].words, TRUE, p[k].fn)
                                                ELSE Ln(3 + p[k].words, FALSE, p[k].fn)]
         \o << BlankLine, Ln(11, FALSE, "-") >>

\* function(line): values[0..2] and, in the except branch, values[3] of
\* line.split(None, 3) raise IndexError on a line of fewer than 4 tokens.
FunctionRaises(ln) == ln.ntok < 4

\* function(line): calls, the times per call and the name from
\* line.split(None, 6) when values[3] is an int and values[6] exists;
\* else (the bare except) calls = 0 and the name from split(None, 3).
Function(ln) == [name |-> ln.fn, counted |-> ln.int4 /\ ln.ntok >= 7]

VARIABLES gmon,   \* profile_build/gmon.out: a profile or NoGmon
          prof,   \* profile_build/server.prof: the gmon.out it was made from, or NoFile
          page,   \* gprof.htm: the rows of its table, or NoFile
          gpc,    \* "idle" between runs, else the statement the run is at
          f,      \* the lines of the file the run opened
          gi,     \* enumerate(f): the number of lines read
          rows,   \* allFunctions
          gexc    \* how the last run ended: "none" or the exception

gvars == <<gmon, prof, page, gpc, f, gi, rows, gexc>>

Init ==
    /\ gmon \in Profiles \cup {NoGmon}
    /\ prof = NoFile /\ page = NoFile
    /\ gpc = "idle" /\ f = <<>> /\ gi = 0 /\ rows = <<>> /\ gexc = "none"

\* The server, built with profiling, exits and writes gmon.out anew.
Profile(p) ==
    /\ gmon' = p
    /\ UNCHANGED <<prof, page, gpc, f, gi, rows, gexc>>

\* A run of gprof2html.py starts: allFunctions = [].
Start ==
    /\ gpc = "idle"
    /\ gpc' = "open" /\ rows' = <<>> /\ gi' = 0 /\ f' = <<>>
    /\ UNCHANGED <<gmon, prof, page, gexc>>

Open ==
    /\ gpc = "open"
    /\ IF prof # NoFile
       THEN /\ f' = GprofText(prof) /\ gpc' = "read"
            /\ UNCHANGED <<prof, gexc>>
       ELSE /\ prof' = gmon
            /\ gpc' = "idle" /\ gexc' = "NameError"
            /\ UNCHANGED f
    /\ UNCHANGED <<gmon, page, gi, rows>>

\* Mutant: the headings are taken to be four lines.
ReadLineSkipFour ==
    /\ gpc = "read" /\ gi < Len(f)
    /\ LET ln == f[gi + 1]
       IN  CASE gi < 4 -> UNCHANGED <<gpc, rows, gexc>>
             [] ln.blank -> gpc' = "write" /\ UNCHANGED <<rows, gexc>>
             [] FunctionRaises(ln) -> gpc' = "idle" /\ gexc' = "IndexError" /\ UNCHANGED rows
             [] OTHER -> rows' = Append(rows, Function(ln)) /\ UNCHANGED <<gpc, gexc>>
    /\ gi' = gi + 1
    /\ UNCHANGED <<gmon, prof, page, f>>

\* Mutant: function() without its bare except: int(values[3]) raises
\* ValueError on a line of a function gprof has no call count for.
ReadLineNoExcept ==
    /\ gpc = "read" /\ gi < Len(f)
    /\ LET ln == f[gi + 1]
       IN  CASE gi < 5 -> UNCHANGED <<gpc, rows, gexc>>
             [] ln.blank -> gpc' = "write" /\ UNCHANGED <<rows, gexc>>
             [] FunctionRaises(ln) -> gpc' = "idle" /\ gexc' = "IndexError" /\ UNCHANGED rows
             [] ~ln.int4 -> gpc' = "idle" /\ gexc' = "ValueError" /\ UNCHANGED rows
             [] OTHER -> rows' = Append(rows, Function(ln)) /\ UNCHANGED <<gpc, gexc>>
    /\ gi' = gi + 1
    /\ UNCHANGED <<gmon, prof, page, f>>

\* One pass of the loop: skip lines 0..4, break at "\n", else append
\* function(line), which may raise.
ReadLine ==
    /\ gpc = "read" /\ gi < Len(f)
    /\ LET ln == f[gi + 1]
       IN  CASE gi < 5 -> UNCHANGED <<gpc, rows, gexc>>
             [] ln.blank -> gpc' = "write" /\ UNCHANGED <<rows, gexc>>
             [] FunctionRaises(ln) -> gpc' = "idle" /\ gexc' = "IndexError" /\ UNCHANGED rows
             [] OTHER -> rows' = Append(rows, Function(ln)) /\ UNCHANGED <<gpc, gexc>>
    /\ gi' = gi + 1
    /\ UNCHANGED <<gmon, prof, page, f>>

\* The loop runs out of lines without an empty one.
EndOfFile ==
    /\ gpc = "read" /\ gi = Len(f)
    /\ gpc' = "write"
    /\ UNCHANGED <<gmon, prof, page, f, gi, rows, gexc>>

\* code = header + makeSortableTable(allFunctions, ...) + end, written to
\* gprof.htm; the run ends.
Write ==
    /\ gpc = "write"
    /\ page' = rows /\ gpc' = "idle" /\ gexc' = "none"
    /\ UNCHANGED <<gmon, prof, f, gi, rows>>

\* The steps of a run, which go on once it is started.
Run == Open \/ ReadLine \/ EndOfFile \/ Write

Next == (\E p \in Profiles : Profile(p)) \/ Start \/ Run

Spec == Init /\ [][Next]_gvars /\ WF_gvars(Run)

-----------------------------------------------------------------------------
Row == [name : STRING, counted : BOOLEAN]

TypeOK ==
    /\ gmon \in Profiles \cup {NoGmon}
    /\ prof \in Profiles \cup {NoGmon, NoFile}
    /\ page \in Seq(Row) \cup {NoFile}
    /\ gpc \in {"idle", "open", "read", "write"}
    /\ gi \in 0..Len(f) /\ rows \in Seq(Row)
    /\ gexc \in {"none", "NameError", "IndexError"}

\* The table of a profile: one row per function in gprof's order, with
\* the call count for exactly the functions gprof counted calls of.
Table(p) ==
    IF p = NoGmon THEN <<>>
    ELSE [k \in DOMAIN p |-> [name |-> p[k].fn, counted |-> p[k].called]]

(* Between runs, whatever runs, failed runs and profiling came before,  *)
(* gprof.htm is the table of the profile server.prof was generated from: *)
(* every function of the flat profile, none of its headings and none of  *)
(* the call graph, each with a call count exactly when gprof printed one. *)
PageShowsServerProf ==
    (gpc = "idle" /\ page # NoFile) => prof # NoFile /\ page = Table(prof)

=============================================================================
