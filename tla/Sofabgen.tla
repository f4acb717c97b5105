------------------------------ MODULE Sofabgen ------------------------------
(***************************************************************************)
(* One command line after another over one output tree: run in             *)
(* cmd/sofabgen/main.go, with the stages of internal/pipeline and the      *)
(* external formatters of the backends.                                    *)
(*                                                                         *)
(* The stages before the first write only read, so what matters of them is *)
(* their order and that each of them can end the run.  Files are written   *)
(* one by one, in place; the process can be killed at any point, and a     *)
(* write can fail.  The next run finds whatever was left.                  *)
(***************************************************************************)
EXTENDS Naturals, Sequences

CONSTANTS
    Paths,     \* files a backend may generate
    Schemas,   \* versions of the definition over time
    FilesOf,   \* what the backend generates for each version, in order
    Sources,   \* those of Paths the target's formatter handles
    Requests,  \* the command lines a user may give, and what they meet
    MaxRuns,   \* bound: runs over the tree
    Missing,   \* a path with no file
    Torn       \* a file cut off in the middle of a write

Contents == [schema : Schemas, style : {"plain", "formatted"}]

Modes == {"off", "auto", "require"}
NotGiven == "not given"

\* Where a run can fail before it has files: the command line and its config,
\* then pipeline.Run's stages.
Checks == <<"flags", "config", "target", "format", "input",
            "load", "resolve", "validate", "build", "analyze", "generate">>
Nowhere == "nowhere"

\* info: --version, --help or --print-defaults; lang: --lang, and whether its
\* backend is wired and has a Formatter; fails: the first check that fails;
\* tool: what the formatter will do.
IsRequest(r) ==
    /\ r.schema \in Schemas
    /\ r.info \in {"none", "version", "defaults"}
    /\ r.lang \in {"none", "unwired", "plain", "formatting"}
    /\ r.dump \in BOOLEAN
    /\ r.flag \in Modes \cup {NotGiven}
    /\ r.config \in Modes \cup {NotGiven}
    /\ r.fails \in {Checks[i] : i \in 1 .. Len(Checks)} \cup {Nowhere}
    /\ r.tool \in {"absent", "works"} \cup Paths

ASSUME SofabgenAssumption ==
    /\ MaxRuns \in Nat
    /\ FilesOf \in [Schemas -> Seq(Paths)]
    /\ \A v \in Schemas : \A i, j \in DOMAIN FilesOf[v] : FilesOf[v][i] = FilesOf[v][j] => i = j
    /\ Sources \subseteq Paths
    /\ "absent" \notin Paths
    /\ Missing # Torn
    /\ Missing \notin Contents
    /\ Torn \notin Contents
    /\ \A r \in Requests : IsRequest(r)

VARIABLES
    request,  \* the command line of the run
    stage,    \* "idle", "check", "format", "formatting", "write" or "ended"
    check,    \* index into Checks
    mode,     \* the resolved format mode
    files,    \* res.Files, then what formatFiles returns
    pos,      \* next file to format or to write
    exit,     \* exit code of the last run, "killed", or "none"
    noted,    \* the note that files are written unformatted
    spawned,  \* the formatter was looked up or run
    disk,     \* the output tree
    outDir,   \* the output directory exists
    before,   \* the output tree when the run began
    runs      \* runs begun

vars == <<request, stage, check, mode, files, pos, exit, noted, spawned, disk, outDir, before, runs>>
fixed == <<request, before, runs>>

Init ==
    /\ request \in Requests
    /\ stage = "idle"
    /\ check = 1
    /\ mode = "off"
    /\ files = << >>
    /\ pos = 1
    /\ exit = "none"
    /\ noted = FALSE
    /\ spawned = FALSE
    /\ disk = [p \in Paths |-> Missing]
    /\ outDir = FALSE
    /\ before = disk
    /\ runs = 0

\* A command line is given, in a tree left as it is.
Start ==
    /\ stage \in {"idle", "ended"}
    /\ runs < MaxRuns
    /\ request' \in Requests
    /\ stage' = "check"
    /\ check' = 1
    /\ mode' = "off"
    /\ files' = << >>
    /\ pos' = 1
    /\ exit' = "none"
    /\ noted' = FALSE
    /\ spawned' = FALSE
    /\ before' = disk
    /\ runs' = runs + 1
    /\ UNCHANGED <<disk, outDir>>

Exit(code) == stage' = "ended" /\ exit' = code

-----------------------------------------------------------------------------
\* Up to the generated files nothing outside the process changes.
Checking == stage = "check"
Standing == <<files, pos, noted, spawned, disk, outDir>>

\* --version, --help and --print-defaults answer and stop: the first two right
\* after the flags, the last after the config.
Answered == \/ request.info = "version" /\ Checks[check] = "flags"
            \/ request.info = "defaults" /\ Checks[check] = "config"

\* --dump-ir, no --lang and a backend that is not wired all end at the IR.
EndsAtIR == request.dump \/ request.lang \in {"none", "unwired"}

CheckFails ==
    /\ Checking
    /\ request.fails = Checks[check]
    /\ Checks[check] = "generate" => ~ EndsAtIR
    /\ Exit(IF Checks[check] = "flags" THEN "2" ELSE "1")
    /\ UNCHANGED <<fixed, check, mode, Standing>>

Inform ==
    /\ Checking
    /\ request.fails # Checks[check]
    /\ Answered
    /\ Exit("0")
    /\ UNCHANGED <<fixed, check, mode, Standing>>

\* resolveFormatMode: off < generic.run_formatter < --format.
Resolve(flag, config) ==
    IF flag # NotGiven THEN flag ELSE IF config # NotGiven THEN config ELSE "off"

CheckPasses ==
    /\ Checking
    /\ request.fails # Checks[check]
    /\ ~ Answered
    /\ check < Len(Checks)
    /\ check' = check + 1
    /\ mode' = IF Checks[check] = "format" THEN Resolve(request.flag, request.config) ELSE mode
    /\ UNCHANGED <<fixed, stage, exit, Standing>>

StopAtIR ==
    /\ Checking
    /\ Checks[check] = "generate"
    /\ EndsAtIR
    /\ Exit("0")
    /\ UNCHANGED <<fixed, check, mode, Standing>>

Generate ==
    /\ Checking
    /\ Checks[check] = "generate"
    /\ request.fails # "generate"
    /\ ~ EndsAtIR
    /\ files' = [i \in DOMAIN FilesOf[request.schema] |->
                   [path |-> FilesOf[request.schema][i], style |-> "plain"]]
    /\ IF files' = << >> THEN Exit("0") ELSE stage' = "format" /\ UNCHANGED exit
    /\ UNCHANGED <<fixed, check, mode, pos, noted, spawned, disk, outDir>>

-----------------------------------------------------------------------------
Kept == <<fixed, check, mode>>
IsSource(i) == files[i].path \in Sources
NoSources == \A i \in DOMAIN files : ~ IsSource(i)

\* off looks nothing up; neither does a backend without a formatter.
LeaveAsIs ==
    /\ stage = "format"
    /\ mode = "off" \/ request.lang # "formatting"
    /\ stage' = "write"
    /\ UNCHANGED <<Kept, files, pos, exit, noted, spawned, disk, outDir>>

Formatting == stage = "format" /\ mode # "off" /\ request.lang = "formatting"

\* The output directory has to exist before the formatter runs in it.
NoFormatDir ==
    /\ Formatting
    /\ ~ outDir
    /\ Exit("1")
    /\ UNCHANGED <<Kept, files, pos, noted, spawned, disk, outDir>>

NothingToFormat ==
    /\ Formatting
    /\ NoSources
    /\ outDir' = TRUE
    /\ stage' = "write"
    /\ UNCHANGED <<Kept, files, pos, exit, noted, spawned, disk>>

\* A missing formatter fails the run under require and is noted under auto.
FormatterAbsent ==
    /\ Formatting
    /\ ~ NoSources
    /\ request.tool = "absent"
    /\ outDir' = TRUE
    /\ spawned' = TRUE
    /\ IF mode = "require"
       THEN Exit("1") /\ UNCHANGED noted
       ELSE stage' = "write" /\ noted' = TRUE /\ UNCHANGED exit
    /\ UNCHANGED <<Kept, files, pos, disk>>

FormatterFound ==
    /\ Formatting
    /\ ~ NoSources
    /\ request.tool # "absent"
    /\ outDir' = TRUE
    /\ spawned' = TRUE
    /\ stage' = "formatting"
    /\ UNCHANGED <<Kept, files, pos, exit, noted, disk>>

\* A file as it is written out.
Content(i) == [schema |-> request.schema, style |-> files[i].style]

\* Faults: the formatter works on the tree; it passes over what it refuses; it
\* starts again.
FormatFileInPlace ==
    /\ stage = "formatting"
    /\ pos <= Len(files)
    /\ ~ (IsSource(pos) /\ request.tool = files[pos].path)
    /\ files' = IF IsSource(pos) THEN [files EXCEPT ![pos].style = "formatted"] ELSE files
    /\ disk' = [disk EXCEPT ![files[pos].path] = Content(pos)]
    /\ pos' = pos + 1
    /\ UNCHANGED <<Kept, stage, exit, noted, spawned, outDir>>

FormatterPassesOver ==
    /\ stage = "formatting"
    /\ pos <= Len(files)
    /\ IsSource(pos) /\ request.tool = files[pos].path
    /\ pos' = pos + 1
    /\ UNCHANGED <<Kept, stage, files, exit, noted, spawned, disk, outDir>>

FormatterRestarts ==
    /\ stage = "formatting"
    /\ pos <= Len(files)
    /\ IsSource(pos) /\ request.tool = files[pos].path
    /\ pos' = 1
    /\ UNCHANGED <<Kept, stage, files, exit, noted, spawned, disk, outDir>>

\* Each source goes through the formatter in memory; the others stay.
FormatFile ==
    /\ stage = "formatting"
    /\ pos <= Len(files)
    /\ ~ (IsSource(pos) /\ request.tool = files[pos].path)
    /\ files' = IF IsSource(pos) THEN [files EXCEPT ![pos].style = "formatted"] ELSE files
    /\ pos' = pos + 1
    /\ UNCHANGED <<Kept, stage, exit, noted, spawned, disk, outDir>>

\* A formatter that refuses the code ends the run, under auto too.
FormatterRefuses ==
    /\ stage = "formatting"
    /\ pos <= Len(files)
    /\ IsSource(pos) /\ request.tool = files[pos].path
    /\ Exit("1")
    /\ UNCHANGED <<Kept, files, pos, noted, spawned, disk, outDir>>

FormatDone ==
    /\ stage = "formatting"
    /\ pos > Len(files)
    /\ stage' = "write"
    /\ pos' = 1
    /\ UNCHANGED <<Kept, files, exit, noted, spawned, disk, outDir>>

-----------------------------------------------------------------------------
Writing == stage = "write" /\ pos <= Len(files)

\* Fault: a file that is already there is left alone.
WriteFileIfNew ==
    /\ Writing
    /\ outDir' = TRUE
    /\ disk' = IF disk[files[pos].path] = Missing
               THEN [disk EXCEPT ![files[pos].path] = Content(pos)] ELSE disk
    /\ pos' = pos + 1
    /\ UNCHANGED <<Kept, stage, files, exit, noted, spawned>>

WriteFile ==
    /\ Writing
    /\ outDir' = TRUE
    /\ disk' = [disk EXCEPT ![files[pos].path] = Content(pos)]
    /\ pos' = pos + 1
    /\ UNCHANGED <<Kept, stage, files, exit, noted, spawned>>

\* Fault: the error of a write is dropped and the loop goes on.
WriteFailsSilently ==
    /\ Writing
    /\ disk' \in {disk, [disk EXCEPT ![files[pos].path] = Torn]}
    /\ pos' = pos + 1
    /\ UNCHANGED <<Kept, stage, files, exit, noted, spawned, outDir>>

\* MkdirAll or the open fails, or the write fails on a truncated file.
WriteFails ==
    /\ Writing
    /\ Exit("1")
    /\ disk' \in {disk, [disk EXCEPT ![files[pos].path] = Torn]}
    /\ outDir' \in {outDir, TRUE}
    /\ UNCHANGED <<Kept, files, pos, noted, spawned>>

Done ==
    /\ stage = "write"
    /\ pos > Len(files)
    /\ Exit("0")
    /\ UNCHANGED <<Kept, files, pos, noted, spawned, disk, outDir>>

\* The process dies; in the middle of a write it leaves a truncated file.
Kill ==
    /\ stage \notin {"idle", "ended"}
    /\ stage' = "ended"
    /\ exit' = "killed"
    /\ \/ UNCHANGED disk
       \/ Writing /\ disk' = [disk EXCEPT ![files[pos].path] = Torn]
    /\ UNCHANGED <<Kept, files, pos, noted, spawned, outDir>>

Step == \/ CheckFails \/ Inform \/ CheckPasses \/ StopAtIR \/ Generate
        \/ LeaveAsIs \/ NoFormatDir \/ NothingToFormat \/ FormatterAbsent \/ FormatterFound
        \/ FormatFile \/ FormatterRefuses \/ FormatDone
        \/ WriteFile \/ WriteFails \/ Done

Next == Start \/ Step \/ Kill

Spec == Init /\ [][Next]_vars

\* A run in progress goes on; nobody has to start another one.
FairSpec == Spec /\ WF_vars(Step)

-----------------------------------------------------------------------------
(* Properties.                                                             *)

\* The flag if it was given, else the config, else off.
Asked == CASE request.flag # NotGiven -> request.flag
           [] request.flag = NotGiven /\ request.config # NotGiven -> request.config
           [] OTHER -> "off"

\* pipeline.Run and the formatters fail closed: a run that a check or a
\* formatter ends leaves every file of the tree as the run before left it.
Generating == request.fails = Nowhere /\ request.info = "none" /\ ~ EndsAtIR
FormatWanted == request.lang = "formatting" /\ Asked # "off"
FailsClosed ==
    /\ stage \in {"check", "format", "formatting"} => disk = before
    /\ stage = "ended" /\ ~ Generating => disk = before
    /\ stage = "ended" /\ FormatWanted /\ request.tool \in {files[i].path : i \in {j \in DOMAIN files : IsSource(j)}}
          => disk = before

\* Exit 0 means the files are there, all of this run, and nothing else in the
\* tree was touched, whatever an earlier run that failed or was killed left;
\* and that nothing went wrong that the run had to notice.
ZeroMeansWritten ==
    exit = "0" =>
        /\ IF Generating
           THEN \A p \in Paths :
                   IF p \in {files[i].path : i \in DOMAIN files}
                   THEN disk[p] \in Contents /\ disk[p].schema = request.schema
                   ELSE disk[p] = before[p]
           ELSE disk = before
        /\ request.info = "none" => request.fails \in {Nowhere} \cup IF EndsAtIR THEN {"generate"} ELSE {}
        /\ request.info = "none" /\ Generating /\ FormatWanted /\ ~ NoSources =>
              /\ request.tool # "absent" \/ Asked = "auto"
              /\ request.tool \notin {files[i].path : i \in {j \in DOMAIN files : IsSource(j)}}

\* Under require no source is written that the formatter has not accepted, and
\* under any mode a run writes its sources in one style; off spawns nothing, so
\* the bytes depend on the schema alone, and a run that writes unformatted what
\* it was asked to format says so.
OneStyle ==
    /\ Asked = "off" => ~ spawned
    /\ exit = "0" /\ Generating =>
         (noted <=> FormatWanted /\ ~ NoSources /\ \A i \in DOMAIN files : files[i].style = "plain")
    /\ stage \in {"write", "ended"} =>
         \A p \in Sources : disk[p] # before[p] /\ disk[p] \in Contents =>
            /\ Asked = "require" /\ request.lang = "formatting" => disk[p].style = "formatted"
            /\ \A q \in Sources : disk[q] # before[q] /\ disk[q] \in Contents =>
                  disk[p].style = disk[q].style

\* What a run has written is a prefix of its files, in order, each whole; the
\* next one may be torn, and every other file is as the run found it.
PrefixWritten ==
    \E n \in 1 .. Len(files) + 1 :
        /\ \A i \in DOMAIN files :
              /\ i < n => disk[files[i].path] = Content(i)
              /\ i = n => disk[files[i].path] \in {before[files[i].path], Torn}
              /\ i > n => disk[files[i].path] = before[files[i].path]
        /\ \A p \in Paths \ {files[i].path : i \in DOMAIN files} : disk[p] = before[p]

\* Every run ends.
RunEnds == stage = "check" ~> stage = "ended"

=============================================================================
