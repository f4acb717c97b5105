--------------------------- MODULE SofabgenProofs ---------------------------
(***************************************************************************)
(* Proofs about Sofabgen: whatever the requests, the versions and the      *)
(* number of runs, a run that fails before it writes leaves the tree as it *)
(* was, a run that is stopped leaves a prefix of its files, and exit 0     *)
(* means that all of them are there.                                       *)
(***************************************************************************)
EXTENDS Sofabgen, TLAPS

GeneratedFile == [path : Paths, style : {"plain", "formatted"}]
Trees == [Paths -> Contents \cup {Missing, Torn}]

ShapeInv ==
    /\ request \in Requests
    /\ stage \in {"idle", "check", "format", "formatting", "write", "ended"}
    /\ check \in 1 .. 11
    /\ files \in Seq(GeneratedFile)
    /\ \A i, j \in DOMAIN files : files[i].path = files[j].path => i = j
    /\ pos \in Nat \ {0}
    /\ exit # "none" => stage = "ended"
    /\ noted \in BOOLEAN /\ spawned \in BOOLEAN
    /\ disk \in Trees /\ before \in Trees

\* The checks passed so far did not fail; the mode is resolved by the fourth.
PassedInv ==
    stage \in {"check", "format", "formatting", "write"} =>
        /\ \A i \in 1 .. 11 : i < check => request.fails # Checks[i]
        /\ check > 1 => request.info # "version"
        /\ check > 2 => request.info # "defaults"
        /\ mode = IF check > 4 THEN Asked ELSE "off"

GeneratingInv == stage \in {"format", "formatting", "write"} => check = 11 /\ Generating

SourcePaths == {files[i].path : i \in {j \in DOMAIN files : IsSource(j)}}
AllPlain == \A i \in DOMAIN files : files[i].style = "plain"
Formatted(n) ==
    \A i \in DOMAIN files : i < n /\ IsSource(i) => files[i].style = "formatted" /\ request.tool # files[i].path

\* How the files came by their style, once it is settled.
Settled ==
    \/ ~ (FormatWanted /\ ~ NoSources) /\ ~ noted /\ AllPlain
    \/ FormatWanted /\ ~ NoSources /\ request.tool = "absent" /\ Asked = "auto" /\ noted /\ AllPlain
    \/ FormatWanted /\ ~ NoSources /\ request.tool # "absent" /\ ~ noted /\ Formatted(Len(files) + 1)

FormatInv ==
    /\ stage \in {"idle", "check"} => files = << >>
    /\ stage \in {"idle", "check", "format"} => ~ spawned /\ ~ noted /\ pos = 1 /\ AllPlain
    /\ stage = "formatting" => FormatWanted /\ ~ NoSources /\ ~ noted /\ request.tool # "absent" /\ Formatted(pos)
    /\ stage = "write" => Settled
    /\ Asked = "off" => ~ spawned

\* The files before the nth are written, the others as the run found them.
WrittenTo(n) ==
    /\ \A i \in DOMAIN files : IF i < n THEN disk[files[i].path] = Content(i)
                                        ELSE disk[files[i].path] = before[files[i].path]
    /\ \A p \in Paths \ {files[i].path : i \in DOMAIN files} : disk[p] = before[p]

DiskInv ==
    /\ stage \in {"idle", "check", "format", "formatting"} => disk = before
    /\ stage = "write" => pos <= Len(files) + 1 /\ WrittenTo(pos)
    /\ stage = "formatting" => pos <= Len(files) + 1

Promises == FailsClosed /\ ZeroMeansWritten /\ OneStyle /\ PrefixWritten

IInv == ShapeInv /\ PassedInv /\ GeneratingInv /\ FormatInv /\ DiskInv /\ Promises


-----------------------------------------------------------------------------
LEMMA CheckNames ==
    /\ Len(Checks) = 11
    /\ \A i \in 1 .. 11 : /\ Checks[i] # Nowhere
                          /\ Checks[i] = "flags" <=> i = 1
                          /\ Checks[i] = "config" <=> i = 2
                          /\ Checks[i] = "format" <=> i = 4
                          /\ Checks[i] = "generate" <=> i = 11
  BY DEF Checks, Nowhere

\* What a request may be, as far as the proofs need it.
LEMMA RequestFacts ==
    ASSUME request \in Requests
    PROVE  /\ request.info \in {"none", "version", "defaults"}
           /\ request.schema \in Schemas
           /\ request.fails # Nowhere => \E i \in 1 .. 11 : request.fails = Checks[i]
           /\ Asked \in Modes
           /\ FilesOf[request.schema] \in Seq(Paths)
           /\ \A i, j \in DOMAIN FilesOf[request.schema] :
                 FilesOf[request.schema][i] = FilesOf[request.schema][j] => i = j
<1>1. IsRequest(request)
  BY SofabgenAssumption
<1>2. request.fails # Nowhere => \E i \in 1 .. 11 : request.fails = Checks[i]
  BY <1>1, CheckNames DEF IsRequest
<1>3. Asked \in Modes
  BY <1>1 DEF IsRequest, Asked, Modes, NotGiven
<1> QED
  BY <1>1, <1>2, <1>3, SofabgenAssumption DEF IsRequest

\* Files have distinct paths, of the tree, and contents that are no other.
LEMMA FileFacts ==
    ASSUME ShapeInv
    PROVE  /\ Len(files) \in Nat
           /\ DOMAIN files = 1 .. Len(files)
           /\ \A i \in DOMAIN files : /\ files[i].path \in Paths
                                      /\ files[i].style \in {"plain", "formatted"}
                                      /\ Content(i) \in Contents
                                      /\ Content(i).schema = request.schema
                                      /\ Content(i).style = files[i].style
<1>1. request.schema \in Schemas
  BY RequestFacts DEF ShapeInv
<1>2. Len(files) \in Nat /\ DOMAIN files = 1 .. Len(files) /\ \A i \in DOMAIN files : files[i] \in GeneratedFile
  BY DEF ShapeInv
<1>3. \A i \in DOMAIN files : files[i].path \in Paths /\ files[i].style \in {"plain", "formatted"}
  BY <1>2 DEF GeneratedFile
<1> QED
  BY <1>1, <1>2, <1>3 DEF Content, Contents

\* A run that stops before it writes, in any way but well.
LEMMA Unwritten ==
    ASSUME ShapeInv', disk' = before', exit' # "0", (Asked = "off" => ~ spawned)'
    PROVE  Promises'
<1>1. /\ Len(files') \in Nat /\ DOMAIN files' = 1 .. Len(files')
      /\ \A i \in DOMAIN files' : files'[i] \in GeneratedFile
  BY DEF ShapeInv
<1>2. \A i \in DOMAIN files' : files'[i].path \in Paths
  BY <1>1 DEF GeneratedFile
<1>3. FailsClosed' /\ ZeroMeansWritten' /\ OneStyle'
  BY DEF FailsClosed, ZeroMeansWritten, OneStyle
<1>4. PrefixWritten'
  <2>1. 1 \in 1 .. Len(files') + 1
    BY <1>1
  <2> QED
    BY <1>1, <1>2, <2>1 DEF PrefixWritten
<1> QED
  BY <1>3, <1>4 DEF Promises

\* A run that answers, or has no file to write, whatever its exit code.
LEMMA NothingWritten ==
    ASSUME ShapeInv', disk' = before', files' = << >>, ~ noted', (Asked = "off" => ~ spawned)',
           (request.info = "none" => request.fails \in {Nowhere} \cup IF EndsAtIR THEN {"generate"} ELSE {})'
    PROVE  Promises'
<1>1. DOMAIN files' = {} /\ Len(files') = 0 /\ NoSources'
  BY DEF NoSources
<1>2. FailsClosed'
  BY DEF FailsClosed
<1>3. ZeroMeansWritten'
  BY <1>1 DEF ZeroMeansWritten
<1>4. OneStyle'
  BY <1>1 DEF OneStyle
<1>5. PrefixWritten'
  <2>1. 1 \in 1 .. Len(files') + 1
    BY <1>1
  <2> QED
    BY <1>1, <2>1 DEF PrefixWritten
<1> QED
  BY <1>2, <1>3, <1>4, <1>5 DEF Promises

\* A run that is writing, or has stopped to.
LEMMA WrittenInPart ==
    ASSUME ShapeInv', Settled', Generating', PrefixWritten', (Asked = "off" => ~ spawned)',
           stage' \in {"write", "ended"}, (exit = "0" => WrittenTo(Len(files) + 1))'
    PROVE  Promises'
<1>1. /\ Len(files') \in Nat /\ DOMAIN files' = 1 .. Len(files')
      /\ \A i \in DOMAIN files' : files'[i] \in GeneratedFile
  BY DEF ShapeInv
<1>2. \A i \in DOMAIN files' : files'[i].path \in Paths
  BY <1>1 DEF GeneratedFile
<1>3. request'.schema \in Schemas
  BY SofabgenAssumption DEF ShapeInv, IsRequest
<1>4. \A i \in DOMAIN files' : /\ Content(i)' \in Contents
                               /\ Content(i)'.schema = request'.schema
                               /\ Content(i)'.style = files'[i].style
  BY <1>1, <1>3 DEF Content, Contents, GeneratedFile
<1>5. \A i \in DOMAIN files' : FormatWanted' /\ IsSource(i)' => request'.tool # files'[i].path
  BY <1>1, <1>2, SofabgenAssumption DEF Settled, Formatted, NoSources
<1>6. FailsClosed'
  BY <1>5 DEF FailsClosed
<1>7. ZeroMeansWritten'
  <2> SUFFICES ASSUME exit' = "0" PROVE ZeroMeansWritten'
    BY DEF ZeroMeansWritten
  <2>1. WrittenTo(Len(files) + 1)'
    OBVIOUS
  <2>2. \A p \in Paths :
           IF p \in {files'[i].path : i \in DOMAIN files'}
           THEN disk'[p] \in Contents /\ disk'[p].schema = request'.schema
           ELSE disk'[p] = before'[p]
    BY <2>1, <1>1, <1>4 DEF WrittenTo
  <2>3. FormatWanted' /\ ~ NoSources' => request'.tool # "absent" \/ Asked' = "auto"
    BY DEF Settled
  <2> QED
    BY <2>2, <2>3, <1>5 DEF ZeroMeansWritten, Generating
<1>8. OneStyle'
  <2>1. \A p \in Sources : disk'[p] # before'[p] /\ disk'[p] \in Contents =>
           \E i \in DOMAIN files' : p = files'[i].path /\ disk'[p] = Content(i)'
    BY SofabgenAssumption, <1>1 DEF PrefixWritten
  <2>2. \A p \in Sources : disk'[p] # before'[p] /\ disk'[p] \in Contents =>
           \E i \in DOMAIN files' : IsSource(i)' /\ disk'[p].style = files'[i].style
    BY <2>1, <1>4 DEF IsSource
  <2>3. \/ ~ FormatWanted' /\ \A i \in DOMAIN files' : IsSource(i)' => files'[i].style = "plain"
        \/ Asked' = "auto" /\ \A i \in DOMAIN files' : IsSource(i)' => files'[i].style = "plain"
        \/ \A i \in DOMAIN files' : IsSource(i)' => files'[i].style = "formatted"
    BY <1>1 DEF Settled, AllPlain, Formatted, NoSources
  <2>4. \A p \in Sources : disk'[p] # before'[p] /\ disk'[p] \in Contents =>
           /\ Asked' = "require" /\ request'.lang = "formatting" => disk'[p].style = "formatted"
           /\ \A q \in Sources : disk'[q] # before'[q] /\ disk'[q] \in Contents => disk'[p].style = disk'[q].style
    BY <2>2, <2>3 DEF FormatWanted
  <2>5. noted' <=> FormatWanted' /\ ~ NoSources' /\ \A i \in DOMAIN files' : files'[i].style = "plain"
    <3>1. FormatWanted' /\ ~ NoSources' /\ ~ noted' => \E i \in DOMAIN files' : files'[i].style = "formatted"
      BY <1>1 DEF Settled, Formatted, NoSources
    <3> QED
      BY <3>1 DEF Settled, AllPlain
  <2> QED
    BY <2>4, <2>5 DEF OneStyle
<1> QED
  BY <1>6, <1>7, <1>8 DEF Promises

-----------------------------------------------------------------------------
LEMMA InitInv == Init => IInv
<1> SUFFICES ASSUME Init PROVE IInv
  OBVIOUS
<1>1. files = << >> /\ DOMAIN files = {}
  BY DEF Init
<1>2. ShapeInv
  <2>1. disk \in Trees /\ before \in Trees
    BY DEF Init, Trees
  <2>2. files \in Seq(GeneratedFile)
    BY DEF Init
  <2>3. /\ request \in Requests /\ stage = "idle" /\ check = 1 /\ pos = 1
        /\ exit = "none" /\ noted \in BOOLEAN /\ spawned \in BOOLEAN
    BY DEF Init
  <2>4. \A i, j \in DOMAIN files : files[i].path = files[j].path => i = j
    BY <1>1
  <2> QED
    BY <2>1, <2>2, <2>3, <2>4 DEF ShapeInv
<1>3. FormatInv
  BY <1>1 DEF Init, FormatInv, AllPlain
<1>4. PassedInv /\ GeneratingInv /\ DiskInv
  BY DEF Init, PassedInv, GeneratingInv, DiskInv
<1>5. Promises
  <2>1. 1 \in 1 .. Len(files) + 1
    BY <1>1
  <2>2. disk = before /\ exit = "none" /\ ~ spawned
    BY DEF Init
  <2>3. PrefixWritten
    BY <1>1, <2>1, <2>2 DEF PrefixWritten
  <2> QED
    BY <2>2, <2>3 DEF Promises, FailsClosed, ZeroMeansWritten, OneStyle
<1> QED
  BY <1>2, <1>3, <1>4, <1>5 DEF IInv


\* What a command line asks for does not change during its run.
LEMMA RequestKept ==
    ASSUME request' = request
    PROVE  /\ Asked' = Asked /\ EndsAtIR' = EndsAtIR
           /\ Generating' = Generating /\ FormatWanted' = FormatWanted
<1>1. Asked' = Asked /\ EndsAtIR' = EndsAtIR
  BY DEF Asked, EndsAtIR
<1> QED
  BY <1>1 DEF Generating, FormatWanted

LEMMA FilesKept ==
    ASSUME request' = request, files' = files
    PROVE  /\ NoSources' = NoSources /\ AllPlain' = AllPlain
           /\ \A n : Formatted(n)' = Formatted(n)
           /\ \A i : Content(i)' = Content(i)
           /\ noted' = noted => Settled' = Settled
<1>1. \A i : IsSource(i)' = IsSource(i)
  BY DEF IsSource
<1>2. NoSources' = NoSources /\ AllPlain' = AllPlain /\ \A n : Formatted(n)' = Formatted(n)
  BY <1>1 DEF NoSources, AllPlain, Formatted
<1>3. \A i : Content(i)' = Content(i)
  BY DEF Content
<1> QED
  BY <1>2, <1>3, RequestKept DEF Settled

LEMMA StartStep == ASSUME IInv, Start PROVE IInv'
<1>1. files' = << >> /\ DOMAIN files' = {}
  BY DEF Start
<1>2. ShapeInv'
  <2>1. \A i, j \in DOMAIN files' : files'[i].path = files'[j].path => i = j
    BY <1>1
  <2>2. noted' \in BOOLEAN /\ spawned' \in BOOLEAN
    BY DEF Start
  <2>3. /\ request' \in Requests /\ stage' = "check" /\ check' = 1 /\ pos' = 1 /\ exit' = "none"
        /\ files' \in Seq(GeneratedFile)
    BY DEF Start
  <2>4. disk' \in Trees /\ before' \in Trees
    BY DEF Start, IInv, ShapeInv
  <2> QED
    BY <2>1, <2>2, <2>3, <2>4 DEF ShapeInv
<1>3. PassedInv' /\ GeneratingInv'
  BY DEF Start, PassedInv, GeneratingInv
<1>4. FormatInv'
  BY <1>1 DEF Start, FormatInv, AllPlain
<1>5. DiskInv'
  BY DEF Start, DiskInv
<1>6. Promises'
  BY <1>2, Unwritten DEF Start
<1> QED
  BY <1>2, <1>3, <1>4, <1>5, <1>6 DEF IInv

\* A run that ends without having written.
LEMMA EndsUnwritten ==
    ASSUME ShapeInv', stage' = "ended", exit' # "0", disk' = before', (Asked = "off" => ~ spawned)'
    PROVE  IInv'
<1>1. PassedInv' /\ GeneratingInv' /\ DiskInv' /\ FormatInv'
  BY DEF PassedInv, GeneratingInv, DiskInv, FormatInv
<1> QED
  BY <1>1, Unwritten DEF IInv

\* The stages before the generated files end, or go on to the next check.
LEMMA CheckFailsStep == ASSUME IInv, CheckFails PROVE IInv'
<1>1. /\ stage = "check" /\ stage' = "ended" /\ exit' \in {"1", "2"}
      /\ request' = request /\ before' = before /\ disk' = disk /\ files' = files
      /\ check' = check /\ pos' = pos /\ noted' = noted /\ spawned' = spawned
  BY DEF CheckFails, Checking, Exit, fixed, Standing
<1>2. ShapeInv'
  BY <1>1 DEF IInv, ShapeInv
<1>3. disk' = before' /\ (Asked = "off" => ~ spawned)'
  BY <1>1, RequestKept DEF IInv, DiskInv, FormatInv
<1> QED
  BY <1>1, <1>2, <1>3, EndsUnwritten

LEMMA AnswerStep == ASSUME IInv, Inform \/ StopAtIR PROVE IInv'
<1>1. /\ stage = "check" /\ stage' = "ended" /\ exit' = "0"
      /\ request' = request /\ before' = before /\ disk' = disk /\ files' = files
      /\ check' = check /\ pos' = pos /\ noted' = noted /\ spawned' = spawned
  BY DEF Inform, StopAtIR, Checking, Exit, fixed, Standing
<1>2. ShapeInv'
  BY <1>1 DEF IInv, ShapeInv
<1>3. disk' = before' /\ (Asked = "off" => ~ spawned)' /\ files' = << >> /\ ~ noted'
  BY <1>1, RequestKept DEF IInv, DiskInv, FormatInv
<1>4. PassedInv' /\ GeneratingInv' /\ DiskInv'
  BY <1>1 DEF PassedInv, GeneratingInv, DiskInv
<1>5. FormatInv'
  BY <1>1, <1>3 DEF FormatInv
<1>6. request.info = "none" => request.fails \in {Nowhere} \cup IF EndsAtIR THEN {"generate"} ELSE {}
  <2>1. CASE Inform
    BY <2>1 DEF Inform, Answered
  <2>2. CASE StopAtIR
    <3>1. check = 11 /\ EndsAtIR /\ \A i \in 1 .. 11 : i < 11 => request.fails # Checks[i]
      BY <2>2, <1>1, CheckNames DEF StopAtIR, IInv, PassedInv, ShapeInv
    <3>2. request.fails # Nowhere => request.fails = Checks[11]
      BY <3>1, RequestFacts DEF IInv, ShapeInv
    <3> QED
      BY <3>1, <3>2, CheckNames
  <2> QED
    BY <2>1, <2>2
<1>7. Promises'
  BY <1>1, <1>2, <1>3, <1>6, RequestKept, NothingWritten
<1> QED
  BY <1>2, <1>4, <1>5, <1>7 DEF IInv


LEMMA CheckPassesStep == ASSUME IInv, CheckPasses PROVE IInv'
<1>1. /\ stage = "check" /\ stage' = "check" /\ exit' = exit /\ check < 11 /\ check' = check + 1
      /\ request' = request /\ before' = before /\ disk' = disk /\ files' = files
      /\ pos' = pos /\ noted' = noted /\ spawned' = spawned
      /\ request.fails # Checks[check]
      /\ mode' = IF Checks[check] = "format" THEN Resolve(request.flag, request.config) ELSE mode
  BY CheckNames DEF CheckPasses, Checking, fixed, Standing
<1>2. ShapeInv'
  <2>1. check' \in 1 .. 11
    BY <1>1 DEF IInv, ShapeInv
  <2> QED
    BY <1>1, <2>1 DEF IInv, ShapeInv
<1>3. disk' = before' /\ (Asked = "off" => ~ spawned)' /\ exit' = "none"
  BY <1>1, RequestKept DEF IInv, DiskInv, FormatInv, ShapeInv
<1>4. PassedInv'
  <2>1. check \in 1 .. 11
    BY DEF IInv, ShapeInv
  <2>2. \A i \in 1 .. 11 : i < check' => request'.fails # Checks[i]
    BY <1>1, <2>1 DEF IInv, PassedInv
  <2>3. (check' > 1 => request'.info # "version") /\ (check' > 2 => request'.info # "defaults")
    BY <1>1, <2>1, CheckNames DEF IInv, PassedInv, CheckPasses, Answered
  <2>4. mode' = IF check' > 4 THEN Asked' ELSE "off"
    <3>1. Resolve(request.flag, request.config) = Asked
      BY DEF Resolve, Asked
    <3>2. Asked' = Asked
      BY <1>1, RequestKept
    <3>3. Checks[check] = "format" <=> check = 4
      BY <2>1, CheckNames
    <3>4. mode = IF check > 4 THEN Asked ELSE "off"
      BY <1>1 DEF IInv, PassedInv
    <3> QED
      BY <1>1, <2>1, <3>1, <3>2, <3>3, <3>4
  <2> QED
    BY <2>2, <2>3, <2>4 DEF PassedInv
<1>5. GeneratingInv' /\ DiskInv'
  BY <1>1, <1>3 DEF GeneratingInv, DiskInv
<1>6. FormatInv'
  BY <1>1, <1>3, FilesKept DEF IInv, FormatInv
<1>7. Promises'
  BY <1>2, <1>3, Unwritten
<1> QED
  BY <1>2, <1>4, <1>5, <1>6, <1>7 DEF IInv

LEMMA GenerateStep == ASSUME IInv, Generate PROVE IInv'
<1> DEFINE paths == FilesOf[request.schema]
<1>1. /\ stage = "check" /\ stage' \in {"format", "ended"} /\ exit' \in {exit, "0"}
      /\ stage' = "ended" => files' = << >>
      /\ exit' = "0" => stage' = "ended"
      /\ stage' = "format" => exit' = exit
      /\ request' = request /\ before' = before /\ disk' = disk /\ check' = check /\ mode' = mode
      /\ pos' = pos /\ noted' = noted /\ spawned' = spawned
      /\ Checks[check] = "generate" /\ request.fails # "generate" /\ ~ EndsAtIR
      /\ files' = [i \in DOMAIN paths |-> [path |-> paths[i], style |-> "plain"]]
  BY DEF Generate, Checking, Exit, fixed, IInv, ShapeInv
<1>2. paths \in Seq(Paths) /\ \A i, j \in DOMAIN paths : paths[i] = paths[j] => i = j
  BY RequestFacts DEF IInv, ShapeInv
<1>3. /\ DOMAIN files' = DOMAIN paths
      /\ \A i \in DOMAIN paths : files'[i].path = paths[i] /\ files'[i].style = "plain"
  BY <1>1
<1>4. ShapeInv'
  <2>1. files' \in Seq(GeneratedFile)
    <3>1. DOMAIN paths = 1 .. Len(paths) /\ Len(paths) \in Nat /\ \A i \in DOMAIN paths : paths[i] \in Paths
      BY <1>2
    <3>2. \A i \in DOMAIN paths : [path |-> paths[i], style |-> "plain"] \in GeneratedFile
      BY <3>1 DEF GeneratedFile
    <3> HIDE DEF paths
    <3> QED
      BY <1>1, <3>1, <3>2
  <2>2. \A i, j \in DOMAIN files' : files'[i].path = files'[j].path => i = j
    BY <1>2, <1>3
  <2>3. exit' # "none" => stage' = "ended"
    BY <1>1 DEF IInv, ShapeInv
  <2> QED
    BY <1>1, <2>1, <2>2, <2>3 DEF IInv, ShapeInv
<1>5. disk' = before' /\ (Asked = "off" => ~ spawned)' /\ ~ noted' /\ ~ spawned' /\ pos' = 1
  BY <1>1, RequestKept DEF IInv, DiskInv, FormatInv
<1>6. check = 11 /\ Generating
  <2>1. check = 11
    BY <1>1, CheckNames DEF IInv, ShapeInv
  <2>2. \A i \in 1 .. 11 : request.fails # Checks[i]
    BY <1>1, <2>1, CheckNames DEF IInv, PassedInv
  <2>3. request.fails = Nowhere /\ request.info = "none"
    BY <1>1, <2>1, <2>2, RequestFacts DEF IInv, PassedInv, ShapeInv
  <2> QED
    BY <1>1, <2>1, <2>3 DEF Generating
<1>7. PassedInv'
  <2>1. Asked' = Asked
    BY <1>1, RequestKept
  <2> QED
    BY <1>1, <2>1 DEF IInv, PassedInv
<1>8. GeneratingInv'
  BY <1>1, <1>6, RequestKept DEF GeneratingInv
<1>9. FormatInv' /\ DiskInv'
  BY <1>1, <1>3, <1>5 DEF FormatInv, DiskInv, AllPlain
<1>10. Promises'
  <2>1. CASE exit' = "0"
    BY <1>1, <1>4, <1>5, <1>6, <2>1, RequestKept, NothingWritten DEF Generating
  <2>2. CASE exit' # "0"
    BY <1>4, <1>5, <2>2, Unwritten
  <2> QED
    BY <2>1, <2>2
<1> QED
  BY <1>4, <1>7, <1>8, <1>9, <1>10 DEF IInv

\* With the files settled, nothing written and the position at the first one,
\* the writing begins.
LEMMA WritingBegins ==
    ASSUME ShapeInv, GeneratingInv, PassedInv, stage \in {"format", "formatting"},
           request' = request, check' = check, mode' = mode, exit' = exit, before' = before,
           disk' = disk, disk = before, stage' = "write", pos' = 1,
           ShapeInv', Settled', (Asked = "off" => ~ spawned)'
    PROVE  IInv'
<1>1. PassedInv' /\ GeneratingInv'
  BY RequestKept DEF PassedInv, GeneratingInv
<1>2. FormatInv'
  BY DEF FormatInv
<1>3. DiskInv'
  <2>1. Len(files') \in Nat /\ DOMAIN files' = 1 .. Len(files')
    BY DEF ShapeInv
  <2>2. WrittenTo(1)'
    BY <2>1 DEF WrittenTo
  <2> QED
    BY <2>1, <2>2 DEF DiskInv
<1>4. exit' = "none"
  BY DEF ShapeInv
<1>5. Promises'
  BY <1>4, Unwritten
<1> QED
  BY <1>1, <1>2, <1>3, <1>5 DEF IInv

-----------------------------------------------------------------------------
\* What the steps of the formatting leave as it is.
LEMMA FormatFrame ==
    ASSUME IInv, stage \in {"format", "formatting"},
           request' = request, before' = before, disk' = disk, files' = files, exit' = exit, pos' = pos, check' = check,
           noted' \in BOOLEAN, spawned' \in BOOLEAN, stage' \in {"formatting", "write"}
    PROVE  ShapeInv' /\ exit' = "none" /\ disk' = before' /\ Generating' /\ Generating
<1>1. ShapeInv'
  BY DEF IInv, ShapeInv
<1> QED
  BY <1>1, RequestKept DEF IInv, ShapeInv, DiskInv, GeneratingInv

LEMMA ModeAsked ==
    ASSUME IInv, stage \in {"format", "formatting", "write"}
    PROVE  mode = Asked /\ check = 11
<1>1. check = 11
  BY DEF IInv, GeneratingInv
<1> QED
  BY <1>1 DEF IInv, PassedInv

LEMMA LeaveAsIsStep == ASSUME IInv, LeaveAsIs PROVE IInv'
<1>1. /\ stage = "format" /\ stage' = "write" /\ (mode = "off" \/ request.lang # "formatting")
      /\ request' = request /\ before' = before /\ disk' = disk /\ files' = files /\ exit' = exit
      /\ pos' = pos /\ check' = check /\ mode' = mode /\ noted' = noted /\ spawned' = spawned
  BY DEF LeaveAsIs, Kept, fixed
<1>2. ShapeInv' /\ disk = before
  BY <1>1, FormatFrame DEF IInv, ShapeInv, DiskInv
<1>3. Settled
  BY <1>1, ModeAsked DEF IInv, FormatInv, Settled, FormatWanted
<1>4. Settled' /\ (Asked = "off" => ~ spawned)' /\ pos' = 1
  BY <1>1, <1>3, FilesKept, RequestKept DEF IInv, FormatInv
<1> QED
  BY <1>1, <1>2, <1>4, WritingBegins DEF IInv

LEMMA NothingToFormatStep == ASSUME IInv, NothingToFormat PROVE IInv'
<1>1. /\ stage = "format" /\ stage' = "write" /\ NoSources
      /\ request' = request /\ before' = before /\ disk' = disk /\ files' = files /\ exit' = exit
      /\ pos' = pos /\ check' = check /\ mode' = mode /\ noted' = noted /\ spawned' = spawned
  BY DEF NothingToFormat, Formatting, Kept, fixed
<1>2. ShapeInv' /\ disk = before
  BY <1>1, FormatFrame DEF IInv, ShapeInv, DiskInv
<1>3. Settled
  BY <1>1 DEF IInv, FormatInv, Settled
<1>4. Settled' /\ (Asked = "off" => ~ spawned)' /\ pos' = 1
  BY <1>1, <1>3, FilesKept, RequestKept DEF IInv, FormatInv
<1> QED
  BY <1>1, <1>2, <1>4, WritingBegins DEF IInv

LEMMA NoFormatDirStep == ASSUME IInv, NoFormatDir PROVE IInv'
<1>1. /\ stage = "format" /\ stage' = "ended" /\ exit' = "1"
      /\ request' = request /\ before' = before /\ disk' = disk /\ files' = files
      /\ pos' = pos /\ check' = check /\ noted' = noted /\ spawned' = spawned
  BY DEF NoFormatDir, Formatting, Exit, Kept, fixed
<1>2. ShapeInv'
  BY <1>1 DEF IInv, ShapeInv
<1>3. disk' = before' /\ (Asked = "off" => ~ spawned)'
  BY <1>1, RequestKept DEF IInv, DiskInv, FormatInv
<1> QED
  BY <1>1, <1>2, <1>3, EndsUnwritten

LEMMA FormatterAbsentStep == ASSUME IInv, FormatterAbsent PROVE IInv'
<1>1. /\ stage = "format" /\ request.lang = "formatting" /\ mode # "off" /\ ~ NoSources /\ request.tool = "absent"
      /\ request' = request /\ before' = before /\ disk' = disk /\ files' = files
      /\ pos' = pos /\ check' = check /\ mode' = mode /\ spawned' = TRUE
      /\ \/ mode = "require" /\ stage' = "ended" /\ exit' = "1" /\ noted' = noted
         \/ mode # "require" /\ stage' = "write" /\ exit' = exit /\ noted' = TRUE
  BY DEF FormatterAbsent, Formatting, Exit, Kept, fixed
<1>2. mode = Asked /\ Asked \in Modes /\ Asked' = Asked /\ FormatWanted
  BY <1>1, ModeAsked, RequestFacts, RequestKept DEF IInv, ShapeInv, FormatWanted
<1>3. CASE mode = "require"
  <2>1. ShapeInv'
    BY <1>1, <1>3 DEF IInv, ShapeInv
  <2>2. disk' = before'
    BY <1>1 DEF IInv, DiskInv
  <2> QED
    BY <1>1, <1>2, <1>3, <2>1, <2>2, EndsUnwritten
<1>4. CASE mode # "require"
  <2>1. ShapeInv' /\ disk = before
    BY <1>1, <1>4, FormatFrame DEF IInv, DiskInv
  <2>2. Asked = "auto" /\ AllPlain
    BY <1>1, <1>2, <1>4 DEF Modes, IInv, FormatInv
  <2>3. Settled'
    BY <1>1, <1>2, <1>4, <2>2, FilesKept, RequestKept DEF Settled
  <2>4. (Asked = "off" => ~ spawned)' /\ pos' = 1
    BY <1>1, <1>2, <2>2 DEF IInv, FormatInv
  <2> QED
    BY <1>1, <1>4, <2>1, <2>3, <2>4, WritingBegins DEF IInv
<1> QED
  BY <1>3, <1>4

LEMMA FormatterFoundStep == ASSUME IInv, FormatterFound PROVE IInv'
<1>1. /\ stage = "format" /\ stage' = "formatting" /\ request.lang = "formatting" /\ mode # "off"
      /\ ~ NoSources /\ request.tool # "absent"
      /\ request' = request /\ before' = before /\ disk' = disk /\ files' = files /\ exit' = exit
      /\ pos' = pos /\ check' = check /\ mode' = mode /\ noted' = noted /\ spawned' = TRUE
  BY DEF FormatterFound, Formatting, Kept, fixed
<1>2. ShapeInv' /\ disk' = before' /\ exit' = "none"
  BY <1>1, FormatFrame DEF IInv, ShapeInv
<1>3. mode = Asked /\ Asked' = Asked /\ Asked # "off" /\ FormatWanted'
  BY <1>1, ModeAsked, RequestKept DEF FormatWanted
<1>4. PassedInv' /\ GeneratingInv'
  BY <1>1, <1>3, RequestKept DEF IInv, PassedInv, GeneratingInv
<1>5. FormatInv'
  <2>1. pos = 1 /\ ~ noted
    BY <1>1 DEF IInv, FormatInv
  <2>2. Formatted(1)
    BY FileFacts DEF IInv, Formatted
  <2> QED
    BY <1>1, <1>3, <2>1, <2>2, FilesKept DEF FormatInv
<1>6. DiskInv'
  <2>1. pos' = 1 /\ Len(files') \in Nat
    BY <1>1, FileFacts DEF IInv, FormatInv
  <2> QED
    BY <1>1, <1>2, <2>1 DEF DiskInv
<1>7. Promises'
  BY <1>2, <1>3, Unwritten
<1> QED
  BY <1>2, <1>4, <1>5, <1>6, <1>7 DEF IInv


LEMMA FormatFileStep == ASSUME IInv, FormatFile PROVE IInv'
<1>1. /\ stage = "formatting" /\ stage' = "formatting" /\ pos <= Len(files) /\ pos' = pos + 1
      /\ ~ (IsSource(pos) /\ request.tool = files[pos].path)
      /\ files' = IF IsSource(pos) THEN [files EXCEPT ![pos].style = "formatted"] ELSE files
      /\ request' = request /\ before' = before /\ disk' = disk /\ exit' = exit
      /\ check' = check /\ mode' = mode /\ noted' = noted /\ spawned' = spawned
  BY DEF FormatFile, Kept, fixed
<1>2. Len(files) \in Nat /\ DOMAIN files = 1 .. Len(files) /\ \A i \in DOMAIN files : files[i] \in GeneratedFile
  BY DEF IInv, ShapeInv
<1>3. pos \in DOMAIN files
  BY <1>1, <1>2 DEF IInv, ShapeInv
<1>4. /\ files' \in Seq(GeneratedFile) /\ Len(files') = Len(files) /\ DOMAIN files' = DOMAIN files
      /\ \A i \in DOMAIN files : files'[i].path = files[i].path
      /\ \A i \in DOMAIN files : i # pos => files'[i].style = files[i].style
      /\ IsSource(pos) => files'[pos].style = "formatted"
  <2>1. CASE IsSource(pos)
    <3>1. files' = [files EXCEPT ![pos] = [files[pos] EXCEPT !.style = "formatted"]]
      BY <1>1, <1>3, <2>1
    <3>2. [files[pos] EXCEPT !.style = "formatted"] \in GeneratedFile
      BY <1>2, <1>3 DEF GeneratedFile
    <3>3. files' \in Seq(GeneratedFile) /\ Len(files') = Len(files) /\ DOMAIN files' = DOMAIN files
      BY <1>2, <1>3, <3>1, <3>2 DEF IInv, ShapeInv
    <3>4. files'[pos] = [files[pos] EXCEPT !.style = "formatted"] /\ \A i \in DOMAIN files : i # pos => files'[i] = files[i]
      BY <1>3, <3>1
    <3>5. files'[pos].path = files[pos].path /\ files'[pos].style = "formatted"
      BY <1>2, <1>3, <3>4 DEF GeneratedFile
    <3> QED
      BY <3>3, <3>4, <3>5
  <2>2. CASE ~ IsSource(pos)
    BY <1>1, <2>2 DEF IInv, ShapeInv
  <2> QED
    BY <2>1, <2>2
<1>5. ShapeInv'
  <2>1. \A i, j \in DOMAIN files' : files'[i].path = files'[j].path => i = j
    BY <1>4 DEF IInv, ShapeInv
  <2>2. pos' \in Nat \ {0}
    BY <1>1 DEF IInv, ShapeInv
  <2> QED
    BY <1>1, <1>4, <2>1, <2>2 DEF IInv, ShapeInv
<1>6. Asked' = Asked /\ FormatWanted' = FormatWanted /\ Generating' = Generating
  BY <1>1, RequestKept
<1>7. PassedInv' /\ GeneratingInv'
  BY <1>1, <1>6 DEF IInv, PassedInv, GeneratingInv
<1>8. \A i \in DOMAIN files : IsSource(i)' = IsSource(i)
  BY <1>4 DEF IsSource
<1>9. FormatInv'
  <2>1. NoSources' = NoSources
    BY <1>4, <1>8 DEF NoSources
  <2>2. Formatted(pos)
    BY <1>1 DEF IInv, FormatInv
  <2>3. Formatted(pos)'
    <3>1. \A i \in DOMAIN files' : i < pos + 1 /\ IsSource(i)' => files'[i].style = "formatted" /\ request'.tool # files'[i].path
      <4> SUFFICES ASSUME NEW i \in DOMAIN files, i < pos + 1, IsSource(i)
                   PROVE  files'[i].style = "formatted" /\ request.tool # files[i].path
        BY <1>1, <1>4, <1>8
      <4>1. CASE i = pos
        BY <1>1, <1>4, <4>1
      <4>2. CASE i # pos
        <5>1. i < pos
          BY <1>2, <4>2 DEF IInv, ShapeInv
        <5> QED
          BY <1>4, <2>2, <4>2, <5>1 DEF Formatted
      <4> QED
        BY <4>1, <4>2
    <3> QED
      BY <1>1, <3>1 DEF Formatted
  <2> QED
    BY <1>1, <1>6, <2>1, <2>3 DEF IInv, FormatInv
<1>10. DiskInv'
  BY <1>1, <1>2, <1>4 DEF IInv, DiskInv, ShapeInv
<1>11. Promises'
  <2>1. exit' = "none" /\ disk' = before' /\ (Asked = "off" => ~ spawned)'
    BY <1>1, <1>6 DEF IInv, ShapeInv, DiskInv, FormatInv
  <2> QED
    BY <1>5, <2>1, Unwritten
<1> QED
  BY <1>5, <1>7, <1>9, <1>10, <1>11 DEF IInv


LEMMA FormatterRefusesStep == ASSUME IInv, FormatterRefuses PROVE IInv'
<1>1. /\ stage = "formatting" /\ stage' = "ended" /\ exit' = "1"
      /\ request' = request /\ before' = before /\ disk' = disk /\ files' = files
      /\ pos' = pos /\ check' = check /\ noted' = noted /\ spawned' = spawned
  BY DEF FormatterRefuses, Exit, Kept, fixed
<1>2. ShapeInv'
  BY <1>1 DEF IInv, ShapeInv
<1>3. disk' = before' /\ (Asked = "off" => ~ spawned)'
  BY <1>1, RequestKept DEF IInv, DiskInv, FormatInv
<1> QED
  BY <1>1, <1>2, <1>3, EndsUnwritten

LEMMA FormatDoneStep == ASSUME IInv, FormatDone PROVE IInv'
<1>1. /\ stage = "formatting" /\ stage' = "write" /\ pos > Len(files) /\ pos' = 1
      /\ request' = request /\ before' = before /\ disk' = disk /\ files' = files /\ exit' = exit
      /\ check' = check /\ mode' = mode /\ noted' = noted /\ spawned' = spawned
  BY DEF FormatDone, Kept, fixed
<1>2. ShapeInv' /\ disk = before
  BY <1>1 DEF IInv, ShapeInv, DiskInv
<1>3. Settled
  <2>1. pos = Len(files) + 1
    BY <1>1, FileFacts DEF IInv, DiskInv, ShapeInv
  <2> QED
    BY <1>1, <2>1 DEF IInv, FormatInv, Settled
<1>4. Settled' /\ (Asked = "off" => ~ spawned)'
  BY <1>1, <1>3, FilesKept, RequestKept DEF IInv, FormatInv
<1> QED
  BY <1>1, <1>2, <1>4, WritingBegins DEF IInv

-----------------------------------------------------------------------------
\* What is on disk while the files are written.
LEMMA WritingFacts ==
    ASSUME IInv, stage = "write"
    PROVE  /\ Len(files) \in Nat /\ DOMAIN files = 1 .. Len(files) /\ pos \in Nat \ {0}
           /\ \A i \in DOMAIN files : files[i].path \in Paths /\ Content(i) \in Contents
           /\ \A i, j \in DOMAIN files : files[i].path = files[j].path => i = j
           /\ \A i \in DOMAIN files : IF i < pos THEN disk[files[i].path] = Content(i)
                                                 ELSE disk[files[i].path] = before[files[i].path]
           /\ \A p \in Paths \ {files[i].path : i \in DOMAIN files} : disk[p] = before[p]
           /\ disk \in Trees
<1>1. /\ Len(files) \in Nat /\ DOMAIN files = 1 .. Len(files)
      /\ \A i \in DOMAIN files : files[i].path \in Paths /\ Content(i) \in Contents
  BY FileFacts DEF IInv
<1>2. /\ \A i, j \in DOMAIN files : files[i].path = files[j].path => i = j
      /\ pos \in Nat \ {0} /\ disk \in Trees
  BY DEF IInv, ShapeInv
<1>3. WrittenTo(pos)
  BY DEF IInv, DiskInv
<1> QED
  BY <1>1, <1>2, <1>3 DEF WrittenTo

\* A file written whole makes the prefix one longer.
LEMMA WholeFile ==
    ASSUME IInv, stage = "write", files' = files, request' = request, before' = before,
           pos \in DOMAIN files, pos' = pos + 1,
           disk' = [disk EXCEPT ![files[pos].path] = Content(pos)]
    PROVE  disk' \in Trees /\ pos' \in 1 .. Len(files) + 1 /\ WrittenTo(pos)' /\ PrefixWritten'
<1>1. \A i : Content(i)' = Content(i)
  BY FilesKept
<1>2. disk' \in Trees
  BY WritingFacts DEF Trees
<1>3. disk'[files[pos].path] = Content(pos)
  BY WritingFacts DEF Trees
<1>4. \A p \in Paths : p # files[pos].path => disk'[p] = disk[p]
  BY WritingFacts DEF Trees
<1>5. pos' \in 1 .. Len(files) + 1
  BY WritingFacts
<1>6. \A i \in DOMAIN files : IF i < pos + 1 THEN disk'[files[i].path] = Content(i)
                                             ELSE disk'[files[i].path] = before[files[i].path]
  <2> SUFFICES ASSUME NEW i \in DOMAIN files
               PROVE  IF i < pos + 1 THEN disk'[files[i].path] = Content(i)
                                     ELSE disk'[files[i].path] = before[files[i].path]
    OBVIOUS
  <2>1. CASE i = pos
    BY <1>3, <2>1, WritingFacts
  <2>2. CASE i # pos
    <3>1. disk'[files[i].path] = disk[files[i].path]
      BY <1>4, <2>2, WritingFacts
    <3>2. i < pos + 1 <=> i < pos
      BY <2>2, WritingFacts
    <3> QED
      BY <3>1, <3>2, WritingFacts
  <2> QED
    BY <2>1, <2>2
<1>7. \A p \in Paths \ {files[i].path : i \in DOMAIN files} : disk'[p] = before[p]
  BY <1>4, WritingFacts
<1>8. WrittenTo(pos)'
  BY <1>1, <1>6, <1>7 DEF WrittenTo
<1>9. PrefixWritten'
  <2>1. \A i \in DOMAIN files : /\ i < pos' => disk'[files[i].path] = Content(i)
                                /\ ~ (i < pos') => disk'[files[i].path] = before[files[i].path]
    BY <1>6
  <2>2. \A i \in DOMAIN files : /\ i < pos' => disk'[files[i].path] = Content(i)
                                /\ i = pos' => disk'[files[i].path] = before[files[i].path]
                                /\ i > pos' => disk'[files[i].path] = before[files[i].path]
    BY <2>1, <1>5, WritingFacts
  <2> QED
    BY <1>1, <1>5, <1>7, <2>2 DEF PrefixWritten
<1> QED
  BY <1>2, <1>5, <1>8, <1>9

\* A write that stops in the middle leaves the prefix and a torn file after it.
LEMMA TornFile ==
    ASSUME IInv, stage = "write", files' = files, request' = request, before' = before,
           pos \in DOMAIN files, disk' = [disk EXCEPT ![files[pos].path] = Torn]
    PROVE  disk' \in Trees /\ PrefixWritten'
<1>1. \A i : Content(i)' = Content(i)
  BY FilesKept
<1>2. disk' \in Trees
  BY WritingFacts DEF Trees
<1>3. disk'[files[pos].path] = Torn
  BY WritingFacts DEF Trees
<1>4. \A p \in Paths : p # files[pos].path => disk'[p] = disk[p]
  BY WritingFacts DEF Trees
<1>5. \A i \in DOMAIN files : i # pos => disk'[files[i].path] = disk[files[i].path]
  BY <1>4, WritingFacts
<1>6. \A i \in DOMAIN files : /\ i < pos => disk'[files[i].path] = Content(i)
                              /\ i = pos => disk'[files[i].path] = Torn
                              /\ i > pos => disk'[files[i].path] = before[files[i].path]
  BY <1>3, <1>5, WritingFacts
<1>7. \A p \in Paths \ {files[i].path : i \in DOMAIN files} : disk'[p] = before[p]
  BY <1>4, WritingFacts
<1>8. pos \in 1 .. Len(files) + 1
  BY WritingFacts
<1> QED
  BY <1>1, <1>2, <1>6, <1>7, <1>8 DEF PrefixWritten

\* Without a write the prefix stays.
LEMMA PrefixKept ==
    ASSUME IInv, files' = files, request' = request, before' = before, disk' = disk
    PROVE  disk' \in Trees /\ PrefixWritten'
<1>1. \A i : Content(i)' = Content(i)
  BY FilesKept
<1> QED
  BY <1>1 DEF IInv, ShapeInv, Promises, PrefixWritten

\* The files are settled while they are written.
LEMMA WriteFrame ==
    ASSUME IInv, stage = "write", request' = request, files' = files, noted' = noted, spawned' = spawned
    PROVE  /\ Settled' /\ Generating' /\ (Asked = "off" => ~ spawned)'
           /\ exit = "none" /\ pos <= Len(files) + 1 /\ WrittenTo(pos)
<1>1. Settled /\ Generating
  BY DEF IInv, FormatInv, GeneratingInv
<1> QED
  BY <1>1, FilesKept, RequestKept DEF IInv, FormatInv, DiskInv, ShapeInv

LEMMA WriteFileStep == ASSUME IInv, WriteFile PROVE IInv'
<1>1. /\ stage = "write" /\ stage' = "write" /\ pos <= Len(files) /\ pos' = pos + 1
      /\ disk' = [disk EXCEPT ![files[pos].path] = Content(pos)]
      /\ request' = request /\ before' = before /\ files' = files /\ exit' = exit
      /\ check' = check /\ mode' = mode /\ noted' = noted /\ spawned' = spawned
  BY DEF WriteFile, Writing, Kept, fixed
<1>2. pos \in DOMAIN files
  BY <1>1, WritingFacts
<1>3. disk' \in Trees /\ pos' \in 1 .. Len(files) + 1 /\ WrittenTo(pos)' /\ PrefixWritten'
  BY <1>1, <1>2, WholeFile
<1>4. Settled' /\ Generating' /\ (Asked = "off" => ~ spawned)' /\ exit' = "none"
  BY <1>1, WriteFrame
<1>5. ShapeInv'
  BY <1>1, <1>3 DEF IInv, ShapeInv
<1>6. PassedInv' /\ GeneratingInv' /\ FormatInv'
  BY <1>1, <1>4, RequestKept DEF IInv, PassedInv, GeneratingInv, FormatInv
<1>7. DiskInv'
  BY <1>1, <1>3, WritingFacts DEF DiskInv
<1>8. Promises'
  BY <1>1, <1>3, <1>4, <1>5, WrittenInPart
<1> QED
  BY <1>5, <1>6, <1>7, <1>8 DEF IInv

\* A run that stops while it writes, for whatever reason.
LEMMA WritingEnds ==
    ASSUME IInv, stage = "write", stage' = "ended", exit' # "none",
           disk' \in Trees, PrefixWritten', (exit = "0" => WrittenTo(Len(files) + 1))',
           request' = request, before' = before, files' = files, pos' = pos,
           check' = check, noted' = noted, spawned' = spawned
    PROVE  IInv'
<1>1. Settled' /\ Generating' /\ (Asked = "off" => ~ spawned)'
  BY WriteFrame
<1>2. ShapeInv'
  BY DEF IInv, ShapeInv
<1>3. PassedInv' /\ GeneratingInv' /\ FormatInv' /\ DiskInv'
  BY <1>1 DEF PassedInv, GeneratingInv, FormatInv, DiskInv
<1>4. Promises'
  BY <1>1, <1>2, WrittenInPart
<1> QED
  BY <1>2, <1>3, <1>4 DEF IInv

LEMMA WriteFailsStep == ASSUME IInv, WriteFails PROVE IInv'
<1>1. /\ stage = "write" /\ stage' = "ended" /\ pos <= Len(files) /\ exit' = "1"
      /\ disk' = disk \/ disk' = [disk EXCEPT ![files[pos].path] = Torn]
      /\ request' = request /\ before' = before /\ files' = files /\ pos' = pos
      /\ check' = check /\ noted' = noted /\ spawned' = spawned
  BY DEF WriteFails, Writing, Exit, Kept, fixed
<1>2. pos \in DOMAIN files
  BY <1>1, WritingFacts
<1>3. disk' \in Trees /\ PrefixWritten'
  BY <1>1, <1>2, TornFile, PrefixKept
<1> QED
  BY <1>1, <1>3, WritingEnds

LEMMA DoneStep == ASSUME IInv, Done PROVE IInv'
<1>1. /\ stage = "write" /\ stage' = "ended" /\ pos > Len(files) /\ exit' = "0"
      /\ request' = request /\ before' = before /\ disk' = disk /\ files' = files /\ pos' = pos
      /\ check' = check /\ noted' = noted /\ spawned' = spawned
  BY DEF Done, Exit, Kept, fixed
<1>2. disk' \in Trees /\ PrefixWritten'
  BY <1>1, PrefixKept
<1>3. WrittenTo(Len(files) + 1)
  <2>1. pos <= Len(files) + 1 /\ WrittenTo(pos)
    BY <1>1, WriteFrame
  <2>2. pos = Len(files) + 1
    BY <1>1, <2>1, WritingFacts
  <2> QED
    BY <2>1, <2>2
<1>4. WrittenTo(Len(files) + 1)'
  <2>1. \A i : Content(i)' = Content(i)
    BY <1>1, FilesKept
  <2> QED
    BY <1>1, <1>3, <2>1 DEF WrittenTo
<1> QED
  BY <1>1, <1>2, <1>4, WritingEnds

\* The process dies before it writes, between two files or within one.
LEMMA KillStep == ASSUME IInv, Kill PROVE IInv'
<1>1. /\ stage \notin {"idle", "ended"} /\ stage' = "ended" /\ exit' = "killed"
      /\ \/ disk' = disk
         \/ stage = "write" /\ pos <= Len(files) /\ disk' = [disk EXCEPT ![files[pos].path] = Torn]
      /\ request' = request /\ before' = before /\ files' = files /\ pos' = pos
      /\ check' = check /\ noted' = noted /\ spawned' = spawned
  BY DEF Kill, Writing, Kept, fixed
<1>2. CASE stage = "write"
  <2>1. pos <= Len(files) => pos \in DOMAIN files
    BY <1>2, WritingFacts
  <2>2. disk' \in Trees /\ PrefixWritten'
    BY <1>1, <1>2, <2>1, TornFile, PrefixKept
  <2> QED
    BY <1>1, <1>2, <2>2, WritingEnds
<1>3. CASE stage # "write"
  <2>1. disk' = disk /\ stage \in {"check", "format", "formatting"}
    BY <1>1, <1>3 DEF IInv, ShapeInv
  <2>2. ShapeInv'
    BY <1>1, <2>1 DEF IInv, ShapeInv
  <2>3. disk' = before' /\ (Asked = "off" => ~ spawned)'
    BY <1>1, <2>1, RequestKept DEF IInv, DiskInv, FormatInv
  <2> QED
    BY <1>1, <2>2, <2>3, EndsUnwritten
<1> QED
  BY <1>2, <1>3

-----------------------------------------------------------------------------
\* A step of one of the stages, or no step of the program at all.
LEMMA NextInv == IInv /\ [Next]_vars => IInv'
<1> SUFFICES ASSUME IInv, [Next]_vars PROVE IInv'
  OBVIOUS
<1>1. CASE Start
  BY <1>1, StartStep
<1>2. CASE CheckFails
  BY <1>2, CheckFailsStep
<1>3. CASE Inform \/ StopAtIR
  BY <1>3, AnswerStep
<1>4. CASE CheckPasses
  BY <1>4, CheckPassesStep
<1>5. CASE Generate
  BY <1>5, GenerateStep
<1>6. CASE LeaveAsIs
  BY <1>6, LeaveAsIsStep
<1>7. CASE NoFormatDir
  BY <1>7, NoFormatDirStep
<1>8. CASE NothingToFormat
  BY <1>8, NothingToFormatStep
<1>9. CASE FormatterAbsent
  BY <1>9, FormatterAbsentStep
<1>10. CASE FormatterFound
  BY <1>10, FormatterFoundStep
<1>11. CASE FormatFile
  BY <1>11, FormatFileStep
<1>12. CASE FormatterRefuses
  BY <1>12, FormatterRefusesStep
<1>13. CASE FormatDone
  BY <1>13, FormatDoneStep
<1>14. CASE WriteFile
  BY <1>14, WriteFileStep
<1>15. CASE WriteFails
  BY <1>15, WriteFailsStep
<1>16. CASE Done
  BY <1>16, DoneStep
<1>17. CASE Kill
  BY <1>17, KillStep
<1>18. CASE UNCHANGED vars
  <2>1. /\ request' = request /\ stage' = stage /\ check' = check /\ mode' = mode /\ files' = files
        /\ pos' = pos /\ exit' = exit /\ noted' = noted /\ spawned' = spawned
        /\ disk' = disk /\ before' = before
    BY <1>18 DEF vars
  <2>2. /\ Asked' = Asked /\ EndsAtIR' = EndsAtIR /\ Generating' = Generating /\ FormatWanted' = FormatWanted
        /\ NoSources' = NoSources /\ AllPlain' = AllPlain /\ Settled' = Settled
        /\ \A n : Formatted(n)' = Formatted(n)
        /\ \A i : Content(i)' = Content(i)
    BY <2>1, RequestKept, FilesKept
  <2>3. \A i : IsSource(i)' = IsSource(i)
    BY <2>1 DEF IsSource
  <2>4. ShapeInv'
    BY <2>1 DEF IInv, ShapeInv
  <2>5. PassedInv' /\ GeneratingInv' /\ FormatInv'
    BY <2>1, <2>2 DEF IInv, PassedInv, GeneratingInv, FormatInv
  <2>6. DiskInv'
    BY <2>1, <2>2 DEF IInv, DiskInv, WrittenTo
  <2>7. FailsClosed'
    BY <2>1, <2>2, <2>3 DEF IInv, Promises, FailsClosed
  <2>8. ZeroMeansWritten'
    BY <2>1, <2>2, <2>3 DEF IInv, Promises, ZeroMeansWritten
  <2>9. OneStyle'
    BY <2>1, <2>2, <2>3 DEF IInv, Promises, OneStyle
  <2>10. PrefixWritten'
    BY <2>1, <2>2 DEF IInv, Promises, PrefixWritten
  <2> QED
    BY <2>4, <2>5, <2>6, <2>7, <2>8, <2>9, <2>10 DEF IInv, Promises
<1> QED
  BY <1>1, <1>2, <1>3, <1>4, <1>5, <1>6, <1>7, <1>8, <1>9, <1>10, <1>11, <1>12,
     <1>13, <1>14, <1>15, <1>16, <1>17, <1>18 DEF Next, Step

\* What a run relies on while it goes on: the checks it has passed, how its
\* files came by their style, and how far the tree is from the one it found.
THEOREM Inductive == Spec => []IInv
<1> QED
  BY InitInv, NextInv, PTL DEF Spec

\* However many runs there are, one that a check or a formatter ends leaves
\* the tree as it found it.
THEOREM FailsClosedAlways == Spec => []FailsClosed
<1>1. IInv => FailsClosed
  BY DEF IInv, Promises
<1> QED
  BY <1>1, Inductive, PTL

\* Exit 0 means that every file of the run is on disk, whole and of this run.
THEOREM ZeroMeansWrittenAlways == Spec => []ZeroMeansWritten
<1>1. IInv => ZeroMeansWritten
  BY DEF IInv, Promises
<1> QED
  BY <1>1, Inductive, PTL

\* A run never leaves its sources in two styles, nor spawns a formatter that
\* was turned off, nor keeps quiet about files it did not format.
THEOREM OneStyleAlways == Spec => []OneStyle
<1>1. IInv => OneStyle
  BY DEF IInv, Promises
<1> QED
  BY <1>1, Inductive, PTL

\* Killed or failed at any point, a run has written a prefix of its files.
THEOREM PrefixWrittenAlways == Spec => []PrefixWritten
<1>1. IInv => PrefixWritten
  BY DEF IInv, Promises
<1> QED
  BY <1>1, Inductive, PTL

=============================================================================
