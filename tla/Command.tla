------------------------------ MODULE Command ------------------------------
(***************************************************************************)
(* One invocation of cbomscope: cmd/cbomscope/main.go, from the words on   *)
(* the command line to the exit code.                                      *)
(*                                                                         *)
(* The program is sequential, so its control state is one stage, pc.       *)
(* Around it the world moves: an endpoint answers, refuses or stays        *)
(* silent until the deadline, a device that output goes to fills up, and   *)
(* the process is killed.  The collectors (scan.Dir, scan.Deps,            *)
(* probe.Endpoint) are modelled here by what they may return; the          *)
(* classifier is the function Verdict.                                     *)
(***************************************************************************)
EXTENDS Gate, FiniteSets

CONSTANTS
  Findings,      \* what a collector can report, not yet judged
  Verdict,       \* the classifier: the posture of each finding
  Modules,       \* the modules go.mod requires
  CommandLines,  \* the command lines a person may write
  MaxFindings,   \* bound: the most findings one collector returns
  Fillable       \* the sinks whose device may run out of room

InventoryCommands == {"scan", "probe", "plan", "cbom"}
HelpWords == {"", "help"}    \* no argument at all, or help, -h, --help
FlagNames == {"json", "deps", "probe", "o", "fail-on", "timeout"}
Sinks == {"stdout", "stderr", "file"}

\* A flag is in flags when its value is not the empty word: -o "" and
\* -probe "" ask for nothing.
CommandLine ==
  [cmd : InventoryCommands \cup HelpWords \cup {"table", "misspelled"},
   flags : SUBSET FlagNames,
   malformed : BOOLEAN,        \* a flag's value does not parse
   positional : 0..2,          \* two stand for two or more
   failOn : GateWords]         \* read where flags holds "fail-on"

ASSUME VerdictAssumption == Verdict \in [Findings -> Postures]
ASSUME CommandLinesAssumption == CommandLines \subseteq CommandLine
ASSUME MaxFindingsAssumption == MaxFindings \in Nat
ASSUME FillableAssumption == Fillable \subseteq Sinks

CollectedType ==
  [source : Seq(Findings), modules : Seq(Findings), endpoint : Seq(Findings)]
Collected == UNION {[1..n -> Findings] : n \in 0..MaxFindings}
Asset == [what : Findings, posture : Postures]

VARIABLES
  line,       \* the command line
  pc,         \* the stage the run is in, or ended in
  collected,  \* history: what each collector returned
  found,      \* gather's list of findings
  read,       \* the modules whose source was scanned
  unread,     \* the modules whose source is not on disk
  assets,     \* the findings with their postures
  out,        \* what each sink holds, as a sequence of chunks
  torn,       \* the sinks a write did not reach whole
  full,       \* the sinks whose device has no room left
  exit        \* how the process ended

vars == <<line, pc, collected, found, read, unread, assets, out, torn, full, exit>>

-----------------------------------------------------------------------------
\* The command line.

FlagsOf(cmd) ==
  CASE cmd = "scan"  -> {"json", "deps", "fail-on"}
    [] cmd = "probe" -> {"json", "fail-on", "timeout"}
    [] cmd = "plan"  -> {"json", "deps", "probe", "fail-on", "timeout"}
    [] cmd = "cbom"  -> {"probe", "deps", "o", "fail-on", "timeout"}
    [] cmd = "table" -> {"json"}
    [] OTHER         -> {}

failOn(l) == IF "fail-on" \in l.flags THEN l.failOn ELSE "broken"

\* A bug: the policy is not read until the gate needs it.
AcceptedUnderAnyPolicy(l) ==
  /\ l.cmd \in InventoryCommands \cup {"table"}
  /\ l.flags \subseteq FlagsOf(l.cmd)
  /\ ~l.malformed
  /\ l.positional = IF l.cmd = "table" THEN 0 ELSE 1

Accepted(l) ==
  /\ l.cmd \in InventoryCommands \cup {"table"}
  /\ l.flags \subseteq FlagsOf(l.cmd)
  /\ ~l.malformed
  /\ l.positional = IF l.cmd = "table" THEN 0 ELSE 1
  /\ l.cmd # "table" => GateAccepts(failOn(l))

threshold == parseGate(failOn(line))

machineOutput(l) ==
  IF l.cmd = "cbom" THEN "o" \notin l.flags ELSE "json" \in l.flags

DocumentSink(l) == IF l.cmd = "cbom" /\ "o" \in l.flags THEN "file" ELSE "stdout"

\* A bug: notes go beside the document.
NoteSinkIsStdout(l) == "stdout"

\* Where a note that is not inventory goes.
NoteSink(l) == IF machineOutput(l) THEN "stderr" ELSE "stdout"

\* gather's stages, in its order; cmdProbe has only the last one.
AfterDeps(l) == IF "probe" \in l.flags THEN "probe" ELSE "judge"
AfterDir(l) == IF "deps" \in l.flags THEN "deps" ELSE AfterDeps(l)
FirstStage(l) ==
  CASE l.cmd = "table" -> "write"
    [] l.cmd = "probe" -> "probe"
    [] OTHER           -> "dir"

\* A bug: the unread modules are forgotten once a document was asked for.
AfterWriteOfDocument(l) ==
  IF l.cmd # "probe" /\ ~machineOutput(l) THEN "unread" ELSE "gate"

\* What follows the table or the document.
AfterWrite(l) ==
  IF l.cmd # "probe" THEN "unread"
  ELSE IF "json" \in l.flags THEN "gate" ELSE "handshake"

Stages ==
  {"start", "dir", "deps", "probe", "judge", "write", "fill", "handshake",
   "unread", "gate"}

Gathering == {"start", "dir", "deps", "probe", "judge"}

-----------------------------------------------------------------------------
\* Output.

ChunkKinds ==
  {"earlier", "usage", "rules", "table", "document", "handshake", "unread",
   "verdict", "error"}

Chunk == [kind : ChunkKinds, assets : Seq(Asset), modules : SUBSET Modules]

\* A listing stands for the whole inventory in gather's order; the order in
\* which report and plan.Build print it is left out.
Plain(kind) == [kind |-> kind, assets |-> << >>, modules |-> {}]
Listing(kind) == [kind |-> kind, assets |-> assets, modules |-> {}]
UnreadNote == [kind |-> "unread", assets |-> << >>, modules |-> unread]

\* A write to a device without room leaves the sink torn.
Emit(sink, chunk) ==
  IF sink \in full
  THEN torn' = torn \cup {sink} /\ UNCHANGED out
  ELSE out' = [out EXCEPT ![sink] = Append(@, chunk)] /\ UNCHANGED torn

\* main: the error is printed on stderr and the exit code is 2.
Fail ==
  /\ exit' = "failed"
  /\ Emit("stderr", Plain("error"))
  /\ UNCHANGED <<line, pc, collected, found, read, unread, assets, full>>

\* The same after a write that failed half way.
FailTorn(sink) ==
  /\ exit' = "failed"
  /\ torn' = torn \cup {sink} \cup (full \cap {"stderr"})
  /\ out' = IF "stderr" \in full THEN out
            ELSE [out EXCEPT !["stderr"] = Append(@, Plain("error"))]
  /\ UNCHANGED <<line, pc, collected, found, read, unread, assets, full>>

Running(stage) == exit = "running" /\ pc = stage

-----------------------------------------------------------------------------
\* run and the head of each command.

ShowUsage ==
  /\ Running("start")
  /\ line.cmd \in HelpWords
  /\ exit' = "clean"
  /\ Emit("stdout", Plain("usage"))
  /\ UNCHANGED <<line, pc, collected, found, read, unread, assets, full>>

\* An unknown command, a flag that does not parse, the wrong number of
\* positional arguments, a gate nobody can spell.
RejectLine ==
  /\ Running("start")
  /\ line.cmd \notin HelpWords
  /\ ~Accepted(line)
  /\ Fail

\* A bug: the file of -o is created before there is anything to put in it.
AcceptLineAndTruncate ==
  /\ Running("start")
  /\ Accepted(line)
  /\ pc' = FirstStage(line)
  /\ out' = IF DocumentSink(line) = "file" THEN [out EXCEPT !["file"] = << >>] ELSE out
  /\ UNCHANGED <<line, collected, found, read, unread, assets, torn, full, exit>>

AcceptLine ==
  /\ Running("start")
  /\ Accepted(line)
  /\ pc' = FirstStage(line)
  /\ UNCHANGED <<line, collected, found, read, unread, assets, out, torn, full, exit>>

-----------------------------------------------------------------------------
\* gather.

ScanDir ==
  /\ Running("dir")
  /\ \E fs \in Collected :
       /\ collected' = [collected EXCEPT !.source = fs]
       /\ found' = fs
  /\ pc' = AfterDir(line)
  /\ UNCHANGED <<line, read, unread, assets, out, torn, full, exit>>

\* A directory that cannot be read, a first-party file that does not parse.
ScanDirFails == Running("dir") /\ Fail

\* A bug: found is assigned where it should be appended to.
ScanDepsAlone ==
  /\ Running("deps")
  /\ \E missing \in SUBSET Modules, fs \in Collected :
       /\ missing = Modules => fs = << >>
       /\ collected' = [collected EXCEPT !.modules = fs]
       /\ found' = fs
       /\ read' = Modules \ missing
       /\ unread' = missing
  /\ pc' = AfterDeps(line)
  /\ UNCHANGED <<line, assets, out, torn, full, exit>>

ScanDeps ==
  /\ Running("deps")
  /\ \E missing \in SUBSET Modules, fs \in Collected :
       /\ missing = Modules => fs = << >>
       /\ collected' = [collected EXCEPT !.modules = fs]
       /\ found' = found \o fs
       /\ read' = Modules \ missing
       /\ unread' = missing
  /\ pc' = AfterDeps(line)
  /\ UNCHANGED <<line, assets, out, torn, full, exit>>

\* No go.mod, a module whose tree went away or cannot be walked.
ScanDepsFails == Running("deps") /\ Fail

\* A handshake that completes names at least a version and a cipher.
EndpointAnswers ==
  /\ Running("probe")
  /\ \E fs \in Collected :
       /\ fs # << >>
       /\ collected' = [collected EXCEPT !.endpoint = fs]
       /\ found' = found \o fs
  /\ pc' = "judge"
  /\ UNCHANGED <<line, read, unread, assets, out, torn, full, exit>>

\* Not host:port, no such host, connection refused, no handshake in common.
EndpointRefuses == Running("probe") /\ Fail

\* A bug: only cmdProbe passes its deadline on.
DeadlineOfProbe == Running("probe") /\ line.cmd = "probe" /\ Fail

\* context.WithTimeout: the handshake is abandoned and the run fails.
Deadline == Running("probe") /\ Fail

\* classify.ApplyAll.
Judge ==
  /\ Running("judge")
  /\ assets' = [i \in DOMAIN found |->
                  [what |-> found[i], posture |-> Verdict[found[i]]]]
  /\ pc' = "write"
  /\ UNCHANGED <<line, collected, found, read, unread, out, torn, full, exit>>

-----------------------------------------------------------------------------
\* Output.

\* cmdTable, as rows or as JSON: what writing the rows returned is checked.
PrintRules ==
  /\ Running("write")
  /\ line.cmd = "table"
  /\ "stdout" \notin full
  /\ Emit("stdout", Plain("rules"))
  /\ exit' = "clean"
  /\ UNCHANGED <<line, pc, collected, found, read, unread, assets, full>>

\* report, reportPlan: what a write returns is not looked at.
PrintTable ==
  /\ Running("write")
  /\ line.cmd \in InventoryCommands
  /\ ~machineOutput(line)
  /\ DocumentSink(line) = "stdout"
  /\ Emit("stdout", Listing("table"))
  /\ pc' = AfterWrite(line)
  /\ UNCHANGED <<line, collected, found, read, unread, assets, full, exit>>

\* writeJSON, and the document of cbom on stdout.
WriteDocument ==
  /\ Running("write")
  /\ line.cmd \in InventoryCommands
  /\ machineOutput(line)
  /\ "stdout" \notin full
  /\ Emit("stdout", Listing("document"))
  /\ pc' = AfterWrite(line)
  /\ UNCHANGED <<line, collected, found, read, unread, assets, full, exit>>

StdoutWriteFails ==
  /\ Running("write")
  /\ line.cmd = "table" \/ machineOutput(line)
  /\ "stdout" \in full
  /\ FailTorn("stdout")

\* os.WriteFile opens the file with O_TRUNC, which takes the earlier
\* document away, and then writes.
OpenFile ==
  /\ Running("write")
  /\ DocumentSink(line) = "file"
  /\ out' = [out EXCEPT !["file"] = << >>]
  /\ pc' = "fill"
  /\ UNCHANGED <<line, collected, found, read, unread, assets, torn, full, exit>>

\* A bug: what os.WriteFile returned is not looked at.
OpenFileFailsUnnoticed ==
  /\ Running("write")
  /\ DocumentSink(line) = "file"
  /\ pc' = AfterWrite(line)
  /\ UNCHANGED <<line, collected, found, read, unread, assets, out, torn, full, exit>>

OpenFileFails == Running("write") /\ DocumentSink(line) = "file" /\ Fail

WriteFile ==
  /\ Running("fill")
  /\ "file" \notin full
  /\ Emit("file", Listing("document"))
  /\ pc' = AfterWrite(line)
  /\ UNCHANGED <<line, collected, found, read, unread, assets, full, exit>>

WriteFileFails == Running("fill") /\ "file" \in full /\ FailTorn("file")

reportHandshake ==
  /\ Running("handshake")
  /\ Emit("stdout", Plain("handshake"))
  /\ pc' = "gate"
  /\ UNCHANGED <<line, collected, found, read, unread, assets, full, exit>>

\* A bug: a module that was not read fails the run after its inventory left.
reportUnreadAsError ==
  /\ Running("unread")
  /\ IF unread = {}
     THEN /\ pc' = "gate"
          /\ UNCHANGED <<line, collected, found, read, unread, assets, out, torn,
                         full, exit>>
     ELSE Fail

\* A bug: the note is written only for a person.
reportUnreadToPeople ==
  /\ Running("unread")
  /\ IF unread = {} \/ machineOutput(line)
     THEN UNCHANGED <<out, torn>>
     ELSE Emit(NoteSink(line), UnreadNote)
  /\ pc' = "gate"
  /\ UNCHANGED <<line, collected, found, read, unread, assets, full, exit>>

reportUnread ==
  /\ Running("unread")
  /\ IF unread = {} THEN UNCHANGED <<out, torn>> ELSE Emit(NoteSink(line), UnreadNote)
  /\ pc' = "gate"
  /\ UNCHANGED <<line, collected, found, read, unread, assets, full, exit>>

\* A bug: the gate keeps its default whatever -fail-on says.
GatePassesByDefault ==
  /\ Running("gate")
  /\ tripped(assets, "broken") = {}
  /\ exit' = "clean"
  /\ UNCHANGED <<line, pc, collected, found, read, unread, assets, out, torn, full>>

\* gate: silent when nothing reached the threshold.
GatePasses ==
  /\ Running("gate")
  /\ tripped(assets, threshold) = {}
  /\ exit' = "clean"
  /\ UNCHANGED <<line, pc, collected, found, read, unread, assets, out, torn, full>>

\* A bug: the exit code has no reason beside it.
GateTripsSilently ==
  /\ Running("gate")
  /\ tripped(assets, threshold) # {}
  /\ exit' = "tripped"
  /\ UNCHANGED <<line, pc, collected, found, read, unread, assets, out, torn, full>>

GateTrips ==
  /\ Running("gate")
  /\ tripped(assets, threshold) # {}
  /\ Emit(NoteSink(line), Plain("verdict"))
  /\ exit' = "tripped"
  /\ UNCHANGED <<line, pc, collected, found, read, unread, assets, full>>

-----------------------------------------------------------------------------
\* The world.

DeviceFills ==
  /\ exit = "running"
  /\ \E sink \in Fillable \ full : full' = full \cup {sink}
  /\ UNCHANGED <<line, pc, collected, found, read, unread, assets, out, torn, exit>>

\* SIGINT, or a CI job cancelled: the program installs no handler.
Kill ==
  /\ exit = "running"
  /\ exit' = "killed"
  /\ UNCHANGED <<line, pc, collected, found, read, unread, assets, out, torn, full>>

\* The process is gone.
Ended == exit # "running" /\ UNCHANGED vars

-----------------------------------------------------------------------------
Init ==
  /\ line \in CommandLines
  /\ pc = "start"
  /\ collected = [source |-> << >>, modules |-> << >>, endpoint |-> << >>]
  /\ found = << >>
  /\ read = {}
  /\ unread = {}
  /\ assets = << >>
  /\ out = [sink \in Sinks |->
              IF sink = "file" THEN <<Plain("earlier")>> ELSE << >>]
  /\ torn = {}
  /\ full = {}
  /\ exit = "running"

\* The steps the program takes by itself.
Step ==
  \/ ShowUsage \/ RejectLine \/ AcceptLine
  \/ ScanDir \/ ScanDirFails \/ ScanDeps \/ ScanDepsFails
  \/ Judge
  \/ PrintRules \/ PrintTable \/ WriteDocument \/ StdoutWriteFails
  \/ OpenFile \/ OpenFileFails \/ WriteFile \/ WriteFileFails
  \/ reportHandshake \/ reportUnread \/ GatePasses \/ GateTrips

Next ==
  \/ Step
  \/ EndpointAnswers \/ EndpointRefuses \/ Deadline
  \/ DeviceFills \/ Kill \/ Ended

Spec == Init /\ [][Next]_vars

\* The program's steps end, since a walk is of a finite tree, and its timer
\* fires.  Nothing is assumed of the endpoint.
Fairness == WF_vars(Step) /\ WF_vars(Deadline)

FairSpec == Spec /\ Fairness

-----------------------------------------------------------------------------
\* Properties.

TypeOK ==
  /\ line \in CommandLines
  /\ pc \in Stages
  /\ collected \in CollectedType
  /\ found \in Seq(Findings)
  /\ read \subseteq Modules
  /\ unread \subseteq Modules
  /\ assets \in Seq(Asset)
  /\ out \in [Sinks -> Seq(Chunk)]
  /\ torn \subseteq Sinks
  /\ full \subseteq Fillable
  /\ exit \in {"running", "clean", "tripped", "failed", "killed"}

ChunksIn(sink) == {out[sink][i] : i \in DOMAIN out[sink]}

\* The inventory a reader was given, wherever the line sent it.
Listings ==
  {chunk \in ChunksIn("stdout") \cup ChunksIn("file") :
     chunk.kind \in {"table", "document"}}

Judged(fs) ==
  [i \in DOMAIN fs |-> [what |-> fs[i], posture |-> Verdict[fs[i]]]]

TakesInventory == line.cmd \in InventoryCommands

\* The run took its inventory and the exit code is the gate's, 0 or 1.
Answered == TakesInventory /\ exit \in {"clean", "tripped"}

\* "A gate and a reader never disagree" (main.go:48-50).  Whatever the format
\* and wherever the inventory went, the exit code is 1 exactly when what the
\* reader holds has an asset at or above the rung that was asked for, and
\* there is something to read unless its sink failed.
GateAgreesWithReader ==
  Answered =>
    /\ \A chunk \in Listings :
         exit = "tripped" <=> tripped(chunk.assets, threshold) # {}
    /\ Listings # {} \/ DocumentSink(line) \in torn

\* What every collector returned is in the inventory, with the posture the
\* classifier gives it: no collector's answer replaces an earlier one's, and
\* none is lost on the way to the reader.
NothingDropped ==
  \A chunk \in Listings :
    chunk.assets =
      Judged(collected.source \o collected.modules \o collected.endpoint)

\* A run with -deps that ends well has read every module go.mod requires, or
\* names it as unread on a stream a person sees (reportUnread).
ModulesAccountedFor ==
  (Answered /\ "deps" \in line.flags) =>
    \A m \in Modules \ read :
      \/ \E chunk \in ChunksIn(NoteSink(line)) :
           chunk.kind = "unread" /\ m \in chunk.modules
      \/ NoteSink(line) \in torn

\* A document on stdout is alone there: neither the unread modules nor the
\* verdict nor an error is appended to what a program parses.
DocumentUnmixed ==
  (\E chunk \in ChunksIn("stdout") : chunk.kind = "document")
    => Len(out["stdout"]) = 1

\* Exit code 1 has its reason beside it, and beside a complete inventory; a
\* clean or failed run says nothing a reader could take for a verdict.
VerdictIffTripped ==
  /\ exit = "tripped" =>
       \/ \E chunk \in ChunksIn("stdout") \cup ChunksIn("stderr") :
            chunk.kind = "verdict"
       \/ NoteSink(line) \in torn
  /\ exit \in {"clean", "failed"} =>
       \A sink \in Sinks : \A chunk \in ChunksIn(sink) : chunk.kind # "verdict"

\* A run that fails hands over no inventory at all, not even a whole one
\* that was written before the failure, and says so on stderr.
FailureIsNotAnInventory ==
  exit = "failed" =>
    /\ Listings = {}
    /\ \/ \E chunk \in ChunksIn("stderr") : chunk.kind = "error"
       \/ "stderr" \in torn

\* The earlier document of cbom -o is touched only by a run that has gathered
\* and judged everything: a run that is killed or fails before that leaves it.
EarlierDocumentStands ==
  (pc \in Gathering \/ (exit = "failed" /\ "file" \notin torn))
    => out["file"] = <<Plain("earlier")>>

\* The inductive invariant the safety properties above follow from.

\* The stages before an inventory has left the process.
Unwritten == Gathering \cup {"write", "fill"}

LineRead ==
  /\ pc # "start" => Accepted(line)
  /\ line.cmd = "table" => pc \in {"start", "write"}

\* What gather holds, stage by stage.
Gathered ==
  /\ found = collected.source \o collected.modules \o collected.endpoint
  /\ pc \in {"start", "dir"} => collected.source = << >>
  /\ pc \in {"start", "dir", "deps"} => collected.modules = << >>
  /\ pc \in {"start", "dir", "deps", "probe"} => collected.endpoint = << >>
  /\ pc \notin {"start", "dir", "deps"} /\ "deps" \in line.flags
       => read \cup unread = Modules
  /\ pc \notin Gathering /\ TakesInventory => assets = Judged(found)

\* What a reader holds, and what the file does.
HandedOver ==
  /\ pc \in Unwritten => Listings = {}
  /\ \A chunk \in Listings : chunk.assets = assets
  /\ pc \notin Unwritten => TakesInventory
  /\ pc \notin Unwritten => Listings # {} \/ DocumentSink(line) \in torn
  /\ pc \notin Unwritten /\ "stdout" \notin full => Listings # {}
  /\ pc \in Gathering \cup {"write"} => out["file"] = <<Plain("earlier")>>
  /\ pc = "fill" => DocumentSink(line) = "file"
  /\ pc = "fill" /\ exit = "failed" => "file" \in torn

\* Which stages a run ends in, and what is said there.
Ending ==
  /\ exit = "failed" =>
       /\ pc \in Unwritten
       /\ \/ \E chunk \in ChunksIn("stderr") : chunk.kind = "error"
          \/ "stderr" \in torn
  /\ exit = "tripped" => TakesInventory
  /\ Answered => /\ pc = "gate"
                 /\ exit = "tripped" <=> tripped(assets, threshold) # {}
  /\ exit = "tripped" =>
       \/ \E chunk \in ChunksIn("stdout") \cup ChunksIn("stderr") :
            chunk.kind = "verdict"
       \/ NoteSink(line) \in torn
  /\ exit # "tripped" =>
       \A sink \in Sinks : \A chunk \in ChunksIn(sink) : chunk.kind # "verdict"

\* What stdout holds beside a document, and where the unread modules went.
Streams ==
  /\ pc = "handshake" => line.cmd = "probe" /\ "json" \notin line.flags
  /\ TakesInventory /\ pc \in Unwritten => out["stdout"] = << >>
  /\ TakesInventory /\ machineOutput(line) => Len(out["stdout"]) <= 1
  /\ (\E chunk \in ChunksIn("stdout") : chunk.kind = "document")
       => TakesInventory /\ machineOutput(line)
  /\ pc = "gate" /\ "deps" \in line.flags =>
       \/ unread = {}
       \/ \E chunk \in ChunksIn(NoteSink(line)) :
            chunk.kind = "unread" /\ chunk.modules = unread
       \/ NoteSink(line) \in torn

IInv == TypeOK /\ LineRead /\ Gathered /\ HandedOver /\ Ending /\ Streams

\* A policy that cannot be read fails before anything is scanned: no
\* collector's stage is entered unless the gate is a rung or switched off.
PolicyBeforeWalk ==
  [][pc' \in {"dir", "deps", "probe"} => GateAccepts(failOn(line))]_vars

\* Every run ends, the one whose endpoint never answers included: the
\* handshake's deadline bounds the only step that waits for somebody else.
Terminates == <>(exit # "running")

\* The run seen from outside: what it handed over and how it ended.
Promise ==
  INSTANCE Inventory WITH
    Assets <- Asset,
    asks <- IF TakesInventory THEN "inventory" ELSE "reference",
    threshold <- IF GateAccepts(failOn(line)) THEN threshold ELSE GateOff,
    published <- {chunk.assets : chunk \in Listings},
    verdict <- exit

\* Every run of the program is a run of the abstract specification, where
\* stdout does not fill up: one inventory at most, whole, and an answer that
\* follows from it (main.go:55-59).
ImplementsInventory == Promise!Spec

\* main.go:53-54 calls a run that exits 1 with no reason anywhere a gate
\* somebody deletes, and gate's comment (main.go:526-527) one nobody can act
\* on: whatever becomes of stdout, exit code 1 has its verdict on a stream.
TripHasItsReason ==
  exit = "tripped" =>
    \E chunk \in ChunksIn("stdout") \cup ChunksIn("stderr") :
      chunk.kind = "verdict"
=============================================================================
