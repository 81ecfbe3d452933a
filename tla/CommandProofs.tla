--------------------------- MODULE CommandProofs ---------------------------
(***************************************************************************)
(* Theorems about Command, for every set of findings and of modules, every *)
(* classifier, every set of command lines and every choice of the devices  *)
(* that fill up.                                                           *)
(***************************************************************************)
EXTENDS Command, SequenceTheorems, TLAPS

-----------------------------------------------------------------------------
\* What a collector returns is a sequence of findings.
LEMMA CollectedIsSeq == Collected \subseteq Seq(Findings)
  BY MaxFindingsAssumption DEF Collected

\* Judging keeps the length and gives every finding a posture.
LEMMA JudgedType ==
  ASSUME NEW fs \in Seq(Findings)
  PROVE  /\ [i \in DOMAIN fs |-> [what |-> fs[i], posture |-> Verdict[fs[i]]]] \in Seq(Asset)
         /\ Judged(fs) \in Seq(Asset)
<1>1. DOMAIN fs = 1..Len(fs) /\ Len(fs) \in Nat
  OBVIOUS
<1>2. ASSUME NEW i \in 1..Len(fs)
      PROVE  [what |-> fs[i], posture |-> Verdict[fs[i]]] \in Asset
  BY <1>1, VerdictAssumption DEF Asset
<1> QED
  BY <1>1, <1>2 DEF Judged

\* The fixed chunks are chunks.
LEMMA PlainType ==
  ASSUME NEW kind \in ChunkKinds
  PROVE  Plain(kind) \in Chunk
  BY DEF Plain, Chunk

\* Emit leaves the sinks' types as they are.
LEMMA EmitType ==
  ASSUME NEW sink \in Sinks, NEW chunk \in Chunk,
         out \in [Sinks -> Seq(Chunk)], torn \subseteq Sinks,
         Emit(sink, chunk)
  PROVE  out' \in [Sinks -> Seq(Chunk)] /\ torn' \subseteq Sinks
  BY DEF Emit

LEMMA FailType ==
  ASSUME TypeOK, Fail
  PROVE  TypeOK'
<1>1. Plain("error") \in Chunk /\ "stderr" \in Sinks
  BY PlainType DEF ChunkKinds, Sinks
<1>2. out' \in [Sinks -> Seq(Chunk)] /\ torn' \subseteq Sinks
  BY <1>1, EmitType DEF TypeOK, Fail
<1> QED
  BY <1>2 DEF TypeOK, Fail

LEMMA FailTornType ==
  ASSUME TypeOK, NEW sink \in Sinks, FailTorn(sink)
  PROVE  TypeOK'
<1>1. Plain("error") \in Chunk /\ "stderr" \in Sinks
  BY PlainType DEF ChunkKinds, Sinks
<1>2. out' \in [Sinks -> Seq(Chunk)] /\ torn' \subseteq Sinks
  BY <1>1 DEF TypeOK, FailTorn
<1> QED
  BY <1>2 DEF TypeOK, FailTorn

-----------------------------------------------------------------------------
LEMMA InitType == Init => TypeOK
<1> SUFFICES ASSUME Init PROVE TypeOK
  OBVIOUS
<1>1. out \in [Sinks -> Seq(Chunk)]
  BY PlainType DEF Init, ChunkKinds
<1>2. collected \in CollectedType /\ found \in Seq(Findings) /\ assets \in Seq(Asset)
  BY DEF Init, CollectedType
<1> QED
  BY <1>1, <1>2 DEF Init, TypeOK, Stages

\* No action takes the run outside its types.
LEMMA NextType == TypeOK /\ [Next]_vars => TypeOK'
<1> SUFFICES ASSUME TypeOK, [Next]_vars PROVE TypeOK'
  OBVIOUS
<1> USE CollectedIsSeq
<1>1. CASE ShowUsage
  <2>1. Plain("usage") \in Chunk /\ "stdout" \in Sinks
    BY PlainType DEF ChunkKinds, Sinks
  <2> QED
    BY <1>1, <2>1, EmitType DEF TypeOK, ShowUsage
<1>2. CASE \/ RejectLine \/ ScanDirFails \/ ScanDepsFails \/ OpenFileFails
           \/ EndpointRefuses \/ Deadline
  BY <1>2, FailType
     DEF RejectLine, ScanDirFails, ScanDepsFails, OpenFileFails, EndpointRefuses, Deadline
<1>3. CASE AcceptLine
  BY <1>3 DEF TypeOK, AcceptLine, FirstStage, Stages
<1>4. CASE ScanDir
  <2>1. PICK fs \in Collected : /\ collected' = [collected EXCEPT !.source = fs]
                               /\ found' = fs
    BY <1>4 DEF ScanDir
  <2>2. found' \in Seq(Findings) /\ collected' \in CollectedType
    BY <2>1 DEF TypeOK, CollectedType
  <2>3. pc' \in Stages
    BY <1>4 DEF ScanDir, AfterDir, AfterDeps, Stages
  <2> QED
    BY <1>4, <2>2, <2>3 DEF TypeOK, ScanDir, CollectedType
<1>5. CASE ScanDeps
  <2>1. PICK missing \in SUBSET Modules, fs \in Collected :
          /\ collected' = [collected EXCEPT !.modules = fs]
          /\ found' = found \o fs
          /\ read' = Modules \ missing
          /\ unread' = missing
    BY <1>5 DEF ScanDeps
  <2>2. fs \in Seq(Findings) /\ found \in Seq(Findings) /\ collected \in CollectedType
    BY DEF TypeOK
  <2>4. found' \in Seq(Findings)
    BY <2>1, <2>2
  <2>5. collected' \in CollectedType
    BY <2>1, <2>2 DEF CollectedType
  <2>3. pc' \in Stages /\ read' \subseteq Modules /\ unread' \subseteq Modules
    BY <1>5, <2>1 DEF ScanDeps, AfterDeps, Stages
  <2> QED
    BY <1>5, <2>4, <2>5, <2>3 DEF TypeOK, ScanDeps
<1>6. CASE EndpointAnswers
  <2>1. PICK fs \in Collected : /\ collected' = [collected EXCEPT !.endpoint = fs]
                               /\ found' = found \o fs
    BY <1>6 DEF EndpointAnswers
  <2>2. fs \in Seq(Findings) /\ found \in Seq(Findings) /\ collected \in CollectedType
    BY DEF TypeOK
  <2>3. found' \in Seq(Findings)
    BY <2>1, <2>2
  <2>4. collected' \in CollectedType
    BY <2>1, <2>2 DEF CollectedType
  <2> QED
    BY <1>6, <2>3, <2>4 DEF TypeOK, EndpointAnswers, Stages
<1>7. CASE Judge
  BY <1>7, JudgedType DEF TypeOK, Judge, Stages
<1>8. CASE PrintRules
  <2>1. Plain("rules") \in Chunk /\ "stdout" \in Sinks
    BY PlainType DEF ChunkKinds, Sinks
  <2> QED
    BY <1>8, <2>1, EmitType DEF TypeOK, PrintRules
<1>9. CASE PrintTable \/ WriteDocument \/ WriteFile
  <2>1. Listing("table") \in Chunk /\ Listing("document") \in Chunk
    BY DEF Listing, Chunk, ChunkKinds, TypeOK
  <2>2. AfterWrite(line) \in Stages
    BY DEF AfterWrite, Stages
  <2>3. out' \in [Sinks -> Seq(Chunk)] /\ torn' \subseteq Sinks
    BY <1>9, <2>1, EmitType DEF TypeOK, PrintTable, WriteDocument, WriteFile, Sinks
  <2> QED
    BY <1>9, <2>2, <2>3 DEF TypeOK, PrintTable, WriteDocument, WriteFile
<1>10. CASE StdoutWriteFails \/ WriteFileFails
  BY <1>10, FailTornType DEF StdoutWriteFails, WriteFileFails, Sinks
<1>11. CASE OpenFile
  <2>1. << >> \in Seq(Chunk)
    OBVIOUS
  <2>2. out' \in [Sinks -> Seq(Chunk)]
    BY <1>11, <2>1 DEF TypeOK, OpenFile
  <2> QED
    BY <1>11, <2>2 DEF TypeOK, OpenFile, Stages
<1>12. CASE reportHandshake
  <2>1. Plain("handshake") \in Chunk /\ "stdout" \in Sinks
    BY PlainType DEF ChunkKinds, Sinks
  <2>2. out' \in [Sinks -> Seq(Chunk)] /\ torn' \subseteq Sinks
    BY <1>12, <2>1, EmitType DEF TypeOK, reportHandshake
  <2> QED
    BY <1>12, <2>2 DEF TypeOK, reportHandshake, Stages
<1>13. CASE reportUnread
  <2>1. UnreadNote \in Chunk /\ NoteSink(line) \in Sinks
    BY DEF UnreadNote, Chunk, ChunkKinds, TypeOK, NoteSink, Sinks
  <2>2. out' \in [Sinks -> Seq(Chunk)] /\ torn' \subseteq Sinks
    BY <1>13, <2>1, EmitType DEF TypeOK, reportUnread
  <2> QED
    BY <1>13, <2>2 DEF TypeOK, reportUnread, Stages
<1>14. CASE GatePasses
  BY <1>14 DEF TypeOK, GatePasses
<1>15. CASE GateTrips
  <2>1. Plain("verdict") \in Chunk /\ NoteSink(line) \in Sinks
    BY PlainType DEF ChunkKinds, NoteSink, Sinks
  <2> QED
    BY <1>15, <2>1, EmitType DEF TypeOK, GateTrips
<1>16. CASE DeviceFills
  BY <1>16 DEF TypeOK, DeviceFills
<1>17. CASE Kill
  BY <1>17 DEF TypeOK, Kill
<1>18. CASE UNCHANGED vars
  BY <1>18 DEF TypeOK, vars
<1> QED
  BY <1>1, <1>2, <1>3, <1>4, <1>5, <1>6, <1>7, <1>8, <1>9, <1>10, <1>11,
     <1>12, <1>13, <1>14, <1>15, <1>16, <1>17, <1>18 DEF Next, Step, Ended

\* Every variable keeps its type, whatever the collectors return and
\* whatever becomes of the devices.
THEOREM TypeCorrect == Spec => []TypeOK
  BY InitType, NextType, PTL DEF Spec

-----------------------------------------------------------------------------
\* What an action does to the sinks.

\* Appending a chunk adds it to those of its sink.
LEMMA AppendChunks ==
  ASSUME NEW s \in Seq(Chunk), NEW e \in Chunk
  PROVE  /\ {Append(s, e)[i] : i \in DOMAIN Append(s, e)}
              = {s[i] : i \in DOMAIN s} \cup {e}
         /\ Len(Append(s, e)) = Len(s) + 1
<1>1. /\ DOMAIN Append(s, e) = 1..(Len(s) + 1)
      /\ DOMAIN s = 1..Len(s)
      /\ Len(s) \in Nat
      /\ \A i \in 1..Len(s) : Append(s, e)[i] = s[i]
      /\ Append(s, e)[Len(s) + 1] = e
      /\ Len(Append(s, e)) = Len(s) + 1
  OBVIOUS
<1>2. 1..(Len(s) + 1) = 1..Len(s) \cup {Len(s) + 1}
  BY <1>1
<1> QED
  BY <1>1, <1>2

LEMMA QuietChunks ==
  ASSUME out' = out
  PROVE  (\A s \in Sinks : ChunksIn(s)' = ChunksIn(s)) /\ Listings' = Listings
  BY DEF ChunksIn, Listings

LEMMA EmitChunks ==
  ASSUME TypeOK, NEW sink \in Sinks, NEW chunk \in Chunk, Emit(sink, chunk)
  PROVE  /\ \A s \in Sinks \ {sink} :
              out'[s] = out[s] /\ ChunksIn(s)' = ChunksIn(s)
         /\ sink \in full => /\ torn' = torn \cup {sink}
                             /\ out'[sink] = out[sink]
                             /\ ChunksIn(sink)' = ChunksIn(sink)
         /\ sink \notin full => /\ torn' = torn
                                /\ ChunksIn(sink)' = ChunksIn(sink) \cup {chunk}
                                /\ Len(out'[sink]) = Len(out[sink]) + 1
         /\ torn \subseteq torn'
<1>1. CASE sink \in full
  BY <1>1 DEF Emit, ChunksIn
<1>2. CASE sink \notin full
  <2>1. out[sink] \in Seq(Chunk) /\ out'[sink] = Append(out[sink], chunk)
    BY <1>2 DEF Emit, TypeOK
  <2>2. \A s \in Sinks \ {sink} : out'[s] = out[s]
    BY <1>2 DEF Emit, TypeOK
  <2>3. /\ ChunksIn(sink)' = ChunksIn(sink) \cup {chunk}
        /\ Len(out'[sink]) = Len(out[sink]) + 1
    BY <2>1, AppendChunks DEF ChunksIn
  <2> QED
    BY <1>2, <2>2, <2>3 DEF Emit, ChunksIn
<1> QED
  BY <1>1, <1>2

\* A failing run adds at most an error note, and that on stderr.
LEMMA FailChunks ==
  ASSUME TypeOK, NEW sink \in Sinks, Fail \/ FailTorn(sink)
  PROVE  /\ out'["stdout"] = out["stdout"] /\ out'["file"] = out["file"]
         /\ ChunksIn("stdout")' = ChunksIn("stdout")
         /\ ChunksIn("file")' = ChunksIn("file")
         /\ Listings' = Listings
         /\ \/ ChunksIn("stderr")' = ChunksIn("stderr") /\ "stderr" \in torn'
            \/ ChunksIn("stderr")' = ChunksIn("stderr") \cup {Plain("error")}
         /\ torn \subseteq torn'
         /\ FailTorn(sink) => sink \in torn'
<1>1. Plain("error") \in Chunk /\ "stderr" \in Sinks
  BY PlainType DEF ChunkKinds, Sinks
<1>2. CASE Fail
  <2>1. Emit("stderr", Plain("error")) /\ "stdout" \in Sinks \ {"stderr"}
        /\ "file" \in Sinks \ {"stderr"}
    BY <1>2 DEF Fail, Sinks
  <2>2. ~FailTorn(sink) \/ sink \in torn'
    BY DEF FailTorn
  <2> QED
    BY <1>1, <2>1, <2>2, EmitChunks DEF Listings
<1>3. CASE FailTorn(sink)
  <2>1. out'["stdout"] = out["stdout"] /\ out'["file"] = out["file"]
    BY <1>3 DEF FailTorn, TypeOK, Sinks
  <2>2. "stderr" \in full => out' = out /\ "stderr" \in torn'
    BY <1>3 DEF FailTorn
  <2>3. ASSUME "stderr" \notin full
        PROVE  ChunksIn("stderr")' = ChunksIn("stderr") \cup {Plain("error")}
    <3>1. /\ out["stderr"] \in Seq(Chunk)
          /\ out'["stderr"] = Append(out["stderr"], Plain("error"))
      BY <1>3, <2>3 DEF FailTorn, TypeOK, Sinks
    <3> QED
      BY <1>1, <3>1, AppendChunks DEF ChunksIn
  <2> QED
    BY <1>3, <2>1, <2>2, <2>3 DEF FailTorn, ChunksIn, Listings
<1> QED
  BY <1>2, <1>3

-----------------------------------------------------------------------------
\* The parts of the inductive invariant, one lemma each.

\* The line is fixed, and a run leaves the start only on an accepted one.
LEMMA LineReadStep == IInv /\ [Next]_vars => LineRead' /\ line' = line
<1> SUFFICES ASSUME IInv, [Next]_vars PROVE LineRead' /\ line' = line
  OBVIOUS
<1>1. CASE AcceptLine
  BY <1>1 DEF AcceptLine, LineRead, Accepted, FirstStage
<1>2. CASE ~AcceptLine
  <2>1. /\ line' = line
        /\ pc = "start" => pc' = "start"
        /\ line.cmd = "table" /\ pc = "write" => pc' = "write"
    BY <1>2 DEF Next, Step, Ended, vars, Running, Fail, FailTorn,
      InventoryCommands, DocumentSink,
      ShowUsage, RejectLine, ScanDir, ScanDirFails, ScanDeps, ScanDepsFails,
      EndpointAnswers, EndpointRefuses, Deadline, Judge, PrintRules, PrintTable,
      WriteDocument, StdoutWriteFails, OpenFile, OpenFileFails, WriteFile,
      WriteFileFails, reportHandshake, reportUnread, GatePasses, GateTrips,
      DeviceFills, Kill
  <2> QED
    BY <2>1 DEF IInv, LineRead, Accepted
<1> QED
  BY <1>1, <1>2

\* The steps that leave gather's state and the stage alone.
LEMMA GatheredUnchanged ==
  ASSUME Gathered,
         UNCHANGED <<line, collected, found, read, unread, assets>>,
         \/ pc' = pc
         \/ pc \notin Gathering /\ pc' \notin Gathering
  PROVE  Gathered'
  BY DEF Gathered, Gathering, TakesInventory, Judged

\* Each collector adds its findings at the end, in gather's order, and the
\* classifier is applied to all of them.
LEMMA GatheredStep == IInv /\ [Next]_vars => Gathered'
<1> SUFFICES ASSUME IInv, [Next]_vars PROVE Gathered'
  OBVIOUS
<1> USE DEF IInv
<1>0. TypeOK /\ Gathered /\ LineRead /\ line' = line
  BY LineReadStep
<1>1. CASE AcceptLine
  <2>1. pc = "start" /\ Accepted(line) /\ pc' = FirstStage(line)
        /\ UNCHANGED <<line, collected, found, read, unread, assets>>
    BY <1>1 DEF AcceptLine, Running
  <2>2. /\ pc' \in {"write", "probe", "dir"}
        /\ pc' = "write" => line.cmd = "table"
        /\ pc' = "probe" => line.cmd = "probe"
    BY <2>1 DEF FirstStage
  <2>3. line.cmd \in {"table", "probe"} => "deps" \notin line.flags
    BY <2>1 DEF Accepted, FlagsOf
  <2> QED
    BY <1>0, <2>1, <2>2, <2>3
       DEF Gathered, Gathering, TakesInventory, InventoryCommands
<1>2. CASE ScanDir
  <2>1. PICK fs \in Collected :
          collected' = [collected EXCEPT !.source = fs] /\ found' = fs
    BY <1>2 DEF ScanDir
  <2>2. fs \in Seq(Findings) /\ collected \in CollectedType
    BY <1>0, CollectedIsSeq DEF TypeOK
  <2>3. collected.modules = << >> /\ collected.endpoint = << >>
    BY <1>0, <1>2 DEF Gathered, ScanDir, Running
  <2>4. /\ collected'.source = fs
        /\ collected'.modules = << >>
        /\ collected'.endpoint = << >>
    BY <2>1, <2>2, <2>3 DEF CollectedType
  <2>5. found' = collected'.source \o collected'.modules \o collected'.endpoint
    BY <2>1, <2>2, <2>4, ConcatEmptySeq
  <2>6. /\ pc' \in {"deps", "probe", "judge"}
        /\ pc' # "deps" => "deps" \notin line.flags
    BY <1>2 DEF ScanDir, AfterDir, AfterDeps
  <2> QED
    BY <1>0, <2>4, <2>5, <2>6 DEF Gathered, Gathering
<1>3. CASE ScanDeps
  <2>1. PICK missing \in SUBSET Modules, fs \in Collected :
          /\ collected' = [collected EXCEPT !.modules = fs]
          /\ found' = found \o fs
          /\ read' = Modules \ missing
          /\ unread' = missing
    BY <1>3 DEF ScanDeps
  <2>2. /\ fs \in Seq(Findings) /\ collected \in CollectedType
        /\ collected.source \in Seq(Findings)
    BY <1>0, CollectedIsSeq DEF TypeOK, CollectedType
  <2>3. /\ collected.modules = << >> /\ collected.endpoint = << >>
        /\ found = collected.source \o collected.modules \o collected.endpoint
    BY <1>0, <1>3 DEF Gathered, ScanDeps, Running
  <2>4. /\ collected'.source = collected.source
        /\ collected'.modules = fs
        /\ collected'.endpoint = << >>
    BY <2>1, <2>2, <2>3 DEF CollectedType
  <2>5. found = collected.source
    BY <2>2, <2>3, ConcatEmptySeq
  <2>8. collected.source \o fs \in Seq(Findings)
    BY <2>2
  <2>6. found' = collected'.source \o collected'.modules \o collected'.endpoint
    BY <2>1, <2>2, <2>4, <2>5, <2>8, ConcatEmptySeq
  <2>7. pc' \in {"probe", "judge"} /\ read' \cup unread' = Modules
    BY <1>3, <2>1 DEF ScanDeps, AfterDeps
  <2> QED
    BY <1>0, <2>4, <2>6, <2>7 DEF Gathered, Gathering
<1>4. CASE EndpointAnswers
  <2>1. PICK fs \in Collected :
          collected' = [collected EXCEPT !.endpoint = fs] /\ found' = found \o fs
    BY <1>4 DEF EndpointAnswers
  <2>2. /\ fs \in Seq(Findings) /\ collected \in CollectedType
        /\ collected.source \in Seq(Findings) /\ collected.modules \in Seq(Findings)
    BY <1>0, CollectedIsSeq DEF TypeOK, CollectedType
  <2>3. /\ collected.endpoint = << >>
        /\ found = collected.source \o collected.modules \o collected.endpoint
        /\ pc = "probe"
    BY <1>0, <1>4 DEF Gathered, EndpointAnswers, Running
  <2>4. /\ collected'.source = collected.source
        /\ collected'.modules = collected.modules
        /\ collected'.endpoint = fs
    BY <2>1, <2>2 DEF CollectedType
  <2>5. found = collected.source \o collected.modules
    BY <2>2, <2>3
  <2>6. found' = collected'.source \o collected'.modules \o collected'.endpoint
    BY <2>1, <2>4, <2>5
  <2>7. pc' = "judge" /\ UNCHANGED <<read, unread>>
    BY <1>4 DEF EndpointAnswers
  <2> QED
    BY <1>0, <2>3, <2>6, <2>7 DEF Gathered, Gathering
<1>5. CASE Judge
  <2>1. assets' = Judged(found) /\ pc = "judge" /\ pc' = "write"
        /\ UNCHANGED <<line, collected, found, read, unread>>
    BY <1>5 DEF Judge, Judged, Running
  <2> QED
    BY <1>0, <2>1 DEF Gathered, Gathering, Judged
<1>6. CASE ~(AcceptLine \/ ScanDir \/ ScanDeps \/ EndpointAnswers \/ Judge)
  <2>1. /\ UNCHANGED <<line, collected, found, read, unread, assets>>
        /\ \/ pc' = pc
           \/ pc \notin Gathering /\ pc' \notin Gathering
    BY <1>6 DEF Next, Step, Ended, vars, Running, Fail, FailTorn, Gathering,
      AfterWrite, ShowUsage, RejectLine, ScanDirFails, ScanDepsFails,
      EndpointRefuses, Deadline, PrintRules, PrintTable,
      WriteDocument, StdoutWriteFails, OpenFile, OpenFileFails, WriteFile,
      WriteFileFails, reportHandshake, reportUnread, GatePasses, GateTrips,
      DeviceFills, Kill
  <2> QED
    BY <1>0, <2>1, GatheredUnchanged
<1> QED
  BY <1>1, <1>2, <1>3, <1>4, <1>5, <1>6

\* The steps, by what they mean to a reader of the output.
Failing ==
  \/ RejectLine \/ ScanDirFails \/ ScanDepsFails \/ EndpointRefuses \/ Deadline
  \/ StdoutWriteFails \/ OpenFileFails \/ WriteFileFails

Quiet == AcceptLine \/ ScanDir \/ ScanDeps \/ EndpointAnswers \/ Judge

Outside == DeviceFills \/ Kill \/ UNCHANGED vars

Printing == PrintTable \/ WriteDocument \/ WriteFile

LEMMA StepKinds ==
  ASSUME [Next]_vars
  PROVE  \/ Failing \/ Quiet \/ Outside \/ Printing
         \/ ShowUsage \/ PrintRules \/ OpenFile
         \/ reportHandshake \/ reportUnread \/ GatePasses \/ GateTrips
  BY DEF Next, Step, Ended, Failing, Quiet, Outside, Printing

LEMMA FailingStep ==
  ASSUME TypeOK, Failing
  PROVE  /\ exit = "running" /\ exit' = "failed"
         /\ pc \in Unwritten
         /\ UNCHANGED <<line, pc, read, unread, assets>>
         /\ out'["stdout"] = out["stdout"] /\ out'["file"] = out["file"]
         /\ ChunksIn("stdout")' = ChunksIn("stdout")
         /\ ChunksIn("file")' = ChunksIn("file")
         /\ Listings' = Listings
         /\ \/ ChunksIn("stderr")' = ChunksIn("stderr") /\ "stderr" \in torn'
            \/ ChunksIn("stderr")' = ChunksIn("stderr") \cup {Plain("error")}
         /\ torn \subseteq torn'
         /\ pc = "fill" => "file" \in torn'
<1>1. CASE Failing /\ Fail /\ pc # "fill"
  <2>1. /\ exit = "running" /\ pc \in Unwritten
        /\ exit' = "failed" /\ UNCHANGED <<line, pc, read, unread, assets>>
    BY <1>1 DEF Failing, Fail, RejectLine, ScanDirFails, ScanDepsFails,
      EndpointRefuses, Deadline, StdoutWriteFails, OpenFileFails, WriteFileFails,
      Running, Unwritten, Gathering
  <2> QED
    BY <1>1, <2>1, FailChunks DEF Sinks
<1>2. CASE StdoutWriteFails
  <2>1. FailTorn("stdout") /\ Running("write")
    BY <1>2 DEF StdoutWriteFails
  <2> QED
    BY <2>1, FailChunks DEF FailTorn, Running, Unwritten, Sinks
<1>3. CASE WriteFileFails
  <2>1. FailTorn("file") /\ Running("fill")
    BY <1>3 DEF WriteFileFails
  <2> QED
    BY <2>1, FailChunks DEF FailTorn, Running, Unwritten, Sinks
<1> QED
  BY <1>1, <1>2, <1>3
     DEF Failing, RejectLine, ScanDirFails, ScanDepsFails, EndpointRefuses,
       Deadline, OpenFileFails, Running

LEMMA QuietStep ==
  ASSUME TypeOK, Quiet
  PROVE  /\ exit = "running" /\ exit' = "running"
         /\ pc \in Gathering
         /\ pc' \in Gathering \cup {"write"}
         /\ line' = line /\ out' = out /\ torn' = torn
<1>1. /\ exit = "running" /\ exit' = exit /\ line' = line
      /\ out' = out /\ torn' = torn
      /\ pc \in Gathering
  BY DEF Quiet, AcceptLine, ScanDir, ScanDeps, EndpointAnswers, Judge, Running,
    Gathering
<1>2. pc' \in Gathering \cup {"write"}
  BY DEF Quiet, AcceptLine, ScanDir, ScanDeps, EndpointAnswers, Judge,
    FirstStage, AfterDir, AfterDeps, Gathering
<1> QED
  BY <1>1, <1>2

LEMMA OutsideStep ==
  ASSUME Outside
  PROVE  /\ UNCHANGED <<line, pc, collected, found, read, unread, assets, out, torn>>
         /\ full \subseteq full'
         /\ \/ exit' = exit
            \/ exit = "running" /\ exit' = "killed"
  BY DEF Outside, DeviceFills, Kill, vars

\* Handing the inventory over: one listing, of the assets, in its sink.
LEMMA PrintingStep ==
  ASSUME TypeOK, HandedOver, Printing
  PROVE  \E kind \in {"table", "document"} :
           /\ exit = "running" /\ exit' = "running"
           /\ pc \in {"write", "fill"} /\ pc' = AfterWrite(line)
           /\ TakesInventory
           /\ UNCHANGED <<line, read, unread, assets>>
           /\ Listing(kind) \in Chunk
           /\ Emit(DocumentSink(line), Listing(kind))
           /\ kind = "table" => ~machineOutput(line)
           /\ (kind = "document" /\ DocumentSink(line) = "stdout") => machineOutput(line)
           /\ DocumentSink(line) \in Sinks \ {"stderr"}
           /\ DocumentSink(line) = "file" => "file" \notin full
           /\ full' = full
<1>1. Listing("table") \in Chunk /\ Listing("document") \in Chunk
  BY DEF Listing, Chunk, ChunkKinds, TypeOK
<1>2. DocumentSink(line) \in Sinks \ {"stderr"}
  BY DEF DocumentSink, Sinks
<1>3. CASE PrintTable
  BY <1>1, <1>2, <1>3 DEF PrintTable, Running, TakesInventory
<1>4. CASE WriteDocument
  <2>1. DocumentSink(line) = "stdout"
    BY <1>4 DEF WriteDocument, machineOutput, DocumentSink
  <2> QED
    BY <1>1, <1>2, <1>4, <2>1 DEF WriteDocument, Running, TakesInventory
<1>5. CASE WriteFile
  <2>1. DocumentSink(line) = "file" /\ TakesInventory
    BY <1>5 DEF WriteFile, Running, HandedOver, DocumentSink, TakesInventory,
      InventoryCommands
  <2> QED
    BY <1>1, <1>2, <1>5, <2>1 DEF WriteFile, Running
<1> QED
  BY <1>3, <1>4, <1>5 DEF Printing

\* The other steps that write: a chunk that is no inventory.
LEMMA NotingStep ==
  ASSUME TypeOK,
         ShowUsage \/ PrintRules \/ reportHandshake \/ reportUnread \/ GateTrips
  PROVE  \E sink \in {"stdout", "stderr"}, chunk \in Chunk :
           /\ chunk.kind \notin {"table", "document"}
           /\ Emit(sink, chunk) \/ (reportUnread /\ unread = {} /\ out' = out /\ torn' = torn)
           /\ UNCHANGED <<line, read, unread, assets, full>>
           /\ chunk.kind = "verdict" <=> GateTrips
           /\ GateTrips \/ reportUnread => sink = NoteSink(line)
           /\ reportUnread => chunk = UnreadNote
           /\ reportHandshake => sink = "stdout"
<1>1. \A kind \in ChunkKinds : Plain(kind) \in Chunk /\ Plain(kind).kind = kind
  BY PlainType DEF Plain
<1>2. UnreadNote \in Chunk /\ UnreadNote.kind = "unread"
  BY DEF UnreadNote, Chunk, ChunkKinds, TypeOK
<1>3. NoteSink(line) \in {"stdout", "stderr"}
  BY DEF NoteSink
<1>4. CASE ShowUsage
  <2>1. ~GateTrips /\ ~reportUnread /\ ~reportHandshake
    BY <1>4 DEF ShowUsage, Running, GateTrips, reportUnread, reportHandshake
  <2>2. /\ Plain("usage") \in Chunk /\ Plain("usage").kind = "usage"
        /\ Emit("stdout", Plain("usage")) /\ UNCHANGED <<line, read, unread, assets, full>>
    BY <1>1, <1>4 DEF ShowUsage, ChunkKinds
  <2> QED
    BY <2>1, <2>2
<1>5. CASE PrintRules
  <2>1. ~GateTrips /\ ~reportUnread /\ ~reportHandshake
    BY <1>5 DEF PrintRules, Running, GateTrips, reportUnread, reportHandshake
  <2>2. /\ Plain("rules") \in Chunk /\ Plain("rules").kind = "rules"
        /\ Emit("stdout", Plain("rules")) /\ UNCHANGED <<line, read, unread, assets, full>>
    BY <1>1, <1>5 DEF PrintRules, ChunkKinds
  <2> QED
    BY <2>1, <2>2
<1>6. CASE reportHandshake
  <2>1. ~GateTrips /\ ~reportUnread
    BY <1>6 DEF Running, GateTrips, reportUnread, reportHandshake
  <2>2. /\ Plain("handshake") \in Chunk /\ Plain("handshake").kind = "handshake"
        /\ Emit("stdout", Plain("handshake")) /\ UNCHANGED <<line, read, unread, assets, full>>
    BY <1>1, <1>6 DEF reportHandshake, ChunkKinds
  <2> QED
    BY <2>1, <2>2
<1>7. CASE reportUnread
  <2>1. ~GateTrips /\ ~reportHandshake
    BY <1>7 DEF Running, GateTrips, reportUnread, reportHandshake
  <2>2. UNCHANGED <<line, read, unread, assets, full>>
        /\ IF unread = {} THEN out' = out /\ torn' = torn ELSE Emit(NoteSink(line), UnreadNote)
    BY <1>7 DEF reportUnread
  <2> QED
    BY <1>2, <1>3, <1>7, <2>1, <2>2
<1>8. CASE GateTrips
  <2>1. ~reportUnread /\ ~reportHandshake
    BY <1>8 DEF Running, GateTrips, reportUnread, reportHandshake
  <2>2. /\ Plain("verdict") \in Chunk /\ Plain("verdict").kind = "verdict"
        /\ Emit(NoteSink(line), Plain("verdict")) /\ UNCHANGED <<line, read, unread, assets, full>>
    BY <1>1, <1>8 DEF GateTrips, ChunkKinds
  <2> QED
    BY <1>3, <1>8, <2>1, <2>2
<1> QED
  BY <1>4, <1>5, <1>6, <1>7, <1>8

Noting == ShowUsage \/ PrintRules \/ reportHandshake \/ reportUnread \/ GateTrips

\* A note changes no inventory and not the file.
LEMMA NotingChunks ==
  ASSUME TypeOK, Noting
  PROVE  /\ Listings' = Listings
         /\ out'["file"] = out["file"]
         /\ UNCHANGED <<line, read, unread, assets, full>>
         /\ torn \subseteq torn'
<1>1. PICK sink \in {"stdout", "stderr"}, chunk \in Chunk :
        /\ chunk.kind \notin {"table", "document"}
        /\ Emit(sink, chunk) \/ (out' = out /\ torn' = torn)
        /\ UNCHANGED <<line, read, unread, assets, full>>
  BY NotingStep DEF Noting
<1>2. CASE out' = out /\ torn' = torn
  BY <1>1, <1>2, QuietChunks
<1>3. CASE Emit(sink, chunk)
  <2>1. sink \in Sinks /\ "file" \in Sinks \ {sink}
    BY DEF Sinks
  <2>2. /\ out'["file"] = out["file"]
        /\ ChunksIn("file")' = ChunksIn("file")
        /\ torn \subseteq torn'
    BY <1>3, <2>1, EmitChunks
  <2>3. \/ ChunksIn("stdout")' = ChunksIn("stdout")
        \/ ChunksIn("stdout")' = ChunksIn("stdout") \cup {chunk}
    BY <1>3, <2>1, EmitChunks DEF Sinks
  <2> QED
    BY <1>1, <2>2, <2>3 DEF Listings
<1> QED
  BY <1>1, <1>2, <1>3

LEMMA OpenFileChunks ==
  ASSUME TypeOK, OpenFile
  PROVE  /\ exit = "running" /\ exit' = "running"
         /\ pc = "write" /\ pc' = "fill" /\ DocumentSink(line) = "file"
         /\ UNCHANGED <<line, read, unread, assets, torn>>
         /\ out'["stdout"] = out["stdout"] /\ out'["file"] = << >>
         /\ ChunksIn("stdout")' = ChunksIn("stdout")
         /\ ChunksIn("stderr")' = ChunksIn("stderr")
         /\ ChunksIn("file")' = {}
         /\ Listings' \subseteq Listings
<1>1. /\ out'["stdout"] = out["stdout"]
      /\ out'["stderr"] = out["stderr"]
      /\ out'["file"] = << >>
  BY DEF OpenFile, TypeOK, Sinks
<1>2. /\ ChunksIn("stdout")' = ChunksIn("stdout")
      /\ ChunksIn("stderr")' = ChunksIn("stderr")
      /\ ChunksIn("file")' = {}
  BY <1>1 DEF ChunksIn
<1> QED
  BY <1>1, <1>2 DEF OpenFile, Running, Listings

\* What a reader holds is the judged inventory, and the earlier document is
\* replaced by it alone.
LEMMA HandedOverStep == IInv /\ [Next]_vars => HandedOver'
<1> SUFFICES ASSUME IInv, [Next]_vars PROVE HandedOver'
  OBVIOUS
<1> USE DEF IInv
<1>0. TypeOK /\ HandedOver /\ Ending
  OBVIOUS
<1>1. CASE Failing
  BY <1>0, <1>1, FailingStep DEF HandedOver, DocumentSink, TakesInventory
<1>2. CASE Quiet
  <2>1. Listings' = {} /\ out' = out
    BY <1>0, <1>2, QuietStep, QuietChunks DEF HandedOver, Unwritten
  <2> QED
    BY <1>0, <1>2, <2>1, QuietStep DEF HandedOver, Unwritten, Gathering
<1>3. CASE Outside \/ GatePasses
  <2>1. /\ UNCHANGED <<line, pc, assets, out, torn>>
        /\ full \subseteq full'
        /\ exit' = "failed" => exit = "failed"
    <3>1. CASE Outside
      BY <3>1, OutsideStep
    <3>2. CASE GatePasses
      BY <3>2 DEF GatePasses
    <3> QED
      BY <1>3, <3>1, <3>2
  <2>2. Listings' = Listings
    BY <2>1, QuietChunks
  <2> QED
    BY <1>0, <2>1, <2>2 DEF HandedOver, DocumentSink, TakesInventory
<1>4. CASE Printing
  <2>1. PICK kind \in {"table", "document"} :
          /\ exit' = "running"
          /\ pc \in {"write", "fill"} /\ pc' = AfterWrite(line)
          /\ UNCHANGED <<line, assets>>
          /\ Listing(kind) \in Chunk
          /\ Emit(DocumentSink(line), Listing(kind))
          /\ DocumentSink(line) \in Sinks \ {"stderr"}
          /\ TakesInventory
          /\ DocumentSink(line) = "file" => "file" \notin full
          /\ full' = full
    BY <1>0, <1>4, PrintingStep
  <2>2. pc' \notin Unwritten /\ pc' \notin Gathering \cup {"write"} /\ pc' # "fill"
    BY <2>1 DEF AfterWrite, Unwritten, Gathering
  <2>3. Listings = {}
    BY <1>0, <2>1 DEF HandedOver, Unwritten
  <2>4. Listing(kind).assets = assets /\ Listing(kind).kind = kind
    BY DEF Listing
  <2>5. CASE DocumentSink(line) \in full
    <3>3. "stdout" \in full'
      BY <2>1, <2>5 DEF Sinks
    <3>1. /\ DocumentSink(line) \in torn'
          /\ \A s \in Sinks : ChunksIn(s)' = ChunksIn(s)
      BY <1>0, <2>1, <2>5, EmitChunks
    <3>2. Listings' = {}
      BY <2>3, <3>1 DEF Listings, Sinks
    <3> QED
      BY <2>1, <2>2, <3>1, <3>2, <3>3 DEF HandedOver, TakesInventory
  <2>6. CASE DocumentSink(line) \notin full
    <3>1. /\ ChunksIn(DocumentSink(line))' = ChunksIn(DocumentSink(line)) \cup {Listing(kind)}
          /\ \A s \in Sinks \ {DocumentSink(line)} : ChunksIn(s)' = ChunksIn(s)
      BY <1>0, <2>1, <2>6, EmitChunks
    <3>2. Listings' = {Listing(kind)}
      BY <2>1, <2>3, <2>4, <3>1 DEF Listings, Sinks
    <3> QED
      BY <2>1, <2>2, <2>4, <3>2 DEF HandedOver, TakesInventory
  <2> QED
    BY <2>5, <2>6
<1>5. CASE Noting
  <2>1. /\ \/ pc' = pc
           \/ pc \in {"handshake", "unread"} /\ pc' = "gate"
        /\ exit' # "failed"
    BY <1>5 DEF Noting, ShowUsage, PrintRules, reportHandshake, reportUnread,
      GateTrips, Running
  <2> QED
    BY <1>0, <1>5, <2>1, NotingChunks
       DEF HandedOver, DocumentSink, TakesInventory, Unwritten, Gathering
<1>6. CASE OpenFile
  <2>1. Listings' = {}
    BY <1>0, <1>6, OpenFileChunks DEF HandedOver, Unwritten
  <2> QED
    BY <1>0, <1>6, <2>1, OpenFileChunks DEF HandedOver, Unwritten, Gathering
<1> QED
  BY <1>1, <1>2, <1>3, <1>4, <1>5, <1>6, StepKinds DEF Noting

\* How a run ends, in which stage, and what it says then.
LEMMA EndingStep == IInv /\ [Next]_vars => Ending'
<1> SUFFICES ASSUME IInv, [Next]_vars PROVE Ending'
  OBVIOUS
<1> USE DEF IInv
<1>0. TypeOK /\ HandedOver /\ Ending /\ LineRead
  OBVIOUS
<1>1. CASE Failing
  <2>1. /\ exit = "running" /\ exit' = "failed"
        /\ pc' \in Unwritten
        /\ \A s \in {"stdout", "file"} : ChunksIn(s)' = ChunksIn(s)
        /\ \/ ChunksIn("stderr")' = ChunksIn("stderr") /\ "stderr" \in torn'
           \/ ChunksIn("stderr")' = ChunksIn("stderr") \cup {Plain("error")}
    BY <1>0, <1>1, FailingStep
  <2>2. Plain("error").kind = "error"
    BY DEF Plain
  <2>3. \A s \in Sinks : \A chunk \in ChunksIn(s)' : chunk.kind # "verdict"
    BY <1>0, <2>1, <2>2 DEF Ending, Sinks
  <2> QED
    BY <2>1, <2>2, <2>3 DEF Ending, Answered
<1>2. CASE Quiet
  <2>1. exit' = "running" /\ exit = "running" /\ out' = out
    BY <1>0, <1>2, QuietStep
  <2>2. \A s \in Sinks : ChunksIn(s)' = ChunksIn(s)
    BY <2>1, QuietChunks
  <2> QED
    BY <1>0, <2>1, <2>2 DEF Ending, Answered
<1>3. CASE Outside
  <2>1. /\ UNCHANGED <<line, pc, assets, out, torn>>
        /\ exit' = exit \/ (exit = "running" /\ exit' = "killed")
    BY <1>3, OutsideStep
  <2>2. \A s \in Sinks : ChunksIn(s)' = ChunksIn(s)
    BY <2>1, QuietChunks
  <2>3. CASE exit' = exit
    BY <1>0, <2>1, <2>2, <2>3
       DEF Ending, Answered, TakesInventory, threshold, NoteSink, Sinks
  <2>4. CASE exit = "running" /\ exit' = "killed"
    BY <1>0, <2>1, <2>2, <2>4 DEF Ending, Answered
  <2> QED
    BY <2>1, <2>3, <2>4
<1>4. CASE GatePasses
  <2>1. /\ UNCHANGED <<line, pc, assets, out, torn>>
        /\ pc = "gate" /\ exit = "running" /\ exit' = "clean"
        /\ tripped(assets, threshold) = {}
    BY <1>4 DEF GatePasses, Running
  <2>2. \A s \in Sinks : ChunksIn(s)' = ChunksIn(s)
    BY <2>1, QuietChunks
  <2> QED
    BY <1>0, <2>1, <2>2 DEF Ending, Answered, threshold
<1>5. CASE Printing
  <2>1. PICK kind \in {"table", "document"} :
          /\ exit = "running" /\ exit' = "running"
          /\ Listing(kind) \in Chunk
          /\ Emit(DocumentSink(line), Listing(kind))
          /\ DocumentSink(line) \in Sinks
    BY <1>0, <1>5, PrintingStep
  <2>2. \A s \in Sinks : ChunksIn(s)' \subseteq ChunksIn(s) \cup {Listing(kind)}
    BY <1>0, <2>1, EmitChunks
  <2>3. Listing(kind).kind # "verdict"
    BY DEF Listing
  <2> QED
    BY <1>0, <2>1, <2>2, <2>3 DEF Ending, Answered
<1>6. CASE Noting
  <2>1. PICK sink \in {"stdout", "stderr"}, chunk \in Chunk :
          /\ Emit(sink, chunk) \/ (reportUnread /\ out' = out /\ torn' = torn)
          /\ UNCHANGED <<line, assets>>
          /\ chunk.kind = "verdict" <=> GateTrips
          /\ GateTrips => sink = NoteSink(line)
    BY <1>0, <1>6, NotingStep DEF Noting
  <2>2. exit = "running"
    BY <1>6 DEF Noting, ShowUsage, PrintRules, reportHandshake, reportUnread,
      GateTrips, Running
  <2>3. \A s \in Sinks : ChunksIn(s)' \subseteq ChunksIn(s) \cup {chunk}
    <3>1. CASE Emit(sink, chunk)
      BY <1>0, <3>1, EmitChunks DEF Sinks
    <3>2. CASE out' = out
      BY <3>2, QuietChunks
    <3> QED
      BY <2>1, <3>1, <3>2
  <2>4. CASE ~GateTrips
    <3>1. \A s \in Sinks : \A c \in ChunksIn(s)' : c.kind # "verdict"
      BY <1>0, <2>1, <2>2, <2>3, <2>4 DEF Ending
    <3>2. \/ exit' = "running"
          \/ exit' = "clean" /\ ~TakesInventory'
      BY <1>6, <2>1, <2>4 DEF Noting, ShowUsage, PrintRules, reportHandshake,
        reportUnread, Running, TakesInventory, InventoryCommands, HelpWords
    <3> QED
      BY <3>1, <3>2 DEF Ending, Answered
  <2>5. CASE GateTrips
    <3>1. /\ exit' = "tripped" /\ pc' = "gate" /\ pc = "gate"
          /\ tripped(assets, threshold) # {}
      BY <2>5 DEF GateTrips, Running
    <3>2. TakesInventory'
      BY <1>0, <2>1, <3>1 DEF HandedOver, TakesInventory, Unwritten, Gathering
    <3>3. Emit(sink, chunk) /\ sink = NoteSink(line) /\ chunk.kind = "verdict"
      BY <2>1, <2>5 DEF GateTrips, reportUnread, Running
    <3>4. sink \in Sinks
      BY DEF Sinks
    <3>5. sink \in torn' \/ chunk \in ChunksIn(sink)'
      BY <1>0, <3>3, <3>4, EmitChunks
    <3>6. NoteSink(line)' = sink
      BY <2>1, <3>3 DEF NoteSink, machineOutput
    <3>7. \/ \E c \in ChunksIn("stdout")' \cup ChunksIn("stderr")' : c.kind = "verdict"
          \/ NoteSink(line)' \in torn'
      BY <3>3, <3>5, <3>6
    <3>8. tripped(assets, threshold)' # {}
      BY <2>1, <3>1 DEF threshold
    <3> QED
      BY <3>1, <3>2, <3>7, <3>8 DEF Ending, Answered
  <2> QED
    BY <2>4, <2>5
<1>7. CASE OpenFile
  <2>1. /\ exit = "running" /\ exit' = "running"
        /\ \A s \in Sinks : ChunksIn(s)' \subseteq ChunksIn(s)
    BY <1>0, <1>7, OpenFileChunks DEF Sinks
  <2> QED
    BY <1>0, <2>1 DEF Ending, Answered
<1> QED
  BY <1>1, <1>2, <1>3, <1>4, <1>5, <1>6, <1>7, StepKinds DEF Noting

\* A document keeps stdout to itself, and the unread modules are named.
LEMMA StreamsStep == IInv /\ [Next]_vars => Streams'
<1> SUFFICES ASSUME IInv, [Next]_vars PROVE Streams'
  OBVIOUS
<1> USE DEF IInv
<1>0. TypeOK /\ HandedOver /\ LineRead /\ Streams
  OBVIOUS
<1>9. out["stdout"] \in Seq(Chunk) /\ Len(out["stdout"]) \in Nat
  BY <1>0 DEF TypeOK, Sinks
<1>1. CASE Failing
  <2>1. /\ pc \in Unwritten
        /\ UNCHANGED <<line, pc>>
        /\ out'["stdout"] = out["stdout"]
        /\ ChunksIn("stdout")' = ChunksIn("stdout")
    BY <1>0, <1>1, FailingStep
  <2> QED
    BY <1>0, <2>1 DEF Streams, TakesInventory, Unwritten, Gathering
<1>2. CASE Quiet
  <2>1. /\ pc \in Gathering /\ pc' \in Gathering \cup {"write"}
        /\ line' = line /\ out' = out
    BY <1>0, <1>2, QuietStep
  <2> QED
    BY <1>0, <2>1, QuietChunks DEF Streams, TakesInventory, Unwritten, Gathering, Sinks
<1>3. CASE Outside \/ GatePasses
  <2>1. UNCHANGED <<line, pc, unread, out, torn>>
    BY <1>3, OutsideStep DEF GatePasses
  <2>2. \A s \in Sinks : ChunksIn(s)' = ChunksIn(s)
    BY <2>1, QuietChunks
  <2>3. NoteSink(line) \in Sinks /\ "stdout" \in Sinks
    BY DEF NoteSink, Sinks
  <2> QED
    BY <1>0, <2>1, <2>2, <2>3 DEF Streams, TakesInventory
<1>4. CASE Printing
  <2>1. PICK kind \in {"table", "document"} :
          /\ pc \in {"write", "fill"} /\ pc' = AfterWrite(line)
          /\ TakesInventory
          /\ line' = line
          /\ Listing(kind) \in Chunk
          /\ Emit(DocumentSink(line), Listing(kind))
          /\ kind = "table" => ~machineOutput(line)
          /\ (kind = "document" /\ DocumentSink(line) = "stdout") => machineOutput(line)
          /\ DocumentSink(line) \in Sinks
    BY <1>0, <1>4, PrintingStep
  <2>2. out["stdout"] = << >>
    BY <1>0, <2>1 DEF Streams, Unwritten
  <2>3. /\ \/ ChunksIn("stdout")' = ChunksIn("stdout")
           \/ /\ DocumentSink(line) = "stdout"
              /\ ChunksIn("stdout")' = ChunksIn("stdout") \cup {Listing(kind)}
        /\ \/ out'["stdout"] = out["stdout"]
           \/ Len(out'["stdout"]) = Len(out["stdout"]) + 1
    BY <1>0, <2>1, EmitChunks DEF Sinks
  <2>4. ChunksIn("stdout") = {}
    BY <2>2 DEF ChunksIn
  <2>10. Len(out["stdout"]) = 0
    BY <2>2
  <2>5. Len(out'["stdout"]) <= 1
    <3>1. CASE out'["stdout"] = out["stdout"]
      <4>1. Len(out'["stdout"]) = 0
        BY <2>10, <3>1
      <4> QED
        BY <4>1
    <3>2. CASE Len(out'["stdout"]) = Len(out["stdout"]) + 1
      <4>1. Len(out'["stdout"]) = 1
        BY <2>10, <3>2
      <4> QED
        BY <4>1
    <3> QED
      BY <2>3, <3>1, <3>2
  <2>6. /\ pc' \notin Unwritten
        /\ pc' = "handshake" => line.cmd = "probe" /\ "json" \notin line.flags
        /\ pc' = "gate" => line.cmd = "probe"
    BY <2>1 DEF AfterWrite, Unwritten, Gathering
  <2>7. line.cmd = "probe" => "deps" \notin line.flags
    BY <1>0, <2>1 DEF LineRead, Accepted, FlagsOf
  <2>8. Listing(kind).kind = kind
    BY DEF Listing
  <2>9. (\E chunk \in ChunksIn("stdout")' : chunk.kind = "document")
          => TakesInventory /\ machineOutput(line)
    BY <2>1, <2>3, <2>4, <2>8
  <2> QED
    BY <2>1, <2>5, <2>6, <2>7, <2>9 DEF Streams, TakesInventory
<1>5. CASE Noting
  <2>1. PICK sink \in {"stdout", "stderr"}, chunk \in Chunk :
          /\ chunk.kind \notin {"table", "document"}
          /\ Emit(sink, chunk) \/ (reportUnread /\ unread = {} /\ out' = out /\ torn' = torn)
          /\ UNCHANGED <<line, unread>>
          /\ GateTrips \/ reportUnread => sink = NoteSink(line)
          /\ reportUnread => chunk = UnreadNote
          /\ reportHandshake => sink = "stdout"
    BY <1>0, <1>5, NotingStep DEF Noting
  <2>2. \/ pc' = pc /\ pc \in {"start", "write"} /\ ~TakesInventory
        \/ pc = "handshake" /\ pc' = "gate" /\ sink = "stdout"
        \/ pc = "unread" /\ pc' = "gate" /\ reportUnread
        \/ pc = "gate" /\ pc' = "gate" /\ sink = NoteSink(line)
    BY <1>5, <2>1 DEF Noting, ShowUsage, PrintRules, reportHandshake, reportUnread,
      GateTrips, Running, TakesInventory, InventoryCommands, HelpWords
  <2>3. /\ sink \in Sinks
        /\ \A s \in Sinks : \/ ChunksIn(s)' = ChunksIn(s)
                            \/ s = sink /\ ChunksIn(s)' = ChunksIn(s) \cup {chunk}
        /\ torn \subseteq torn'
        /\ sink # "stdout" => out'["stdout"] = out["stdout"]
    <3>1. CASE Emit(sink, chunk)
      BY <1>0, <3>1, EmitChunks DEF Sinks
    <3>2. CASE out' = out /\ torn' = torn
      BY <3>2, QuietChunks DEF Sinks
    <3> QED
      BY <2>1, <3>1, <3>2
  <2>4. /\ pc' = "handshake" => pc = "handshake"
        /\ TakesInventory' => TakesInventory
        /\ pc' \in Unwritten => ~TakesInventory
    BY <2>1, <2>2 DEF TakesInventory, Unwritten, Gathering
  <2>5. ASSUME TakesInventory, machineOutput(line)
        PROVE  Len(out'["stdout"]) <= 1
    <3>1. sink # "stdout"
      BY <1>0, <2>1, <2>2, <2>5 DEF Streams, machineOutput, NoteSink
    <3> QED
      BY <1>0, <2>3, <2>5, <3>1 DEF Streams
  <2>6. (\E c \in ChunksIn("stdout")' : c.kind = "document")
          => TakesInventory /\ machineOutput(line)
    BY <1>0, <2>1, <2>3 DEF Streams, Sinks
  <2>10. PICK n \in Sinks : n = NoteSink(line)
    BY DEF NoteSink, Sinks
  <2>7. ASSUME pc' = "gate", "deps" \in line.flags
        PROVE  \/ unread = {}
               \/ \E c \in ChunksIn(n)' : c.kind = "unread" /\ c.modules = unread
               \/ n \in torn'
    <3>1. CASE pc = "gate"
      <4>1. \/ unread = {}
            \/ \E c \in ChunksIn(n) : c.kind = "unread" /\ c.modules = unread
            \/ n \in torn
        BY <1>0, <2>7, <2>10, <3>1 DEF Streams
      <4> QED
        BY <2>3, <4>1
    <3>2. CASE pc = "handshake"
      BY <1>0, <2>7, <3>2 DEF Streams, LineRead, Accepted, FlagsOf
    <3>3. CASE reportUnread /\ unread # {}
      <4>1. Emit(n, UnreadNote) /\ UnreadNote \in Chunk
        BY <2>1, <2>10, <3>3
      <4>2. UnreadNote.kind = "unread" /\ UnreadNote.modules = unread
        BY DEF UnreadNote
      <4>3. PICK note \in Chunk : note = UnreadNote
        BY <4>1
      <4>4. n \in torn' \/ note \in ChunksIn(n)'
        BY <1>0, <4>1, <4>3, EmitChunks
      <4> QED
        BY <4>2, <4>3, <4>4
    <3> QED
      BY <2>2, <2>7, <3>1, <3>2, <3>3
  <2>8. ASSUME TakesInventory, pc' \in Unwritten PROVE FALSE
    BY <2>4, <2>8
  <2>11. NoteSink(line)' = n /\ machineOutput(line)' = machineOutput(line)
    BY <2>1, <2>10 DEF NoteSink, machineOutput
  <2> QED
    BY <1>0, <2>1, <2>4, <2>5, <2>6, <2>7, <2>8, <2>11 DEF Streams, TakesInventory
<1>6. CASE OpenFile
  <2>1. /\ pc = "write" /\ pc' = "fill" /\ line' = line
        /\ out'["stdout"] = out["stdout"]
        /\ ChunksIn("stdout")' = ChunksIn("stdout")
    BY <1>0, <1>6, OpenFileChunks
  <2> QED
    BY <1>0, <2>1 DEF Streams, TakesInventory, Unwritten
<1> QED
  BY <1>1, <1>2, <1>3, <1>4, <1>5, <1>6, StepKinds DEF Noting

-----------------------------------------------------------------------------
LEMMA InitIInv == Init => IInv
<1> SUFFICES ASSUME Init PROVE IInv
  OBVIOUS
<1>1. TypeOK
  BY InitType
<1>2. LineRead /\ Gathered
  <2>1. << >> \o << >> \o << >> = << >>
    OBVIOUS
  <2> QED
    BY <2>1 DEF Init, LineRead, Gathered, Gathering
<1>3. /\ out["stdout"] = << >> /\ out["stderr"] = << >>
      /\ out["file"] = <<Plain("earlier")>>
  BY DEF Init, Sinks
<1>4. /\ ChunksIn("stdout") = {} /\ ChunksIn("stderr") = {}
      /\ ChunksIn("file") = {Plain("earlier")}
  BY <1>3 DEF ChunksIn
<1>5. Plain("earlier").kind = "earlier"
  BY DEF Plain
<1>6. HandedOver
  BY <1>3, <1>4, <1>5 DEF Init, HandedOver, Listings, Unwritten, Gathering
<1>7. Ending
  BY <1>4, <1>5 DEF Init, Ending, Answered, Sinks
<1>8. Len(out["stdout"]) <= 1
  BY <1>3
<1>9. Streams
  BY <1>3, <1>4, <1>8 DEF Init, Streams
<1> QED
  BY <1>1, <1>2, <1>6, <1>7, <1>9 DEF IInv

LEMMA NextIInv == IInv /\ [Next]_vars => IInv'
<1> SUFFICES ASSUME IInv, [Next]_vars PROVE IInv'
  OBVIOUS
<1>1. TypeOK'
  BY NextType DEF IInv
<1>2. LineRead' /\ Gathered' /\ HandedOver' /\ Ending' /\ Streams'
  BY LineReadStep, GatheredStep, HandedOverStep, EndingStep, StreamsStep
<1> QED
  BY <1>1, <1>2 DEF IInv

\* The inductive invariant holds throughout every run.
THEOREM Inductive == Spec => []IInv
  BY InitIInv, NextIInv, PTL DEF Spec

\* Whatever the format, the exit code is 1 exactly when what the reader holds
\* has an asset at or above the rung asked for (main.go:48-50).
THEOREM GateAndReaderAgree == Spec => []GateAgreesWithReader
<1>1. IInv => GateAgreesWithReader
  <2> SUFFICES ASSUME IInv, Answered PROVE
        /\ \A chunk \in Listings :
             exit = "tripped" <=> tripped(chunk.assets, threshold) # {}
        /\ Listings # {} \/ DocumentSink(line) \in torn
    BY DEF GateAgreesWithReader
  <2>1. pc = "gate" /\ (exit = "tripped" <=> tripped(assets, threshold) # {})
    BY DEF IInv, Ending
  <2>2. pc \notin Unwritten
    BY <2>1 DEF Unwritten, Gathering
  <2> QED
    BY <2>1, <2>2 DEF IInv, HandedOver
<1> QED
  BY <1>1, Inductive, PTL

\* Nothing a collector returned is lost, replaced or reordered between the
\* collectors and the reader.
THEOREM NothingIsDropped == Spec => []NothingDropped
<1>1. IInv => NothingDropped
  <2> SUFFICES ASSUME IInv, NEW chunk \in Listings
               PROVE  chunk.assets =
                 Judged(collected.source \o collected.modules \o collected.endpoint)
    BY DEF NothingDropped
  <2>1. pc \notin Unwritten /\ chunk.assets = assets
    BY DEF IInv, HandedOver
  <2>2. pc \notin Gathering /\ TakesInventory
    BY <2>1 DEF IInv, HandedOver, Unwritten
  <2> QED
    BY <2>1, <2>2 DEF IInv, Gathered
<1> QED
  BY <1>1, Inductive, PTL

\* After a run with -deps that ends well, every module that was not read is
\* named on the stream notes go to.
THEOREM ModulesAreAccountedFor == Spec => []ModulesAccountedFor
<1>1. IInv => ModulesAccountedFor
  <2> SUFFICES ASSUME IInv, Answered, "deps" \in line.flags,
                      NEW m \in Modules \ read
               PROVE  \/ \E chunk \in ChunksIn(NoteSink(line)) :
                           chunk.kind = "unread" /\ m \in chunk.modules
                      \/ NoteSink(line) \in torn
    BY DEF ModulesAccountedFor
  <2>1. pc = "gate"
    BY DEF IInv, Ending
  <2>2. m \in unread
    BY <2>1 DEF IInv, Gathered
  <2> QED
    BY <2>1, <2>2 DEF IInv, Streams
<1> QED
  BY <1>1, Inductive, PTL

\* Nothing is appended to a document on stdout.
THEOREM DocumentIsAlone == Spec => []DocumentUnmixed
<1>1. IInv => DocumentUnmixed
  <2> SUFFICES ASSUME IInv, NEW chunk \in ChunksIn("stdout"), chunk.kind = "document"
               PROVE  Len(out["stdout"]) = 1
    BY DEF DocumentUnmixed
  <2>1. Len(out["stdout"]) <= 1
    BY DEF IInv, Streams
  <2>2. PICK i \in DOMAIN out["stdout"] : chunk = out["stdout"][i]
    BY DEF ChunksIn
  <2>3. out["stdout"] \in Seq(Chunk)
    BY DEF IInv, TypeOK, Sinks
  <2>4. PICK n \in Nat : n = Len(out["stdout"]) /\ i \in 1..n
    BY <2>2, <2>3
  <2>5. n <= 1
    BY <2>1, <2>4
  <2>6. n >= 1
    BY <2>4
  <2>7. ASSUME NEW k \in Nat, k <= 1, k >= 1 PROVE k = 1
    BY <2>7
  <2> QED
    BY <2>4, <2>5, <2>6, <2>7
<1> QED
  BY <1>1, Inductive, PTL

\* Exit code 1 carries its reason, and no other run says a verdict.
THEOREM VerdictWhenTripped == Spec => []VerdictIffTripped
<1>1. IInv => VerdictIffTripped
  BY DEF IInv, Ending, VerdictIffTripped
<1> QED
  BY <1>1, Inductive, PTL

\* A run that fails hands over no inventory.
THEOREM FailureHandsOverNothing == Spec => []FailureIsNotAnInventory
<1>1. IInv => FailureIsNotAnInventory
  BY DEF IInv, Ending, HandedOver, FailureIsNotAnInventory
<1> QED
  BY <1>1, Inductive, PTL

\* The earlier document survives every run that fails or dies before its own
\* inventory is complete.
THEOREM EarlierDocumentSurvives == Spec => []EarlierDocumentStands
<1>1. IInv => EarlierDocumentStands
  <2> SUFFICES ASSUME IInv,
                      pc \in Gathering \/ (exit = "failed" /\ "file" \notin torn)
               PROVE  out["file"] = <<Plain("earlier")>>
    BY DEF EarlierDocumentStands
  <2>1. pc \in Gathering \cup {"write"}
    BY DEF IInv, Ending, HandedOver, Unwritten
  <2> QED
    BY <2>1 DEF IInv, HandedOver
<1> QED
  BY <1>1, Inductive, PTL

\* No collector runs under a policy that cannot be read.
THEOREM PolicyComesFirst == Spec => PolicyBeforeWalk
<1>1. IInv /\ [Next]_vars =>
        [pc' \in {"dir", "deps", "probe"} => GateAccepts(failOn(line))]_vars
  <2> SUFFICES ASSUME IInv, [Next]_vars, pc' \in {"dir", "deps", "probe"}
               PROVE  GateAccepts(failOn(line))
    OBVIOUS
  <2>1. line' = line /\ pc' # "start"
    BY LineReadStep
  <2>2. Accepted(line) /\ line.cmd # "table"
    BY <2>1, LineReadStep DEF LineRead, Accepted, FlagsOf, failOn
  <2> QED
    BY <2>2 DEF Accepted
<1> QED
  BY <1>1, Inductive, PTL DEF Spec, PolicyBeforeWalk

-----------------------------------------------------------------------------
\* The refinement.

\* In every stage after the inventory was handed over there is one.
LEMMA HandedOverOnce ==
  ASSUME IInv, pc \notin Unwritten, "stdout" \notin Fillable
  PROVE  {chunk.assets : chunk \in Listings} = {assets}
<1>1. "stdout" \notin full
  BY DEF IInv, TypeOK
<1>2. Listings # {} /\ \A chunk \in Listings : chunk.assets = assets
  BY <1>1 DEF IInv, HandedOver
<1> QED
  BY <1>2

LEMMA NothingHandedOver ==
  ASSUME IInv, pc \in Unwritten
  PROVE  {chunk.assets : chunk \in Listings} = {}
  BY DEF IInv, HandedOver

LEMMA PromiseInit == Init => Promise!Init
<1> SUFFICES ASSUME Init PROVE Promise!Init
  OBVIOUS
<1>1. {chunk.assets : chunk \in Listings} = {}
  BY InitIInv, NothingHandedOver DEF Init, Unwritten, Gathering
<1>2. (IF GateAccepts(failOn(line)) THEN threshold ELSE GateOff) \in Rungs \cup {GateOff}
  BY DEF GateAccepts, threshold, parseGate, GateOff
<1>3. Rungs = Promise!Rungs /\ GateOff = Promise!GateOff
  BY DEF Rungs, gateLadder, GateOff, Promise!Rungs, Promise!gateLadder, Promise!GateOff
<1> QED
  BY <1>1, <1>2, <1>3 DEF Promise!Init, Init

\* Every step is a step of the abstract specification or leaves it alone.
LEMMA PromiseStep ==
  ASSUME "stdout" \notin Fillable, IInv, IInv', [Next]_vars
  PROVE  [Promise!Next]_Promise!ivars
<1> DEFINE asksOf == IF TakesInventory THEN "inventory" ELSE "reference"
           thresholdOf == IF GateAccepts(failOn(line)) THEN threshold ELSE GateOff
           handed == {chunk.assets : chunk \in Listings}
<1>0. TypeOK /\ HandedOver /\ Ending /\ LineRead /\ LineRead' /\ HandedOver'
  BY DEF IInv
<1>1. line' = line
  BY LineReadStep
<1>2. asksOf' = asksOf /\ thresholdOf' = thresholdOf
  BY <1>1 DEF TakesInventory, failOn, threshold
<1>3. ASSUME Listings' = Listings PROVE handed' = handed
  BY <1>3
<1> HIDE DEF asksOf, thresholdOf, handed
<1>4. CASE Failing
  <2>1. /\ exit = "running" /\ exit' = "failed"
        /\ pc \in Unwritten /\ Listings' = Listings
    BY <1>0, <1>4, FailingStep
  <2>2. handed = {}
    BY <2>1, NothingHandedOver DEF handed
  <2>3. Promise!Fail
    BY <1>2, <1>3, <2>1, <2>2 DEF Promise!Fail, asksOf, thresholdOf, handed
  <2> QED
    BY <2>3 DEF Promise!Next
<1>5. CASE Quiet \/ OpenFile
  <2>1. /\ exit' = exit /\ pc \in Unwritten /\ pc' \in Unwritten
    BY <1>0, <1>5, QuietStep, OpenFileChunks DEF Unwritten, Gathering
  <2>2. handed = {} /\ handed' = {}
    BY <1>0, <2>1 DEF handed, HandedOver
  <2> QED
    BY <1>2, <2>1, <2>2 DEF Promise!ivars, asksOf, thresholdOf, handed
<1>6. CASE Outside
  <2>1. /\ out' = out
        /\ exit' = exit \/ (exit = "running" /\ exit' = "killed")
    BY <1>6, OutsideStep
  <2>2. handed' = handed
    BY <1>3, <2>1, QuietChunks
  <2>3. CASE exit' = exit
    BY <1>2, <2>2, <2>3 DEF Promise!ivars, asksOf, thresholdOf, handed
  <2>4. CASE exit = "running" /\ exit' = "killed"
    <3>1. Promise!Kill
      BY <1>2, <2>2, <2>4 DEF Promise!Kill, asksOf, thresholdOf, handed
    <3> QED
      BY <3>1 DEF Promise!Next
  <2> QED
    BY <2>1, <2>3, <2>4
<1>7. CASE Printing
  <2>1. /\ exit = "running" /\ exit' = "running" /\ TakesInventory
        /\ pc \in {"write", "fill"} /\ pc' = AfterWrite(line)
        /\ assets' = assets
    BY <1>0, <1>7, PrintingStep
  <2>2. pc \in Unwritten /\ pc' \notin Unwritten
    BY <2>1 DEF AfterWrite, Unwritten, Gathering
  <2>3. handed = {}
    BY <2>2, NothingHandedOver DEF handed
  <2>4. "stdout" \notin full'
    BY DEF IInv, TypeOK
  <2>5. handed' = {assets}
    BY <1>0, <2>1, <2>2, <2>4 DEF handed, HandedOver
  <2>6. assets \in Seq(Asset)
    BY <1>0 DEF TypeOK
  <2>7. Promise!Publish
    BY <1>2, <2>1, <2>3, <2>5, <2>6 DEF Promise!Publish, asksOf, thresholdOf, handed
  <2> QED
    BY <2>7 DEF Promise!Next
<1>8. CASE reportHandshake \/ reportUnread
  <2>1. exit' = exit /\ Listings' = Listings
    BY <1>0, <1>8, NotingChunks DEF Noting, reportHandshake, reportUnread
  <2> QED
    BY <1>2, <1>3, <2>1 DEF Promise!ivars, asksOf, thresholdOf, handed
<1>9. CASE ShowUsage \/ PrintRules
  <2>1. /\ exit = "running" /\ exit' = "clean" /\ Listings' = Listings
        /\ pc \in Unwritten /\ ~TakesInventory
    BY <1>0, <1>9, NotingChunks
       DEF Noting, ShowUsage, PrintRules, Running, TakesInventory,
         InventoryCommands, HelpWords, Unwritten, Gathering
  <2>2. handed = {}
    BY <2>1, NothingHandedOver DEF handed
  <2>3. Promise!Refer
    BY <1>2, <1>3, <2>1, <2>2 DEF Promise!Refer, asksOf, thresholdOf, handed
  <2> QED
    BY <2>3 DEF Promise!Next
<1>10. CASE GatePasses \/ GateTrips
  <2>1. /\ exit = "running" /\ pc = "gate"
        /\ exit' = IF tripped(assets, threshold) = {} THEN "clean" ELSE "tripped"
    BY <1>10 DEF GatePasses, GateTrips, Running
  <2>2. Listings' = Listings
    BY <1>0, <1>10, NotingChunks, QuietChunks DEF Noting, GatePasses
  <2>3. pc \notin Unwritten /\ TakesInventory
    BY <1>0, <2>1 DEF Unwritten, Gathering, HandedOver
  <2>4. handed = {assets}
    BY <2>3, HandedOverOnce DEF handed
  <2>5. GateAccepts(failOn(line))
    BY <1>0, <2>1, <2>3 DEF LineRead, Accepted, TakesInventory, InventoryCommands
  <2>6. thresholdOf = threshold
    BY <2>5 DEF thresholdOf
  <2>7. \A inventory \in handed :
          exit' = IF Promise!tripped(inventory, thresholdOf) = {}
                  THEN "clean" ELSE "tripped"
    BY <2>1, <2>4, <2>6
       DEF tripped, AtOrAbove, GateOff, Rungs, RungOf, gateLadder,
           Promise!tripped, Promise!AtOrAbove, Promise!GateOff, Promise!Rungs,
           Promise!RungOf, Promise!gateLadder
  <2>8. Promise!Answer
    BY <1>2, <1>3, <2>1, <2>2, <2>4, <2>7
       DEF Promise!Answer, asksOf, thresholdOf, handed
  <2> QED
    BY <2>8 DEF Promise!Next
<1> QED
  BY <1>4, <1>5, <1>6, <1>7, <1>8, <1>9, <1>10, StepKinds

\* Where stdout does not fill up, every run hands over at most one inventory,
\* whole, and answers by it: the exit codes of main.go:55-59.
THEOREM Implements ==
  ASSUME "stdout" \notin Fillable
  PROVE  Spec => ImplementsInventory
<1>1. IInv /\ IInv' /\ [Next]_vars => [Promise!Next]_Promise!ivars
  BY PromiseStep
<1> QED
  BY <1>1, PromiseInit, Inductive, PTL DEF Spec, ImplementsInventory, Promise!Spec
=============================================================================
