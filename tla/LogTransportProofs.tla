------------------------- MODULE LogTransportProofs -------------------------
(***************************************************************************)
(* The controller's copy of a log is faithful, and a recorded result has   *)
(* its log, for every length of log, chunk, cap and notice.                *)
(*                                                                         *)
(* Requests that were given up go on beside the retries, so the argument   *)
(* may not say who writes next.  It says instead what every request under  *)
(* way may still do to the file: it has bytes the agent's log has, and     *)
(* found the file as long as it wrote down, and files never get shorter    *)
(* (InvCall).  What it writes is then either what the file holds there or  *)
(* what is to follow.                                                      *)
(***************************************************************************)
EXTENDS LogTransport, SequenceTheorems, TLAPS

USE LogAssumption DEF Least, Most

\* Past the local log there are only notices, and those only past the cap.
InvLength == Len(file) <= local \/ MaxLogBytes < local

\* A log below the cap is complete, one above it has been capped.
Complete ==
  /\ phase # "running"
  /\ (Len(file) = logLength /\ logLength <= MaxLogBytes) \/ Len(file) > MaxLogBytes

\* What a request that is under way knows.
InvCall(c) ==
  /\ c.stage \in {"new", "checked", "write", "notice", "mark"} =>
       c.len > 0 /\ c.off + c.len <= local
  /\ c.stage = "write" => c.off <= c.size /\ c.size < c.off + c.len /\ c.size <= Len(file)
  /\ c.stage = "notice" => Exceeds(c) /\ PayloadEnd(c) <= Len(file)
  /\ c.stage = "mark" => Exceeds(c) /\ MaxLogBytes < Len(file)
  /\ c.stage \in {"result", "record"} => phase # "running" /\ c.len = logLength
  /\ c.stage = "record" => Complete

\* What the agent knows.
InvAgent ==
  /\ phase # "running" => logLength = local
  /\ pc \in {"flushed", "submit"} => phase # "running"
  /\ acked <= Len(file) \/ truncated
  /\ answer.kind \in {"ack", "missing"} => answer.next <= Len(file) \/ truncated

InvRecord ==
  /\ truncated => MaxLogBytes < Len(file)
  /\ closed = "result" => Complete

IInv ==
  /\ TypeOK /\ LogIsFaithful /\ InvLength /\ InvAgent /\ InvRecord
  /\ \A c \in calls : InvCall(c)

-----------------------------------------------------------------------------
(* Writing to the file.                                                    *)

LEMMA FunctionIsSeq ==
  ASSUME NEW S, NEW n \in Nat, NEW f \in [1 .. n -> S]
  PROVE  f \in Seq(S) /\ Len(f) = n
<1>1. f \in Seq(S)  BY SeqDef
<1>2. Len(f) \in Nat /\ 1 .. Len(f) = 1 .. n  BY <1>1, LenProperties
<1>3. Len(f) = n
  <2> DEFINE m == Len(f)
  <2>1. m \in Nat /\ \A i \in Nat \ {0} : i \in 1 .. m <=> i \in 1 .. n  BY <1>2
  <2> HIDE DEF m
  <2>2. m <= n  BY <2>1
  <2>3. n <= m  BY <2>1
  <2> QED BY <2>1, <2>2, <2>3 DEF m
<1> QED BY <1>1, <1>3

\* A write that begins at or before the end of a faithful file and has the
\* right bytes keeps it faithful and never shortens it.
LEMMA WriteLaw ==
  ASSUME TypeOK, LogIsFaithful, NEW at \in Nat, NEW payload \in Seq(Nat), WriteAt(at, payload),
         at <= Len(file),
         \A i \in 1 .. Len(payload) : payload[i] = IF at + i <= MaxLogBytes THEN at + i ELSE 0,
         \/ Most(Len(file), at + Len(payload)) <= local
         \/ MaxLogBytes < local
  PROVE  /\ file' \in Seq(0 .. MaxLocal) /\ Len(file') = Most(Len(file), at + Len(payload))
         /\ LogIsFaithful'
<1> DEFINE n == Most(Len(file), at + Len(payload))
           good(i) == IF i <= MaxLogBytes THEN i ELSE 0
<1>0. local \in 0 .. MaxLocal /\ MaxLocal \in Nat /\ MaxLogBytes \in Nat  BY DEF TypeOK
<1>1. Len(file) \in Nat /\ Len(payload) \in Nat /\ n \in Nat  BY DEF TypeOK
<1>2. \A i \in 1 .. n :
        (CASE i > at /\ i <= at + Len(payload) -> payload[i - at]
           [] i <= at /\ i > Len(file) -> 0
           [] OTHER -> file[i]) = good(i)
  <2> SUFFICES ASSUME NEW i \in 1 .. n
               PROVE  (CASE i > at /\ i <= at + Len(payload) -> payload[i - at]
                         [] i <= at /\ i > Len(file) -> 0
                         [] OTHER -> file[i]) = good(i)
    OBVIOUS
  <2>1. CASE i > at /\ i <= at + Len(payload)
    <3>1. i - at \in 1 .. Len(payload) /\ at + (i - at) = i  BY <1>1, <2>1
    <3> QED BY <2>1, <3>1
  <2>2. CASE ~(i > at /\ i <= at + Len(payload))
    <3>1. i \in 1 .. Len(file)  BY <1>1, <2>2
    <3>2. file[i] = good(i)  BY <3>1 DEF LogIsFaithful
    <3> QED BY <1>1, <2>2, <3>1, <3>2
  <2> QED BY <2>1, <2>2
<1>3. file' = [i \in 1 .. n |-> good(i)]
  BY <1>2 DEF WriteAt
<1>4. \A i \in 1 .. n : good(i) \in 0 .. MaxLocal
  BY <1>0, <1>1
<1>5. file' \in [1 .. n -> 0 .. MaxLocal]
  BY <1>3, <1>4
<1>6. file' \in Seq(0 .. MaxLocal) /\ Len(file') = n
  BY <1>1, <1>5, FunctionIsSeq
<1>7. \A i \in 1 .. n : file'[i] = good(i)  BY <1>3
<1> QED BY <1>6, <1>7 DEF LogIsFaithful

-----------------------------------------------------------------------------
(* The invariant is inductive.                                             *)

\* Logs grow, and the local one does not once the run is over.
Progress ==
  /\ local <= local' /\ Len(file) <= Len(file')
  /\ phase # "running" => phase' # "running" /\ logLength' = logLength /\ local' = local

LEMMA Lengths ==
  ASSUME TypeOK
  PROVE  /\ Len(file) \in Nat /\ local \in Nat /\ logLength \in Nat /\ acked \in Nat /\ logOffset \in Nat
         /\ MaxLogBytes \in Nat /\ MaxLocal \in Nat /\ NoticeLength \in Nat \ {0} /\ ChunkLimit \in Nat \ {0}
         /\ \A c \in calls : c \in Call /\ c.off \in Nat /\ c.len \in Nat /\ c.size \in Nat
BY DEF TypeOK, Call

LEMMA CompleteStays ==
  ASSUME IInv, TypeOK', InvLength', Progress, Complete
  PROVE  Complete'
<1>1. /\ Len(file) \in Nat /\ local \in Nat /\ MaxLogBytes \in Nat /\ logLength = local
      /\ Len(file') \in Nat /\ local' = local /\ logLength' = logLength /\ phase' # "running"
  BY Lengths DEF IInv, InvAgent, Complete, Progress, TypeOK
<1> QED BY <1>1 DEF Complete, Progress, InvLength

LEMMA CallStays ==
  ASSUME IInv, TypeOK', InvLength', Progress, NEW c \in calls
  PROVE  InvCall(c)'
<1>1. InvCall(c) /\ c \in Call /\ c.off \in Nat /\ c.len \in Nat /\ c.size \in Nat
  BY Lengths DEF IInv
<1>2. Complete => Complete'  BY CompleteStays
<1>3. /\ Len(file) \in Nat /\ local \in Nat /\ MaxLogBytes \in Nat
      /\ Len(file') \in Nat /\ local' \in Nat
  BY Lengths DEF IInv, TypeOK
<1>4. PayloadEnd(c) \in Nat /\ PayloadEnd(c)' = PayloadEnd(c) /\ Exceeds(c)' = Exceeds(c)
  BY <1>1, <1>3 DEF PayloadEnd, Exceeds
<1> QED BY <1>1, <1>2, <1>3, <1>4 DEF InvCall, Progress

\* A step keeps the invariant if the logs grow lawfully and the agent, the
\* record and every new request know what they should.
LEMMA Step ==
  ASSUME IInv, TypeOK', LogIsFaithful', InvLength', Progress, InvAgent',
         truncated' => MaxLogBytes < Len(file'),
         closed' = "result" => closed = "result" \/ Complete',
         \A c \in calls' : c \in calls \/ InvCall(c)'
  PROVE  IInv'
<1>1. InvRecord'  BY CompleteStays DEF IInv, InvRecord
<1>2. \A c \in calls' : InvCall(c)'  BY CallStays
<1> QED BY <1>1, <1>2 DEF IInv

\* Steps that leave the controller's record alone.
LEMMA AgentStep ==
  ASSUME IInv, TypeOK', UNCHANGED record, Progress, InvAgent', InvLength',
         \A c \in calls' : c \in calls \/ InvCall(c)'
  PROVE  IInv'
<1> USE DEF record
<1>1. LogIsFaithful'  BY DEF IInv, LogIsFaithful
<1>2. truncated' => MaxLogBytes < Len(file')  BY DEF IInv, InvRecord
<1> QED BY <1>1, <1>2, Step

LEMMA DisownLaw ==
  ASSUME IInv, UNCHANGED <<phase, local, logLength, file>>
  PROVE  /\ Disown \subseteq Call
         /\ \A c \in Disown : InvCall(c)'
<1>1. ASSUME NEW c \in calls
      PROVE  LET d == [c EXCEPT !.mine = FALSE] IN d \in Call /\ InvCall(d)'
  <2> DEFINE d == [c EXCEPT !.mine = FALSE]
  <2>1. c \in Call /\ InvCall(c)  BY Lengths DEF IInv
  <2>2. d \in Call /\ d.stage = c.stage /\ d.len = c.len /\ d.off = c.off /\ d.size = c.size
    BY <2>1 DEF Call
  <2>3. InvCall(d)'
    BY <2>1, <2>2 DEF InvCall, Complete, Exceeds, PayloadEnd
  <2> QED BY <2>2, <2>3
<1> QED BY <1>1 DEF Disown

LEMMA Facts ==
  ASSUME IInv
  PROVE  /\ TypeOK /\ LogIsFaithful /\ InvLength /\ InvAgent /\ InvRecord
         /\ Len(file) \in Nat /\ local \in Nat /\ logLength \in Nat /\ acked \in Nat /\ logOffset \in Nat
         /\ MaxLogBytes \in Nat /\ MaxLocal \in Nat
         /\ NoAnswer \in [kind : {"none", "ack", "error", "accepted", "missing"}, next : Nat]
         /\ NoAnswer.kind = "none"
BY Lengths DEF IInv, NoAnswer

LEMMA LocalStep == ASSUME IInv, WriteLog \/ FinishRun \/ Flushed \/ AgentStarts PROVE IInv'
<1> USE DEF record
<1>1. UNCHANGED <<record, calls, answer, faults, acked>>
  BY DEF WriteLog, FinishRun, Flushed, AgentStarts
<1>2. /\ local' \in 0 .. MaxLocal /\ logLength' \in 0 .. MaxLocal
      /\ phase' \in {"running", "finished", "reported"}
      /\ pc' \in {"down", "idle", "upload", "flushed", "submit"}
  BY Facts DEF WriteLog, FinishRun, Flushed, AgentStarts, TypeOK
<1>3. TypeOK'  BY <1>1, <1>2, Facts DEF TypeOK
<1>4. Progress /\ InvLength'
  BY <1>1, Facts DEF Progress, WriteLog, FinishRun, Flushed, AgentStarts, InvAgent, InvLength
<1>5. InvAgent'
  BY <1>1, Facts DEF WriteLog, FinishRun, Flushed, AgentStarts, InvAgent
<1> QED BY <1>1, <1>3, <1>4, <1>5, AgentStep

LEMMA SendStep == ASSUME IInv, Upload \/ Submit PROVE IInv'
<1> USE DEF record
<1>1. UNCHANGED <<record, phase, local, logLength, acked, answer, faults>>
  BY DEF Upload, Submit
<1>2. PICK c \in Call : calls' = calls \cup {c} /\ InvCall(c)'
  <2>1. CASE Upload
    <3> DEFINE n == Least(local - acked, ChunkLimit)
    <3>1. n \in Nat /\ n > 0 /\ acked + n <= local /\ acked \in Nat
      BY <2>1, Facts DEF Upload
    <3> HIDE DEF n
    <3>2. PICK c \in Call : c = Request(acked, n, "new")
      BY <3>1 DEF Request, Call
    <3>3. c.stage = "new" /\ c.off = acked /\ c.len = n  BY <3>2 DEF Request
    <3>4. InvCall(c)'  BY <1>1, <3>1, <3>3 DEF InvCall
    <3> QED BY <2>1, <3>2, <3>4 DEF Upload, n
  <2>2. CASE Submit
    <3>1. PICK c \in Call : c = Request(0, logLength, "result")
      BY Facts DEF Request, Call
    <3>2. c.stage = "result" /\ c.len = logLength  BY <3>1 DEF Request
    <3>3. InvCall(c)'  BY <1>1, <2>2, <3>2, Facts DEF InvCall, InvAgent, Submit
    <3> QED BY <2>2, <3>1, <3>3 DEF Submit
  <2> QED BY <2>1, <2>2
<1>3. pc' = "upload" \/ (pc' = "submit" /\ pc = "flushed")  BY DEF Upload, Submit
<1>4. TypeOK'  BY <1>1, <1>2, <1>3, Facts DEF TypeOK
<1>5. Progress /\ InvLength' /\ InvAgent'
  BY <1>1, <1>3, Facts DEF Progress, InvLength, InvAgent
<1> QED BY <1>1, <1>2, <1>4, <1>5, AgentStep

LEMMA AnsweredStep == ASSUME IInv, UploadAnswered \/ SubmitAnswered PROVE IInv'
<1> USE DEF record
<1>1. UNCHANGED <<record, local, logLength, calls, faults>> /\ answer' = NoAnswer
  BY DEF UploadAnswered, SubmitAnswered
<1>2. answer.next \in Nat  BY Facts DEF TypeOK
<1>3. /\ pc' \in {"idle", "flushed"} /\ (pc' = "flushed" => phase # "running")
      /\ phase' \in {phase, "reported"} /\ (phase' # phase => pc = "submit")
      /\ acked' = acked \/ (acked' = answer.next /\ answer.kind \in {"ack", "missing"})
  BY DEF UploadAnswered, SubmitAnswered
<1>4. TypeOK'  BY <1>1, <1>2, <1>3, Facts DEF TypeOK
<1>5. Progress /\ InvLength'  BY <1>1, <1>3, Facts DEF Progress, InvLength
<1>6. InvAgent'  BY <1>1, <1>3, Facts DEF InvAgent
<1> QED BY <1>1, <1>4, <1>5, <1>6, AgentStep

LEMMA FaultStep == ASSUME IInv, GiveUp \/ AgentStops PROVE IInv'
<1> USE DEF record
<1>1. /\ UNCHANGED <<record, phase, local, logLength>> /\ answer' = NoAnswer /\ calls' = Disown
      /\ faults < MaxFaults /\ faults' = faults + 1 /\ pc' \in {"idle", "down"} /\ acked' \in {acked, 0}
  BY DEF GiveUp, AgentStops
<1>2. faults' \in 0 .. MaxFaults  BY <1>1, Facts DEF TypeOK
<1>3. TypeOK'  BY <1>1, <1>2, Facts, DisownLaw DEF TypeOK
<1>4. Progress /\ InvLength' /\ InvAgent'
  BY <1>1, Facts DEF Progress, InvLength, InvAgent
<1> QED BY <1>1, <1>3, <1>4, DisownLaw, AgentStep

LEMMA ResolveStep == ASSUME IInv, Resolve PROVE IInv'
<1> USE DEF agent
<1>1. TypeOK'  BY Facts DEF TypeOK, Resolve
<1>2. LogIsFaithful' /\ InvLength' /\ Progress /\ InvAgent'
  BY Facts DEF Resolve, LogIsFaithful, InvLength, Progress, InvAgent
<1> QED BY <1>1, <1>2, Facts, Step DEF Resolve, InvRecord

LEMMA ControllerStopsStep == ASSUME IInv, ControllerStops PROVE IInv'
<1> USE DEF agent
<1>1. faults' \in 0 .. MaxFaults  BY Facts DEF TypeOK, ControllerStops
<1>2. /\ answer' \in [kind : {"none", "ack", "error", "accepted", "missing"}, next : Nat]
      /\ answer' = answer \/ answer'.kind = "error"
  BY Facts DEF TypeOK, ControllerStops
<1>3. TypeOK'  BY <1>1, <1>2, Facts DEF TypeOK, ControllerStops
<1>4. LogIsFaithful' /\ InvLength' /\ Progress /\ InvAgent'
  BY <1>2, Facts DEF ControllerStops, LogIsFaithful, InvLength, Progress, InvAgent
<1> QED BY <1>3, <1>4, Facts, Step DEF ControllerStops, InvRecord

\* What remains to be shown of a step of a request that ends it, or that takes
\* it to its next stage.
LEMMA DoneStep ==
  ASSUME IInv, NEW c \in calls, NEW kind \in {"ack", "error", "accepted", "missing"},
         NEW next \in Nat, Done(c, kind, next),
         kind \in {"ack", "missing"} => next <= Len(file') \/ truncated',
         file' \in Seq(0 .. MaxLocal), truncated' \in BOOLEAN, logOffset' \in Nat,
         closed' \in {"open", "result", "operator"},
         LogIsFaithful', InvLength', Len(file) <= Len(file'), truncated => truncated',
         truncated' => MaxLogBytes < Len(file'),
         closed' = "result" => closed = "result" \/ Complete'
  PROVE  IInv'
<1> USE DEF agent
<1>1. /\ UNCHANGED <<agent, faults>> /\ calls' \subseteq calls
      /\ answer' = answer \/ answer' = [kind |-> kind, next |-> next]
  BY DEF Done
<1>2. answer' \in [kind : {"none", "ack", "error", "accepted", "missing"}, next : Nat]
  BY <1>1, Facts DEF TypeOK
<1>3. TypeOK'  BY <1>1, <1>2, Facts DEF TypeOK
<1>4. Progress  BY <1>1, Facts DEF Progress
<1>5. Len(file') \in Nat /\ answer.next \in Nat  BY Facts DEF TypeOK
<1>6. InvAgent'
  <2>1. acked' <= Len(file') \/ truncated'  BY <1>1, <1>5, Facts DEF InvAgent
  <2>2. answer'.kind \in {"ack", "missing"} => answer'.next <= Len(file') \/ truncated'
    BY <1>1, <1>5, Facts DEF InvAgent
  <2> QED BY <1>1, <2>1, <2>2, Facts DEF InvAgent
<1> QED BY <1>1, <1>3, <1>4, <1>6, Step

LEMMA GoesStep ==
  ASSUME IInv, NEW c \in calls, NEW size \in Nat,
         NEW stage \in {"checked", "write", "notice", "mark", "record"}, Goes(c, stage, size),
         file' \in Seq(0 .. MaxLocal), UNCHANGED <<truncated, closed, logOffset>>,
         LogIsFaithful', InvLength', Len(file) <= Len(file'),
         \A d \in Call : d.stage = stage /\ d.size = size /\ d.off = c.off /\ d.len = c.len => InvCall(d)'
  PROVE  IInv'
<1> USE DEF agent
<1>1. PICK d \in Call : /\ d = [c EXCEPT !.stage = stage, !.size = size]
                        /\ d.stage = stage /\ d.size = size /\ d.off = c.off /\ d.len = c.len
  <2> DEFINE d == [c EXCEPT !.stage = stage, !.size = size]
  <2>1. c \in Call  BY Lengths DEF IInv
  <2>2. d \in Call /\ d.stage = stage /\ d.size = size /\ d.off = c.off /\ d.len = c.len
    BY <2>1 DEF Call
  <2> QED BY <2>2
<1>2. calls' = (calls \ {c}) \cup {d} /\ UNCHANGED <<agent, answer, faults>>
  BY <1>1 DEF Goes
<1>3. TypeOK'  BY <1>2, Facts DEF TypeOK
<1>4. Progress  BY <1>2, Facts DEF Progress
<1>5. Len(file') \in Nat /\ answer.next \in Nat  BY Facts DEF TypeOK
<1>6. InvAgent'  BY <1>2, <1>5, Facts DEF InvAgent
<1>7. truncated' => MaxLogBytes < Len(file')  BY <1>5, Facts DEF InvRecord
<1> QED BY <1>1, <1>2, <1>3, <1>4, <1>6, <1>7, Step

LEMMA CallFacts ==
  ASSUME IInv, NEW c \in calls
  PROVE  /\ InvCall(c) /\ c.off \in Nat /\ c.len \in Nat /\ c.size \in Nat
         /\ PayloadEnd(c) \in Nat
BY Lengths DEF IInv, PayloadEnd, Exceeds

LEMMA AppendCheckStep == ASSUME IInv, NEW c \in calls, AppendCheck(c) PROVE IInv'
<1> USE DEF record
<1>1. UNCHANGED record /\ c.stage = "new"  BY DEF AppendCheck
<1>2. /\ file' \in Seq(0 .. MaxLocal) /\ truncated' \in BOOLEAN /\ logOffset' \in Nat
      /\ closed' \in {"open", "result", "operator"}
      /\ LogIsFaithful' /\ Len(file) <= Len(file') /\ (truncated' => MaxLogBytes < Len(file'))
  BY <1>1, Facts DEF TypeOK, LogIsFaithful, InvRecord
<1>3. UNCHANGED local => InvLength'  BY <1>1, Facts DEF InvLength
<1>4. CASE Done(c, "error", 0)
  BY <1>1, <1>2, <1>3, <1>4, DoneStep DEF Done, agent
<1>5. CASE truncated /\ Done(c, "ack", Most(c.off + c.len, logOffset))
  <2>1. Most(c.off + c.len, logOffset) \in Nat  BY Facts, CallFacts
  <2> QED BY <1>1, <1>2, <1>3, <1>5, <2>1, DoneStep DEF Done, agent
<1>6. CASE Goes(c, "checked", 0)
  <2>1. UNCHANGED local  BY <1>6 DEF Goes, agent
  <2>2. \A d \in Call : d.stage = "checked" /\ d.size = 0 /\ d.off = c.off /\ d.len = c.len => InvCall(d)'
    BY <1>1, <2>1, CallFacts DEF InvCall
  <2> QED BY <1>1, <1>2, <1>3, <1>6, <2>1, <2>2, GoesStep
<1> QED BY <1>4, <1>5, <1>6 DEF AppendCheck

LEMMA AppendStatStep == ASSUME IInv, NEW c \in calls, AppendStat(c) PROVE IInv'
<1> USE DEF record
<1>1. UNCHANGED record /\ c.stage = "checked"  BY DEF AppendStat
<1>2. /\ file' \in Seq(0 .. MaxLocal) /\ truncated' \in BOOLEAN /\ logOffset' \in Nat
      /\ closed' \in {"open", "result", "operator"}
      /\ LogIsFaithful' /\ Len(file) <= Len(file') /\ (truncated' => MaxLogBytes < Len(file'))
  BY <1>1, Facts DEF TypeOK, LogIsFaithful, InvRecord
<1>3. UNCHANGED local => InvLength'  BY <1>1, Facts DEF InvLength
<1>4. CASE Done(c, "ack", Len(file))
  BY <1>1, <1>2, <1>3, <1>4, Facts, DoneStep DEF Done, agent
<1>5. CASE ~(c.off > Len(file) \/ Len(file) - c.off >= c.len) /\ Goes(c, "write", Len(file))
  <2>1. UNCHANGED local  BY <1>5 DEF Goes, agent
  <2>2. c.off <= Len(file) /\ Len(file) < c.off + c.len  BY <1>5, Facts, CallFacts
  <2>3. \A d \in Call : d.stage = "write" /\ d.size = Len(file) /\ d.off = c.off /\ d.len = c.len => InvCall(d)'
    BY <1>1, <1>2, <2>1, <2>2, CallFacts DEF InvCall
  <2> QED BY <1>1, <1>2, <1>3, <1>5, <2>1, <2>3, Facts, GoesStep
<1> QED BY <1>4, <1>5 DEF AppendStat

LEMMA SubmitCheckStep == ASSUME IInv, NEW c \in calls, SubmitCheck(c) PROVE IInv'
<1> USE DEF record
<1>1. UNCHANGED record /\ c.stage = "result"  BY DEF SubmitCheck
<1>2. /\ file' \in Seq(0 .. MaxLocal) /\ truncated' \in BOOLEAN /\ logOffset' \in Nat
      /\ closed' \in {"open", "result", "operator"}
      /\ LogIsFaithful' /\ Len(file) <= Len(file') /\ (truncated' => MaxLogBytes < Len(file'))
  BY <1>1, Facts DEF TypeOK, LogIsFaithful, InvRecord
<1>3. UNCHANGED local => InvLength'  BY <1>1, Facts DEF InvLength
<1>4. CASE Done(c, "missing", Len(file))
  BY <1>1, <1>2, <1>3, <1>4, Facts, DoneStep DEF Done, agent
<1>5. CASE (truncated \/ Len(file) = c.len) /\ Goes(c, "record", Len(file))
  <2>1. UNCHANGED agent  BY <1>5 DEF Goes
  <2>2. phase # "running" /\ c.len = logLength  BY <1>1, CallFacts DEF InvCall
  <2>3. Complete'  BY <1>1, <1>5, <2>1, <2>2, Facts DEF Complete, InvRecord, agent
  <2>4. \A d \in Call : d.stage = "record" /\ d.size = Len(file) /\ d.off = c.off /\ d.len = c.len => InvCall(d)'
    BY <2>1, <2>2, <2>3 DEF InvCall, agent
  <2> QED BY <1>1, <1>2, <1>3, <1>5, <2>1, <2>4, Facts, GoesStep DEF agent
<1> QED BY <1>4, <1>5 DEF SubmitCheck

LEMMA SubmitRecordStep == ASSUME IInv, NEW c \in calls, SubmitRecord(c) PROVE IInv'
<1>1. c.stage = "record" /\ UNCHANGED <<file, truncated>> /\ Done(c, "accepted", c.size)
  BY DEF SubmitRecord
<1>2. UNCHANGED agent /\ c.size \in Nat  BY <1>1, CallFacts DEF Done
<1>3. Complete'  BY <1>1, <1>2, CallFacts DEF InvCall, Complete, agent
<1>4. /\ file' \in Seq(0 .. MaxLocal) /\ truncated' \in BOOLEAN /\ logOffset' \in Nat
      /\ closed' \in {"open", "result", "operator"}
  BY <1>1, <1>2, Facts DEF TypeOK, SubmitRecord
<1>5. /\ LogIsFaithful' /\ Len(file) <= Len(file') /\ (truncated' => MaxLogBytes < Len(file'))
      /\ InvLength'
  BY <1>1, <1>2, Facts DEF LogIsFaithful, InvRecord, InvLength, agent
<1> QED BY <1>1, <1>2, <1>3, <1>4, <1>5, DoneStep

LEMMA AppendMarkStep == ASSUME IInv, NEW c \in calls, AppendMark(c) PROVE IInv'
<1>1. c.stage = "mark" /\ UNCHANGED <<file, closed>> /\ truncated' = TRUE /\ Done(c, "ack", c.off + c.len)
  BY DEF AppendMark
<1>2. UNCHANGED agent /\ c.off + c.len \in Nat  BY <1>1, CallFacts DEF Done
<1>3. /\ file' \in Seq(0 .. MaxLocal) /\ logOffset' \in Nat
      /\ closed' \in {"open", "result", "operator"}
  BY <1>1, <1>2, Facts DEF TypeOK, AppendMark
<1>4. LogIsFaithful' /\ Len(file) <= Len(file') /\ MaxLogBytes < Len(file') /\ InvLength'
  BY <1>1, <1>2, Facts, CallFacts DEF LogIsFaithful, InvCall, InvLength, agent
<1> QED BY <1>1, <1>2, <1>3, <1>4, DoneStep

\* The two writes: the payload continues what the request found in the file, or
\* repeats what another request has put there since; the notice is past the cap.
LEMMA PayloadLaw ==
  ASSUME IInv, NEW c \in calls, AppendWrite(c)
  PROVE  /\ file' \in Seq(0 .. MaxLocal) /\ LogIsFaithful'
         /\ Len(file') = Most(Len(file), PayloadEnd(c))
         /\ InvLength'
<1> DEFINE n == PayloadEnd(c) - c.size
           payload == [i \in 1 .. n |-> c.size + i]
<1>1. /\ c.stage = "write" /\ c.off <= c.size /\ c.size < c.off + c.len /\ c.size <= Len(file)
      /\ c.off + c.len <= local /\ c.off \in Nat /\ c.len \in Nat /\ c.size \in Nat
  BY CallFacts DEF AppendWrite, InvCall
<1>2. /\ n \in Nat /\ PayloadEnd(c) \in Nat /\ c.size + n = PayloadEnd(c)
      /\ PayloadEnd(c) <= Most(MaxLogBytes, c.size)
      /\ n > 0 => PayloadEnd(c) <= MaxLogBytes
      /\ PayloadEnd(c) <= local \/ MaxLogBytes < local
  <2>1. MaxLogBytes \in Nat /\ local \in Nat /\ Len(file) \in Nat  BY Facts
  <2>2. CASE Exceeds(c)
    <3>1. PayloadEnd(c) = Most(MaxLogBytes, c.size) /\ MaxLogBytes < local
      BY <1>1, <2>1, <2>2 DEF PayloadEnd, Exceeds
    <3> QED BY <1>1, <2>1, <3>1
  <2>3. CASE ~Exceeds(c)
    <3>1. PayloadEnd(c) = c.off + c.len /\ c.off + c.len <= MaxLogBytes
      BY <1>1, <2>1, <2>3 DEF PayloadEnd, Exceeds
    <3> QED BY <1>1, <2>1, <3>1
  <2> QED BY <2>2, <2>3
<1> HIDE DEF n
<1>3. payload \in Seq(Nat) /\ Len(payload) = n
  <2>1. payload \in [1 .. n -> Nat]  BY <1>1, <1>2
  <2> QED BY <1>2, <2>1, FunctionIsSeq
<1>4. \A i \in 1 .. n : payload[i] = IF c.size + i <= MaxLogBytes THEN c.size + i ELSE 0
  BY <1>1, <1>2, Facts
<1>5. WriteAt(c.size, payload) /\ UNCHANGED local
  BY DEF AppendWrite, Goes, Done, agent, n
<1> HIDE DEF payload
<1>6. Most(Len(file), c.size + Len(payload)) <= local \/ MaxLogBytes < local
  BY <1>1, <1>2, <1>3, Facts DEF InvLength
<1>7. /\ file' \in Seq(0 .. MaxLocal) /\ Len(file') = Most(Len(file), c.size + Len(payload))
      /\ LogIsFaithful'
  BY <1>1, <1>3, <1>4, <1>5, <1>6, Facts, WriteLaw
<1> QED BY <1>2, <1>3, <1>5, <1>6, <1>7 DEF InvLength

LEMMA AppendWriteStep == ASSUME IInv, NEW c \in calls, AppendWrite(c) PROVE IInv'
<1>1. /\ file' \in Seq(0 .. MaxLocal) /\ LogIsFaithful' /\ InvLength'
      /\ Len(file') = Most(Len(file), PayloadEnd(c))
  BY PayloadLaw
<1>2. Len(file) <= Len(file') /\ PayloadEnd(c) <= Len(file') /\ Len(file') \in Nat
  BY <1>1, Facts, CallFacts
<1>3. c.stage = "write" /\ UNCHANGED local /\ InvCall(c) /\ c.off + c.len \in Nat
  BY CallFacts DEF AppendWrite, Goes, Done, agent
<1>4. CASE Exceeds(c) /\ Goes(c, "notice", c.size) /\ UNCHANGED <<truncated, closed, logOffset>>
  <2>1. ASSUME NEW d \in Call, d.stage = "notice", d.size = c.size, d.off = c.off, d.len = c.len
        PROVE  InvCall(d)'
    <3>1. PayloadEnd(d)' = PayloadEnd(c) /\ Exceeds(d)'  BY <1>4, <2>1 DEF PayloadEnd, Exceeds
    <3> QED BY <1>2, <1>3, <2>1, <3>1 DEF InvCall
  <2> QED BY <1>1, <1>2, <1>4, <2>1, CallFacts, GoesStep
<1>5. CASE /\ ~Exceeds(c) /\ Done(c, "ack", c.off + c.len)
           /\ logOffset' = Most(logOffset, c.off + c.len) /\ UNCHANGED <<truncated, closed>>
  <2>1. c.off + c.len <= Len(file')  BY <1>2, <1>5 DEF PayloadEnd
  <2>2. /\ truncated' \in BOOLEAN /\ logOffset' \in Nat /\ closed' \in {"open", "result", "operator"}
        /\ truncated' => MaxLogBytes < Len(file')
    BY <1>2, <1>3, <1>5, Facts DEF TypeOK, InvRecord
  <2> QED BY <1>1, <1>2, <1>3, <1>5, <2>1, <2>2, DoneStep
<1> QED BY <1>4, <1>5 DEF AppendWrite

LEMMA AppendNoticeStep == ASSUME IInv, NEW c \in calls, AppendNotice(c) PROVE IInv'
<1> DEFINE notice == [i \in 1 .. NoticeLength |-> 0]
<1>1. /\ c.stage = "notice" /\ Exceeds(c) /\ PayloadEnd(c) <= Len(file) /\ PayloadEnd(c) \in Nat
      /\ c.off + c.len <= local /\ c.len > 0 /\ c.off \in Nat /\ c.len \in Nat /\ c.size \in Nat
  BY CallFacts DEF AppendNotice, InvCall
<1>2. MaxLogBytes <= PayloadEnd(c) /\ MaxLogBytes < local
  BY <1>1, Facts DEF PayloadEnd, Exceeds
<1>3. notice \in Seq(Nat) /\ Len(notice) = NoticeLength
  <2>1. notice \in [1 .. NoticeLength -> Nat] /\ NoticeLength \in Nat  OBVIOUS
  <2> QED BY <2>1, FunctionIsSeq
<1>4. \A i \in 1 .. NoticeLength :
        notice[i] = IF PayloadEnd(c) + i <= MaxLogBytes THEN PayloadEnd(c) + i ELSE 0
  BY <1>1, <1>2, Facts
<1>5. /\ WriteAt(PayloadEnd(c), notice) /\ UNCHANGED <<truncated, closed, logOffset>>
      /\ Goes(c, "mark", c.size) /\ UNCHANGED local
  BY DEF AppendNotice, Goes, agent
<1> HIDE DEF notice
<1>6. /\ file' \in Seq(0 .. MaxLocal) /\ Len(file') = Most(Len(file), PayloadEnd(c) + NoticeLength)
      /\ LogIsFaithful'
  BY <1>1, <1>2, <1>3, <1>4, <1>5, Facts, WriteLaw
<1>7. Len(file) <= Len(file') /\ MaxLogBytes < Len(file') /\ InvLength'
  <2>1. NoticeLength \in Nat \ {0} /\ MaxLogBytes \in Nat /\ Len(file) \in Nat  BY Facts
  <2>2. Len(file) <= Len(file') /\ MaxLogBytes < Len(file')  BY <1>1, <1>2, <1>6, <2>1
  <2> QED BY <1>2, <1>5, <2>2 DEF InvLength
<1>8. \A d \in Call : d.stage = "mark" /\ d.size = c.size /\ d.off = c.off /\ d.len = c.len => InvCall(d)'
  BY <1>1, <1>5, <1>7 DEF InvCall, Exceeds
<1>9. c.size \in Nat /\ file' \in Seq(0 .. MaxLocal) /\ LogIsFaithful' /\ InvLength' /\ Len(file) <= Len(file')
  BY <1>1, <1>6, <1>7
<1> QED BY <1>5, <1>8, <1>9, GoesStep

\* Every step preserves the invariant.
LEMMA NextStep == ASSUME IInv, [Next]_vars PROVE IInv'
<1>1. ASSUME UNCHANGED vars PROVE IInv'
  BY <1>1 DEF vars, agent, record, IInv, TypeOK, LogIsFaithful, InvLength, InvAgent, InvRecord,
              InvCall, Complete, Exceeds, PayloadEnd
<1> QED
  BY <1>1, LocalStep, SendStep, AnsweredStep, FaultStep, ResolveStep, ControllerStopsStep,
     AppendCheckStep, AppendStatStep, AppendWriteStep, AppendNoticeStep, AppendMarkStep,
     SubmitCheckStep, SubmitRecordStep
  DEF Next, Agent, Handle

LEMMA InitStep == Init => IInv
<1> SUFFICES ASSUME Init PROVE IInv  OBVIOUS
<1>1. file = <<>> /\ Len(file) = 0 /\ file \in Seq(0 .. MaxLocal)  BY EmptySeq DEF Init
<1>2. TypeOK
  <2>1. local \in 0 .. MaxLocal /\ logLength \in 0 .. MaxLocal /\ faults \in 0 .. MaxFaults
    BY DEF Init
  <2> QED BY <1>1, <2>1 DEF Init, TypeOK, NoAnswer
<1> QED BY <1>1, <1>2 DEF Init, IInv, LogIsFaithful, InvLength, InvAgent, InvRecord, NoAnswer

LEMMA Inductive == Spec => []IInv
<1> QED BY InitStep, NextStep, PTL DEF Spec

-----------------------------------------------------------------------------
(* The properties.                                                         *)

\* The agent never counts a byte as stored that is not, unless the log was
\* capped.
THEOREM NoByteLost == Spec => []Inv
<1>1. IInv => Inv  BY DEF IInv, Inv, InvAgent
<1> QED BY <1>1, Inductive, PTL

\* Up to the cap the controller's file is the beginning of the agent's log,
\* whatever AppendLog requests are repeated, late or cut short.
THEOREM FileIsLog == Spec => []LogIsFaithful
<1>1. IInv => LogIsFaithful  BY DEF IInv
<1> QED BY <1>1, Inductive, PTL

\* SubmitResult records a result only with the whole log, or with a capped one
\* that says so.
THEOREM ResultComesWithLog == Spec => []ResultHasLog
<1>1. IInv => ResultHasLog  BY DEF IInv, InvRecord, Complete, ResultHasLog
<1> QED BY <1>1, Inductive, PTL

\* Once a result is recorded no request changes the text of a log below the cap.
THEOREM HistoryIsFrozen == Spec => ResultIsFrozen
<1>1. ASSUME IInv, [Next]_vars PROVE closed = "result" /\ logLength <= MaxLogBytes => file' = file
  <2> SUFFICES ASSUME closed = "result", logLength <= MaxLogBytes PROVE file' = file
    OBVIOUS
  <2>1. Len(file) = local /\ local <= MaxLogBytes /\ Len(file) \in Nat
    BY <1>1, Facts DEF InvRecord, Complete, InvAgent, InvLength
  <2>2. ASSUME NEW c \in calls, AppendWrite(c) PROVE file' = file
    <3>1. /\ file' \in Seq(0 .. MaxLocal) /\ LogIsFaithful'
          /\ Len(file') = Most(Len(file), PayloadEnd(c))
      BY <1>1, <2>2, PayloadLaw
    <3>2. PayloadEnd(c) <= local
      BY <1>1, <2>1, <2>2, Facts, CallFacts DEF AppendWrite, InvCall, PayloadEnd, Exceeds
    <3>3. Len(file') = Len(file)  BY <1>1, <2>1, <3>1, <3>2, CallFacts
    <3>4. \A i \in 1 .. Len(file) : file[i] = file'[i]
      BY <1>1, <3>1, <3>3, Facts DEF LogIsFaithful
    <3> QED BY <1>1, <3>1, <3>3, <3>4, Facts, SeqEqual DEF TypeOK
  <2>3. ASSUME NEW c \in calls, AppendNotice(c) PROVE FALSE
    BY <1>1, <2>1, <2>3, Facts, CallFacts DEF AppendNotice, InvCall, Exceeds
  <2> QED
    BY <1>1, <2>2, <2>3
    DEF Next, vars, record, agent, Agent, Handle, WriteLog, FinishRun, Upload, Flushed, UploadAnswered,
        Submit, SubmitAnswered, GiveUp, AgentStops, AgentStarts, AppendCheck, AppendStat, AppendMark,
        SubmitCheck, SubmitRecord, Resolve, ControllerStops
<1> QED BY <1>1, Inductive, PTL DEF Spec, ResultIsFrozen
=============================================================================
