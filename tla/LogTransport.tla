---------------------------- MODULE LogTransport ----------------------------
(***************************************************************************)
(* The log of one permitted execution on its way from the agent's spool to *)
(* the controller, and the result that may only follow it.                 *)
(*                                                                         *)
(* The agent writes the log locally, uploads it chunk by chunk while the   *)
(* script runs (streamLog) and until it is complete (completeExecution),   *)
(* and then submits the result.  AppendLog holds no lock: it checks the    *)
(* record, looks at the file, writes, and marks a truncation in separate   *)
(* steps, and a request whose caller gave up may still be under way while  *)
(* the retry is handled.  The controller may stop between any two of these *)
(* steps, and the agent at any time.                                       *)
(*                                                                         *)
(* Byte i of the agent's log is the number i; a byte of the controller's   *)
(* truncation notice is 0.                                                 *)
(***************************************************************************)
EXTENDS Naturals, Sequences, FiniteSets

CONSTANTS
  MaxLocal,      \* bound on the length of the local log
  ChunkLimit,    \* agentLogChunkLimit
  MaxLogBytes,   \* server.max_log_bytes
  NoticeLength,  \* length of the truncation notice
  MaxFaults      \* bound on crashes, restarts and calls that are given up

ASSUME LogAssumption ==
  /\ {MaxLocal, MaxLogBytes, MaxFaults} \subseteq Nat
  /\ {ChunkLimit, NoticeLength} \subseteq Nat \ {0}

VARIABLES
  \* the agent's spool
  phase,      \* "running", "finished" or "reported"
  local,      \* length of the local log file
  logLength,  \* entry.LogLength of a finished entry
  \* the agent process
  pc,         \* "down", "idle", "upload" (waiting), "flushed" or "submit" (waiting)
  acked,      \* ackedOffset
  \* the controller: log file and persisted record
  file, truncated, closed, logOffset,
  calls,      \* AppendLog and SubmitResult requests it is working on
  answer,     \* what the agent's outstanding call came back with
  faults      \* how many faults there were

agent == <<phase, local, logLength, pc, acked>>
record == <<file, truncated, closed, logOffset>>
vars == <<agent, record, calls, answer, faults>>

\* An AppendLog request has a chunk of len bytes at offset off, a SubmitResult
\* request (stages "result" and "record") the LogLength len; size is the file
\* size the request found; mine is FALSE once its caller gave up.
Call == [off : Nat, len : Nat, size : Nat, mine : BOOLEAN,
         stage : {"new", "checked", "write", "notice", "mark", "result", "record"}]
Request(off, len, stage) ==
  [off |-> off, len |-> len, stage |-> stage, size |-> 0, mine |-> TRUE]

NoAnswer == [kind |-> "none", next |-> 0]

TypeOK ==
  /\ phase \in {"running", "finished", "reported"}
  /\ local \in 0 .. MaxLocal /\ logLength \in 0 .. MaxLocal
  /\ pc \in {"down", "idle", "upload", "flushed", "submit"} /\ acked \in Nat
  /\ file \in Seq(0 .. MaxLocal) /\ truncated \in BOOLEAN /\ logOffset \in Nat
  /\ closed \in {"open", "result", "operator"}
  /\ calls \subseteq Call
  /\ answer \in [kind : {"none", "ack", "error", "accepted", "missing"}, next : Nat]
  /\ faults \in 0 .. MaxFaults

Init ==
  /\ phase = "running" /\ local = 0 /\ logLength = 0 /\ pc = "idle" /\ acked = 0
  /\ file = <<>> /\ truncated = FALSE /\ closed = "open" /\ logOffset = 0
  /\ calls = {} /\ answer = NoAnswer /\ faults = 0

Least(a, b) == IF a < b THEN a ELSE b
Most(a, b) == IF a < b THEN b ELSE a

-----------------------------------------------------------------------------
(* The agent                                                               *)

WriteLog ==
  /\ phase = "running" /\ pc # "down" /\ local < MaxLocal
  /\ local' = local + 1
  /\ UNCHANGED <<phase, logLength, pc, acked, record, calls, answer, faults>>

\* The run ended and the uploader stopped: the length is journaled.
FinishRun ==
  /\ phase = "running" /\ pc = "idle"
  /\ phase' = "finished" /\ logLength' = local
  /\ UNCHANGED <<local, pc, acked, record, calls, answer, faults>>

\* flushLog: upload the next chunk, or find nothing left to upload.
Upload ==
  /\ pc = "idle" /\ phase # "reported" /\ acked < local
  /\ calls' = calls \cup {Request(acked, Least(local - acked, ChunkLimit), "new")}
  /\ pc' = "upload"
  /\ UNCHANGED <<phase, local, logLength, acked, record, answer, faults>>

Flushed ==
  /\ pc = "idle" /\ phase = "finished" /\ acked >= local
  /\ pc' = "flushed"
  /\ UNCHANGED <<phase, local, logLength, acked, record, calls, answer, faults>>

\* Mutant: the chunk counts as stored, whatever offset came back.
UploadBelieved ==
  /\ pc = "upload" /\ answer.kind \in {"ack", "error"}
  /\ pc' = "idle"
  /\ acked' = IF answer.kind = "ack" THEN Least(acked + ChunkLimit, local) ELSE acked
  /\ answer' = NoAnswer
  /\ UNCHANGED <<phase, local, logLength, record, calls, faults>>

\* An offset that did not move ends the flush; any other one is believed.  An
\* error, a closed log (409) among them, ends it too, to be tried again.
UploadAnswered ==
  /\ pc = "upload" /\ answer.kind \in {"ack", "error"}
  /\ pc' = IF answer.kind = "ack" /\ answer.next = acked /\ phase = "finished"
           THEN "flushed" ELSE "idle"
  /\ acked' = IF answer.kind = "ack" THEN answer.next ELSE acked
  /\ answer' = NoAnswer
  /\ UNCHANGED <<phase, local, logLength, record, calls, faults>>

Submit ==
  /\ pc = "flushed"
  /\ calls' = calls \cup {Request(0, logLength, "result")}
  /\ pc' = "submit"
  /\ UNCHANGED <<phase, local, logLength, acked, record, answer, faults>>

\* Mutant: a submission that failed is not tried again.
SubmitOnlyOnce ==
  /\ pc = "submit" /\ answer.kind \in {"accepted", "missing"}
  /\ pc' = "idle"
  /\ phase' = IF answer.kind = "accepted" THEN "reported" ELSE phase
  /\ acked' = IF answer.kind = "missing" THEN answer.next ELSE acked
  /\ answer' = NoAnswer
  /\ UNCHANGED <<local, logLength, record, calls, faults>>

\* The result is accepted, or bytes are missing and are sent again.
SubmitAnswered ==
  /\ pc = "submit" /\ answer.kind \in {"accepted", "missing", "error"}
  /\ pc' = "idle"
  /\ phase' = IF answer.kind = "accepted" THEN "reported" ELSE phase
  /\ acked' = IF answer.kind = "missing" THEN answer.next ELSE acked
  /\ answer' = NoAnswer
  /\ UNCHANGED <<local, logLength, record, calls, faults>>

\* Faults: a call is given up, the agent stops and starts again.
Disown == {[c EXCEPT !.mine = FALSE] : c \in calls}

GiveUp ==
  /\ faults < MaxFaults /\ pc \in {"upload", "submit"}
  /\ pc' = "idle" /\ calls' = Disown /\ answer' = NoAnswer /\ faults' = faults + 1
  /\ UNCHANGED <<phase, local, logLength, acked, record>>

AgentStops ==
  /\ faults < MaxFaults /\ pc # "down"
  /\ pc' = "down" /\ acked' = 0 /\ calls' = Disown /\ answer' = NoAnswer /\ faults' = faults + 1
  /\ UNCHANGED <<phase, local, logLength, record>>

\* recoverStarted records what the log holds as the length of an aborted run.
AgentStarts ==
  /\ pc = "down"
  /\ pc' = "idle"
  /\ phase' = IF phase = "running" THEN "finished" ELSE phase
  /\ logLength' = IF phase = "running" THEN local ELSE logLength
  /\ UNCHANGED <<local, acked, record, calls, answer, faults>>

-----------------------------------------------------------------------------
(* The controller                                                          *)

\* A request ends; its answer goes to the agent if it still waits for it.
Done(c, kind, next) ==
  /\ calls' = calls \ {c}
  /\ answer' = IF c.mine THEN [kind |-> kind, next |-> next] ELSE answer
  /\ UNCHANGED <<agent, faults>>

Goes(c, stage, size) ==
  /\ calls' = (calls \ {c}) \cup {[c EXCEPT !.stage = stage, !.size = size]}
  /\ UNCHANGED <<agent, answer, faults>>

\* AppendLog first asks the record whether the log is closed or capped.
AppendCheck(c) ==
  /\ c.stage = "new"
  /\ \/ closed # "open" /\ Done(c, "error", 0)
     \/ closed = "open" /\ truncated /\ Done(c, "ack", Most(c.off + c.len, logOffset))
     \/ closed = "open" /\ ~truncated /\ Goes(c, "checked", 0)
  /\ UNCHANGED record

\* Then it looks at the file: a gap, a duplicate, or something to write.
AppendStat(c) ==
  /\ c.stage = "checked"
  /\ LET size == Len(file) IN
     IF c.off > size \/ size - c.off >= c.len
     THEN Done(c, "ack", size)
     ELSE Goes(c, "write", size)
  /\ UNCHANGED record

\* Mutant: the payload is appended to whatever the file holds by now.
WriteAtEnd(at, payload) == file' = file \o payload

\* file.WriteAt(payload, at); a hole reads as 0.
WriteAt(at, payload) ==
  file' = [i \in 1 .. Most(Len(file), at + Len(payload)) |->
             CASE i > at /\ i <= at + Len(payload) -> payload[i - at]
               [] i <= at /\ i > Len(file) -> 0
               [] OTHER -> file[i]]

Exceeds(c) == c.off + c.len > MaxLogBytes
\* Where the payload ends: at the cap, if the chunk exceeds it.
PayloadEnd(c) == IF Exceeds(c) THEN Most(MaxLogBytes, c.size) ELSE c.off + c.len

\* Mutants: the chunk is written from its beginning although the file already
\* holds a part of it; the log is marked as capped before it says so itself.
AppendWriteWhole(c) ==
  /\ c.stage = "write"
  /\ WriteAt(c.size, [i \in 1 .. PayloadEnd(c) - c.size |-> c.off + i])
  /\ IF Exceeds(c)
     THEN Goes(c, "notice", c.size) /\ UNCHANGED <<truncated, closed, logOffset>>
     ELSE /\ Done(c, "ack", c.off + c.len)
          /\ logOffset' = Most(logOffset, c.off + c.len)
          /\ UNCHANGED <<truncated, closed>>

AppendWriteMarks(c) ==
  /\ c.stage = "write"
  /\ WriteAt(c.size, [i \in 1 .. PayloadEnd(c) - c.size |-> c.size + i])
  /\ truncated' = (truncated \/ Exceeds(c))
  /\ IF Exceeds(c)
     THEN Goes(c, "notice", c.size) /\ UNCHANGED <<closed, logOffset>>
     ELSE /\ Done(c, "ack", c.off + c.len)
          /\ logOffset' = Most(logOffset, c.off + c.len)
          /\ UNCHANGED closed

AppendWrite(c) ==
  /\ c.stage = "write"
  /\ WriteAt(c.size, [i \in 1 .. PayloadEnd(c) - c.size |-> c.size + i])
  /\ IF Exceeds(c)
     THEN Goes(c, "notice", c.size) /\ UNCHANGED <<truncated, closed, logOffset>>
     ELSE /\ Done(c, "ack", c.off + c.len)
          /\ logOffset' = Most(logOffset, c.off + c.len)
          /\ UNCHANGED <<truncated, closed>>

AppendNotice(c) ==
  /\ c.stage = "notice"
  /\ WriteAt(PayloadEnd(c), [i \in 1 .. NoticeLength |-> 0])
  /\ Goes(c, "mark", c.size)
  /\ UNCHANGED <<truncated, closed, logOffset>>

\* markLogTruncated persists the mark, SetLogOffset notes the offset.
AppendMark(c) ==
  /\ c.stage = "mark"
  /\ truncated' = TRUE
  /\ logOffset' = Most(logOffset, c.off + c.len)
  /\ Done(c, "ack", c.off + c.len)
  /\ UNCHANGED <<file, closed>>

\* SubmitResult: refused while the file is not as long as the agent's log,
\* unless it was capped; then recorded, if no end was recorded before.
SubmitCheck(c) ==
  /\ c.stage = "result"
  /\ IF truncated \/ Len(file) = c.len
     THEN Goes(c, "record", Len(file))
     ELSE Done(c, "missing", Len(file))
  /\ UNCHANGED record

SubmitRecord(c) ==
  /\ c.stage = "record"
  /\ closed' = IF closed = "open" THEN "result" ELSE closed
  /\ logOffset' = IF closed = "open" THEN c.size ELSE logOffset
  /\ Done(c, "accepted", c.size)
  /\ UNCHANGED <<file, truncated>>

Handle(c) ==
  \/ AppendCheck(c) \/ AppendStat(c) \/ AppendWrite(c) \/ AppendNotice(c) \/ AppendMark(c)
  \/ SubmitCheck(c) \/ SubmitRecord(c)

\* ResolveAttention: an operator ends the execution while its agent is at work.
Resolve ==
  /\ closed = "open"
  /\ closed' = "operator"
  /\ UNCHANGED <<agent, file, truncated, logOffset, calls, answer, faults>>

\* The controller stops, or a write fails: what was written stays.
ControllerStops ==
  /\ faults < MaxFaults
  /\ calls' = {} /\ faults' = faults + 1
  /\ answer' = IF \E c \in calls : c.mine THEN [kind |-> "error", next |-> 0] ELSE answer
  /\ logOffset' = Len(file)
  /\ UNCHANGED <<agent, file, truncated, closed>>

-----------------------------------------------------------------------------
Agent == Upload \/ Flushed \/ UploadAnswered \/ Submit \/ SubmitAnswered
Next ==
  \/ WriteLog \/ FinishRun \/ Agent \/ GiveUp \/ AgentStops \/ AgentStarts
  \/ (\E c \in calls : Handle(c)) \/ Resolve \/ ControllerStops

\* A running agent goes on, and so does the controller with what it was asked,
\* whether the caller still waits (there is one such request) or gave up.  An
\* agent that is down need not come back.
Fairness ==
  /\ WF_vars(Agent)
  /\ \A waiting \in BOOLEAN : WF_vars(\E c \in calls : c.mine = waiting /\ Handle(c))
Spec == Init /\ [][Next]_vars /\ Fairness

-----------------------------------------------------------------------------
(* Properties                                                              *)

\* "A gap would corrupt the log": up to the cap the controller's file is the
\* beginning of the agent's log, whatever is repeated, late or cut short, and
\* past the cap it holds nothing but notices.
LogIsFaithful ==
  \A i \in 1 .. Len(file) : file[i] = IF i <= MaxLogBytes THEN i ELSE 0

\* The types, and: the agent never believes that a byte is stored which is not,
\* unless the log was capped.  Every byte it will not send again is in the file.
Inv == TypeOK /\ (acked <= Len(file) \/ truncated)

\* "Only confirmed once the controller holds every log byte", or else "a capped
\* log says so in its own text".
ResultHasLog ==
  closed = "result" =>
    (Len(file) = logLength /\ logLength <= MaxLogBytes) \/ Len(file) > MaxLogBytes

\* "So a stale agent cannot rewrite finished history": once a result is
\* recorded no request, however late, changes the text of a log below the cap.
\* (A late request may still add a second notice to a capped one.)
ResultIsFrozen == [][closed = "result" /\ logLength <= MaxLogBytes => file' = file]_vars

\* A log below the cap gets through: its result is recorded, if the agent stays.
ShortLogConverges ==
  (phase = "finished" /\ logLength <= MaxLogBytes) ~> (closed # "open" \/ pc = "down")

\* completeExecution's comment: "a refusal that retrying cannot fix is escalated
\* instead, so the agent never spins on it".
NeverSpins ==
  (phase = "finished" /\ closed = "result") ~> (phase = "reported" \/ pc = "down")
=============================================================================
