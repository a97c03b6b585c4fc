---------------------------- MODULE ConfigProofs ----------------------------
(***************************************************************************)
(* The stamp never lies, proved for any number of admins, of edits by hand *)
(* and of restarts.                                                        *)
(*                                                                         *)
(* A stamp and a document travel together through the hands of the watcher *)
(* and of the requests, and the file may be replaced at every step of the  *)
(* way.  The argument is that a pair is either older than the file, and    *)
(* will be seen to be, or true of it (True below); only between a write    *)
(* and its stat, and between load and stamp at the start, does the         *)
(* document travel without a stamp, and the file as it is vouches for it   *)
(* unless somebody replaced it by hand just then (hidden).                 *)
(***************************************************************************)
EXTENDS Config, FiniteSetTheorems, TLAPS

USE ConfigAssumption DEF Admins, Edits

\* The document doc may be trusted as long as the file has stamp s.
True(s, doc) == s = file.stamp /\ ~hidden => file.valid /\ doc = file.doc

\* The requests that hold configEditMu are between Enter and the end.
Inside(a) == req[a].pc \notin {"idle", "wait", "done"}

\* The requests that have replaced the file, or never will.
Past == {a \in Admins : req[a].pc \in {"stat", "install", "done"}}

InvStamps ==
  /\ stamp <= file.stamp /\ watch.seen <= file.stamp
  /\ \A a \in Admins : req[a].seen <= file.stamp

\* The file is replaced at most once for every request and every hand.
InvCount == file.stamp <= Cardinality(hands \cup Past)

InvMemory ==
  /\ server = "up" => True(stamp, cfg)
  /\ server = "loaded" /\ ~hidden => file.valid /\ cfg = file.doc

InvWatch ==
  /\ watch.pc = "apply" => True(watch.seen, watch.doc)
  /\ server # "up" => watch.pc = "idle"

InvRequest(a) ==
  /\ Inside(a) => server = "up" /\ editor = a
  /\ req[a].pc = "apply" => True(req[a].seen, req[a].loaded)
  /\ req[a].pc = "stat" /\ ~hidden => file.valid /\ req[a].doc = file.doc
  /\ req[a].pc = "install" => True(req[a].seen, req[a].doc)

IInv ==
  /\ TypeOK /\ InvStamps /\ InvCount /\ InvMemory /\ InvWatch
  /\ \A a \in Admins : InvRequest(a)

Req == [pc : Steps, seen : Stamps, doc : SUBSET Edits, loaded : SUBSET Edits]
File == [doc : SUBSET Edits, stamp : Nat, valid : BOOLEAN]

-----------------------------------------------------------------------------
(* Counting.                                                               *)

LEMMA EditsCount ==
  ASSUME NEW S \in SUBSET Edits
  PROVE  /\ IsFiniteSet(S) /\ Cardinality(S) \in Nat
         /\ Cardinality(Edits) \in Nat /\ Cardinality(S) <= Cardinality(Edits)
BY FS_Subset, FS_CardinalityType, Zenon

LEMMA StampsAreNat == Stamps \subseteq Nat
BY EditsCount DEF Stamps

\* Who has replaced the file stays counted.
LEMMA CountStays ==
  ASSUME InvCount, UNCHANGED file, file.stamp \in Nat,
         hands' \cup Past' \in SUBSET Edits, hands \cup Past \subseteq hands' \cup Past'
  PROVE  InvCount'
<1> DEFINE S == hands \cup Past
           T == hands' \cup Past'
<1>1. IsFiniteSet(T) /\ Cardinality(T) \in Nat /\ S \in SUBSET T  BY EditsCount, Zenon
<1>2. Cardinality(S) <= Cardinality(T)  BY <1>1, FS_Subset, Zenon
<1>3. Cardinality(S) \in Nat  BY EditsCount, Zenon
<1>4. file.stamp <= Cardinality(S)  BY DEF InvCount
<1>5. file.stamp <= Cardinality(T)
  <2> HIDE DEF S, T
  <2> QED BY <1>1, <1>2, <1>3, <1>4
<1> QED BY <1>5 DEF InvCount

\* Who replaces the file was not counted before.
LEMMA CountGrows ==
  ASSUME InvCount, file.stamp \in Nat, file'.stamp = file.stamp + 1,
         hands' \cup Past' \in SUBSET Edits, hands \cup Past \subseteq hands' \cup Past',
         NEW x \in hands' \cup Past', x \notin hands \cup Past
  PROVE  InvCount' /\ file'.stamp \in Stamps
<1> DEFINE S == hands \cup Past
           T == hands' \cup Past'
<1>1. /\ IsFiniteSet(T) /\ Cardinality(T) \in Nat /\ Cardinality(T) <= Cardinality(Edits)
      /\ Cardinality(Edits) \in Nat
  BY EditsCount, Zenon
<1>2. IsFiniteSet(S) /\ Cardinality(S) \in Nat  BY EditsCount, Zenon
<1>3. Cardinality(S \cup {x}) = Cardinality(S) + 1  BY <1>2, FS_AddElement, Zenon
<1>4. Cardinality(S \cup {x}) <= Cardinality(T)
  <2>1. S \cup {x} \in SUBSET T  OBVIOUS
  <2> QED BY <1>1, <2>1, FS_Subset, Zenon
<1>5. file.stamp <= Cardinality(S)  BY DEF InvCount
<1>6. file'.stamp <= Cardinality(T) /\ file'.stamp \in 0 .. Cardinality(Edits)
  <2> HIDE DEF S, T
  <2> QED BY <1>1, <1>2, <1>3, <1>4, <1>5
<1> QED BY <1>6 DEF InvCount, Stamps

-----------------------------------------------------------------------------
(* The invariant is inductive.                                             *)

\* A step of one request that does not write the file.
LEMMA RequestStep ==
  ASSUME IInv, NEW a \in Admins, server = "up", UNCHANGED <<disk, server, stops, watch>>,
         req' \in [Admins -> Req], \A b \in Admins \ {a} : req'[b] = req[b],
         editor' \in Admins \cup {Nobody}, editor' = editor \/ editor \in {a, Nobody},
         acked' \subseteq Admins,
         cfg' \in SUBSET Edits, stamp' \in Stamps, stamp' <= file.stamp, True(stamp, cfg)',
         a \in Past => a \in Past', req'[a].seen <= file.stamp, InvRequest(a)'
  PROVE  IInv'
<1> USE DEF disk
<1>0. TypeOK /\ InvStamps /\ InvCount /\ InvMemory /\ InvWatch /\ \A b \in Admins : InvRequest(b)
  BY DEF IInv
<1>1. TypeOK'  BY <1>0 DEF TypeOK, Req
<1>2. InvStamps'  BY <1>0 DEF InvStamps
<1>3. InvCount'
  <2>1. file.stamp \in Nat  BY <1>0, StampsAreNat DEF TypeOK
  <2>2. hands' \cup Past' \in SUBSET Edits  BY <1>1 DEF TypeOK, Past
  <2>3. Past \subseteq Past'  BY DEF Past
  <2> QED BY <1>0, <2>1, <2>2, <2>3, CountStays
<1>4. InvMemory'  BY DEF InvMemory
<1>5. InvWatch'  BY <1>0 DEF InvWatch, True
<1>6. ASSUME NEW b \in Admins \ {a} PROVE InvRequest(b)'
  BY <1>0, b # Nobody DEF InvRequest, Inside, True
<1> QED BY <1>1, <1>2, <1>3, <1>4, <1>5, <1>6 DEF IInv

\* A step that replaces the file: every stamp taken before is old.
LEMMA ReplaceStep ==
  ASSUME IInv, file' \in File, file'.stamp = file.stamp + 1,
         UNCHANGED <<memory, server, stops, watch, acked>>,
         hidden' \in BOOLEAN, hands' \subseteq Hands, req' \in [Admins -> Req],
         editor' \in Admins \cup {Nobody}, server = "loaded" => hidden',
         hands \cup Past \subseteq hands' \cup Past',
         NEW x \in hands' \cup Past', x \notin hands \cup Past,
         \A a \in Admins :
           /\ req'[a].seen <= file.stamp
           /\ Inside(a)' => server = "up" /\ editor' = a
           /\ req'[a].pc = "stat" /\ ~hidden' => file'.valid /\ req'[a].doc = file'.doc
  PROVE  IInv'
<1> USE DEF memory
<1>0. TypeOK /\ InvStamps /\ InvCount /\ InvMemory /\ InvWatch
  BY DEF IInv
<1>1. file.stamp \in Nat  BY <1>0, StampsAreNat DEF TypeOK
<1>2. InvCount' /\ file'.stamp \in Stamps
  <2>1. hands' \cup Past' \in SUBSET Edits  BY <1>0 DEF Past
  <2> QED BY <1>0, <1>1, <2>1, CountGrows
<1>3. TypeOK'  BY <1>0, <1>2 DEF TypeOK, Req, File
<1>4. /\ stamp' \in Nat /\ watch'.seen \in Nat /\ \A a \in Admins : req'[a].seen \in Nat
  BY <1>0, StampsAreNat DEF TypeOK, Req
<1>5. InvStamps'  BY <1>0, <1>1, <1>4 DEF InvStamps
<1>6. ASSUME NEW s \in Nat, s <= file.stamp PROVE s # file'.stamp
  BY <1>1, <1>6
<1>7. InvMemory' /\ InvWatch'
  BY <1>0, <1>4, <1>6 DEF InvMemory, InvWatch, InvStamps, True
<1>8. \A a \in Admins : InvRequest(a)'
  BY <1>4, <1>6 DEF InvRequest, True
<1> QED BY <1>2, <1>3, <1>5, <1>7, <1>8 DEF IInv

\* The stamps and documents a step works with.
LEMMA Typed ==
  ASSUME IInv
  PROVE  /\ TypeOK /\ InvStamps /\ (server = "up" => True(stamp, cfg))
         /\ req \in [Admins -> Req] /\ \A b \in Admins : req[b] \in Req /\ InvRequest(b)
         /\ file.stamp \in Nat /\ stamp \in Nat /\ stamp \in Stamps /\ file.stamp \in Stamps
         /\ 0 \in Stamps /\ 0 <= file.stamp
         /\ file.doc \in SUBSET Edits /\ cfg \in SUBSET Edits
         /\ editor \in Admins \cup {Nobody} /\ acked \subseteq Admins
<1>1. TypeOK  BY DEF IInv
<1>2. 0 \in Stamps  BY EditsCount DEF Stamps
<1>3. req \in [Admins -> Req] /\ \A b \in Admins : req[b] \in Req  BY <1>1 DEF TypeOK, Req
<1>4. /\ stamp \in Stamps /\ file.stamp \in Stamps /\ file.doc \in SUBSET Edits
      /\ cfg \in SUBSET Edits /\ editor \in Admins \cup {Nobody} /\ acked \subseteq Admins
  BY <1>1 DEF TypeOK
<1>5. file.stamp \in Nat /\ stamp \in Nat  BY <1>4, StampsAreNat, Zenon
<1>6. 0 <= file.stamp  BY <1>5
<1> QED BY <1>1, <1>2, <1>3, <1>4, <1>5, <1>6 DEF IInv, InvMemory

\* A request that ends: refused, failed or done.
LEMMA LeavesStep ==
  ASSUME IInv, NEW a \in Admins, Inside(a), Leaves(a),
         UNCHANGED <<disk, server, stops, watch>>, acked' \subseteq Admins,
         cfg' \in SUBSET Edits, stamp' \in Stamps, stamp' <= file.stamp, True(stamp, cfg)'
  PROVE  IInv'
<1>1. req' = [req EXCEPT ![a] = NoRequest("done")] /\ editor' = Nobody  BY DEF Leaves
<1>2. NoRequest("done") \in Req /\ NoRequest("done").pc = "done" /\ NoRequest("done").seen = 0
  BY Typed DEF NoRequest, Req, Steps
<1>3. req' \in [Admins -> Req] /\ req'[a] = NoRequest("done") /\ \A b \in Admins \ {a} : req'[b] = req[b]
  BY <1>1, <1>2, Typed
<1>4. a \in Past'  BY <1>2, <1>3 DEF Past
<1>5. InvRequest(a)' /\ req'[a].seen <= file.stamp
  BY <1>2, <1>3, Typed DEF InvRequest, Inside
<1>6. server = "up" /\ editor = a  BY Typed DEF InvRequest
<1> QED BY <1>1, <1>3, <1>4, <1>5, <1>6, RequestStep

LEMMA OpenStep == ASSUME IInv, NEW a \in Admins, Open(a) \/ Request(a) PROVE IInv'
<1> USE DEF memory
<1>1. /\ req'[a].pc = "wait" /\ req'[a].seen = req[a].seen
      /\ req' \in [Admins -> Req] /\ \A b \in Admins \ {a} : req'[b] = req[b]
  <2>1. CASE Open(a)
    <3> DEFINE new == [req[a] EXCEPT !.pc = "wait", !.doc = file.doc]
    <3>1. req' = [req EXCEPT ![a] = new]  BY <2>1, Typed DEF Open
    <3>2. new \in Req /\ new.pc = "wait" /\ new.seen = req[a].seen  BY Typed DEF Req, Steps
    <3> HIDE DEF new
    <3> QED BY <3>1, <3>2, Typed
  <2>2. CASE Request(a)  BY <2>2, Typed DEF Request, Goes, Req, Steps
  <2> QED BY <2>1, <2>2
<1>2. server = "up" /\ req[a].pc = "idle" /\ UNCHANGED <<disk, memory, server, stops, watch, editor, acked>>
  BY DEF Open, Request, At
<1>3. a \notin Past  BY <1>2 DEF Past
<1>4. InvRequest(a)'  BY <1>1 DEF InvRequest, Inside
<1>5. True(stamp, cfg)'  BY <1>2, Typed DEF True, disk
<1> QED BY <1>1, <1>2, <1>3, <1>4, <1>5, Typed, RequestStep DEF InvStamps

LEMMA EnterStep == ASSUME IInv, NEW a \in Admins, Enter(a) PROVE IInv'
<1> USE DEF memory
<1>1. /\ req'[a].pc = "reload" /\ req'[a].seen = req[a].seen
      /\ req' \in [Admins -> Req] /\ \A b \in Admins \ {a} : req'[b] = req[b]
  BY Typed DEF Enter, Goes, Req, Steps
<1>2. /\ server = "up" /\ req[a].pc = "wait" /\ editor = Nobody /\ editor' = a
      /\ UNCHANGED <<disk, memory, server, stops, watch, acked>>
  BY DEF Enter, At
<1>3. a \notin Past  BY <1>2 DEF Past
<1>4. InvRequest(a)'  BY <1>1, <1>2 DEF InvRequest, Inside
<1>5. True(stamp, cfg)'  BY <1>2, Typed DEF True, disk
<1> QED BY <1>1, <1>2, <1>3, <1>4, <1>5, Typed, RequestStep DEF InvStamps

\* The steps inside configEditMu that leave the memory alone.
LEMMA InsideStep ==
  ASSUME IInv, NEW a \in Admins,
         ReloadStat(a) \/ FormEdit(a) \/ DocumentEdit(a) \/ Guard(a) \/ Check(a) \/ Stat(a) \/ ReloadLoad(a)
  PROVE  IInv'
<1> USE DEF memory
<1>1. /\ server = "up" /\ Inside(a) /\ req[a].pc # "install"
      /\ UNCHANGED <<disk, memory, server, stops, watch, acked>>
  BY DEF ReloadStat, FormEdit, DocumentEdit, Guard, Check, Stat, ReloadLoad, At, Inside
<1>2. True(stamp, cfg)' /\ stamp' <= file.stamp
  BY <1>1, Typed DEF True, disk, InvStamps
<1>3. CASE Leaves(a)
  BY <1>1, <1>2, <1>3, Typed, LeavesStep
<1>4. ASSUME ~Leaves(a)
      PROVE  /\ UNCHANGED editor
             /\ req' \in [Admins -> Req] /\ \A b \in Admins \ {a} : req'[b] = req[b]
             /\ req'[a].pc \notin {"idle", "wait", "done"}
             /\ req'[a].seen <= file.stamp
             /\ req[a].pc = "stat" => req'[a].pc = "install"
             /\ InvRequest(a)'
  <2>0. InvRequest(a) /\ req[a] \in Req /\ req[a].seen <= file.stamp /\ editor = a
    BY <1>1, Typed DEF InvStamps, InvRequest
  <2>1. CASE ReloadStat(a)
    BY <2>0, <2>1, <1>1, Typed DEF ReloadStat, Goes, At, Req, Steps, InvRequest, Inside
  <2>2. CASE FormEdit(a)
    BY <1>4, <2>0, <2>2, <1>1, Typed DEF FormEdit, At, Req, Steps, InvRequest, Inside
  <2>3. CASE DocumentEdit(a)
    BY <2>0, <2>3, <1>1, Typed DEF DocumentEdit, At, Req, Steps, InvRequest, Inside
  <2>4. CASE Guard(a)
    BY <2>0, <2>4, <1>1, Typed DEF Guard, At, Req, Steps, InvRequest, Inside, InvStamps
  <2>5. CASE Check(a)
    BY <1>4, <2>0, <2>5, <1>1, Typed DEF Check, Goes, At, Req, Steps, InvRequest, Inside
  <2>6. CASE Stat(a)
    BY <2>0, <2>6, <1>1, Typed DEF Stat, At, Req, Steps, InvRequest, Inside, True, disk
  <2>7. CASE ReloadLoad(a)
    BY <1>4, <2>0, <2>7, <1>1, Typed DEF ReloadLoad, At, Req, Steps, InvRequest, Inside, True, disk
  <2> QED BY <2>1, <2>2, <2>3, <2>4, <2>5, <2>6, <2>7
<1>5. CASE ~Leaves(a)
  <2>1. a \in Past => a \in Past'  BY <1>1, <1>4, <1>5 DEF Past, Inside
  <2> QED BY <1>1, <1>2, <1>4, <1>5, <2>1, Typed, RequestStep
<1> QED BY <1>3, <1>5

LEMMA ReloadApplyStep == ASSUME IInv, NEW a \in Admins, ReloadApply(a) PROVE IInv'
<1>1. /\ server = "up" /\ req[a].pc = "apply" /\ cfg' = req[a].loaded /\ stamp' = req[a].seen
      /\ UNCHANGED <<disk, server, stops, watch, editor, acked>>
  BY DEF ReloadApply, At
<1>2. /\ req'[a].pc = "clone" /\ req'[a].seen = req[a].seen
      /\ req' \in [Admins -> Req] /\ \A b \in Admins \ {a} : req'[b] = req[b]
  BY Typed DEF ReloadApply, Goes, Req, Steps
<1>3. InvRequest(a)' /\ a \notin Past  BY <1>1, <1>2, Typed DEF InvRequest, Inside, Past
<1>4. True(stamp, cfg)'  BY <1>1, Typed DEF True, disk, InvRequest
<1>5. cfg' \in SUBSET Edits /\ stamp' \in Stamps /\ stamp' <= file.stamp
  BY <1>1, Typed DEF Req, InvStamps
<1> QED BY <1>1, <1>2, <1>3, <1>4, <1>5, Typed, RequestStep DEF InvStamps

LEMMA InstallStep == ASSUME IInv, NEW a \in Admins, Install(a) PROVE IInv'
<1>1. /\ server = "up" /\ req[a].pc = "install" /\ cfg' = req[a].doc /\ stamp' = req[a].seen
      /\ UNCHANGED <<disk, server, stops, watch>> /\ Leaves(a) /\ acked' \subseteq Admins
  BY Typed DEF Install, At
<1>2. Inside(a)  BY <1>1 DEF Inside
<1>3. True(stamp, cfg)'  BY <1>1, Typed DEF True, disk, InvRequest
<1>4. cfg' \in SUBSET Edits /\ stamp' \in Stamps /\ stamp' <= file.stamp
  BY <1>1, Typed DEF Req, InvStamps
<1> QED BY <1>1, <1>2, <1>3, <1>4, LeavesStep

LEMMA WriteStep == ASSUME IInv, NEW a \in Admins, Write(a) PROVE IInv'
<1> USE DEF memory
<1>1. /\ server = "up" /\ req[a].pc = "write" /\ Inside(a) /\ editor = a
      /\ UNCHANGED <<hands, memory, server, stops, watch, acked>>
  BY Typed DEF Write, At, Inside, InvRequest
<1>2. CASE Leaves(a) /\ UNCHANGED <<file, hidden>>
  <2>1. True(stamp, cfg)' /\ stamp' <= file.stamp
    BY <1>1, <1>2, Typed DEF True, InvStamps
  <2> QED BY <1>1, <1>2, <2>1, Typed, LeavesStep DEF disk
<1>3. CASE Replace(req[a].doc, TRUE) /\ hidden' = FALSE /\ ((Goes(a, "stat") /\ UNCHANGED editor) \/ Leaves(a))
  <2>1. file' = [doc |-> req[a].doc, stamp |-> file.stamp + 1, valid |-> TRUE]
    BY <1>3 DEF Replace
  <2>2. /\ file' \in File /\ file'.stamp = file.stamp + 1 /\ file'.valid /\ file'.doc = req[a].doc
    BY <2>1, Typed DEF File, Req
  <2>3. /\ req' \in [Admins -> Req] /\ \A b \in Admins \ {a} : req'[b] = req[b]
        /\ req'[a].seen <= file.stamp
        /\ \/ req'[a].pc = "stat" /\ req'[a].doc = req[a].doc /\ editor' = a
           \/ req'[a].pc = "done" /\ editor' = Nobody
    <3>1. CASE Goes(a, "stat") /\ UNCHANGED editor
      BY <1>1, <3>1, Typed DEF Goes, Req, Steps, InvStamps
    <3>2. CASE Leaves(a)
      <4>1. NoRequest("done") \in Req /\ NoRequest("done").pc = "done" /\ NoRequest("done").seen = 0
        BY Typed DEF NoRequest, Req, Steps
      <4> QED BY <3>2, <4>1, Typed DEF Leaves
    <3> QED BY <1>3, <3>1, <3>2
  <2>4. a \notin hands \cup Past /\ a \in Past' /\ Past \subseteq Past'
    BY <1>1, <2>3, Typed DEF Past, TypeOK
  <2>5. \A b \in Admins \ {a} : ~Inside(b) /\ req[b].pc # "stat" /\ req[b].seen <= file.stamp
    BY <1>1, Typed DEF InvRequest, InvStamps, Inside
  <2>6. ASSUME NEW b \in Admins
        PROVE  /\ req'[b].seen <= file.stamp
               /\ Inside(b)' => server = "up" /\ editor' = b
               /\ req'[b].pc = "stat" /\ ~hidden' => file'.valid /\ req'[b].doc = file'.doc
    BY <1>1, <2>2, <2>3, <2>5 DEF Inside
  <2>7. hands' \subseteq Hands /\ editor' \in Admins \cup {Nobody} /\ hidden' \in BOOLEAN
    BY <1>1, <1>3, <2>3, Typed DEF TypeOK
  <2> QED BY <1>1, <2>2, <2>3, <2>4, <2>6, <2>7, ReplaceStep
<1> QED BY <1>2, <1>3 DEF Write

LEMMA HandEditStep == ASSUME IInv, NEW h \in Hands, HandEdit(h) PROVE IInv'
<1> USE DEF requests
<1>1. /\ h \notin hands /\ hands' = hands \cup {h} /\ hidden' \in BOOLEAN
      /\ UNCHANGED <<memory, server, stops, watch, requests>>
      /\ server = "loaded" => hidden'
      /\ \A a \in Admins : At(a, "stat") => hidden'
  BY DEF HandEdit
<1>2. PICK valid \in BOOLEAN : Replace(file.doc \cup {h}, valid)
  BY DEF HandEdit
<1>3. file' \in File /\ file'.stamp = file.stamp + 1
  BY <1>2, Typed DEF Replace, File
<1>4. h \notin hands \cup Past /\ h \in hands'
  BY <1>1 DEF Past
<1>5. Past' = Past  BY <1>1 DEF Past
<1>6. ASSUME NEW a \in Admins
      PROVE  /\ req'[a].seen <= file.stamp
             /\ Inside(a)' => server = "up" /\ editor' = a
             /\ req'[a].pc = "stat" /\ ~hidden' => file'.valid /\ req'[a].doc = file'.doc
  <2>1. InvRequest(a) /\ req[a].seen <= file.stamp  BY Typed DEF InvStamps
  <2>2. req[a].pc = "stat" => hidden'  BY <1>1, <2>1 DEF InvRequest, Inside, At
  <2> QED BY <1>1, <2>1, <2>2 DEF InvRequest, Inside
<1>7. hands' \subseteq Hands /\ req' \in [Admins -> Req] /\ editor' \in Admins \cup {Nobody}
  BY <1>1, Typed DEF TypeOK
<1> QED BY <1>1, <1>3, <1>4, <1>5, <1>6, <1>7, ReplaceStep

\* The file and the requests as they are: what the invariant says of the file
\* and of the requests stays.
LEMMA OtherStep ==
  ASSUME IInv, TypeOK', UNCHANGED <<disk, requests>>, server = server',
         stamp' <= file.stamp, watch'.seen <= file.stamp, InvMemory', InvWatch'
  PROVE  IInv'
<1> USE DEF disk, requests
<1>1. InvStamps'  BY DEF IInv, InvStamps
<1>2. InvCount'  BY DEF IInv, InvCount, Past
<1>3. \A a \in Admins : InvRequest(a)'  BY DEF IInv, InvRequest, Inside, True
<1> QED BY <1>1, <1>2, <1>3 DEF IInv

LEMMA WatchStep == ASSUME IInv, Watch PROVE IInv'
<1> USE DEF memory, requests, disk
<1>1. /\ TypeOK /\ InvStamps /\ InvMemory /\ InvWatch /\ file.stamp \in Nat /\ watch.seen <= file.stamp
      /\ Idle.pc = "idle" /\ Idle.seen = 0
      /\ Idle \in [pc : {"idle", "load", "apply"}, seen : Stamps, doc : SUBSET Edits]
  BY Typed DEF IInv, InvStamps, Idle
<1>2. CASE WatchStat
  <2>1. TypeOK'  BY <1>1, <1>2 DEF WatchStat, TypeOK
  <2>2. watch'.pc = "load" /\ watch'.seen = file.stamp /\ server = "up"  BY <1>1, <1>2 DEF WatchStat, TypeOK
  <2> QED BY <1>1, <1>2, <2>1, <2>2, OtherStep DEF WatchStat, InvStamps, InvMemory, InvWatch, True
<1>3. CASE WatchLoad
  <2>1. TypeOK'  BY <1>1, <1>3 DEF WatchLoad, TypeOK
  <2>2. /\ watch'.seen <= file.stamp
        /\ watch'.pc = "apply" => file.valid /\ watch'.doc = file.doc
        /\ watch'.pc # "idle" => watch.pc # "idle"
    BY <1>1, <1>3 DEF WatchLoad, TypeOK
  <2> QED BY <1>1, <1>3, <2>1, <2>2, OtherStep DEF WatchLoad, InvStamps, InvMemory, InvWatch, True
<1>4. CASE WatchApply
  <2>1. TypeOK'  BY <1>1, <1>4 DEF WatchApply, TypeOK
  <2>2. True(stamp, cfg)' /\ server = "up"  BY <1>1, <1>4 DEF WatchApply, InvWatch, True
  <2> QED BY <1>1, <1>4, <2>1, <2>2, OtherStep DEF WatchApply, InvStamps, InvMemory, InvWatch
<1> QED BY <1>2, <1>3, <1>4 DEF Watch

LEMMA StopStep == ASSUME IInv, Stop PROVE IInv'
<1> USE DEF memory, disk
<1>1. /\ Idle.pc = "idle" /\ Idle.seen = 0
      /\ Idle \in [pc : {"idle", "load", "apply"}, seen : Stamps, doc : SUBSET Edits]
      /\ NoRequest("done") \in Req /\ NoRequest("done").pc = "done" /\ NoRequest("done").seen = 0
  BY Typed DEF Idle, NoRequest, Req, Steps
<1>2. req' \in [Admins -> Req]  BY <1>1, Typed DEF Stop
<1>3. TypeOK'  BY <1>1, <1>2, Typed DEF Stop, TypeOK, Req
<1>4. \A a \in Admins : \/ req'[a] = req[a] /\ req'[a].pc = "idle"
                        \/ req'[a].pc = "done" /\ req'[a].seen = 0
  BY <1>1 DEF Stop
<1>5. InvStamps'  BY <1>1, <1>4, Typed DEF Stop, InvStamps
<1>6. InvCount'
  <2>1. hands' \cup Past' \in SUBSET Edits  BY <1>3 DEF TypeOK, Past
  <2>2. hands \cup Past \subseteq hands' \cup Past'  BY <1>4 DEF Past, Stop
  <2> QED BY <2>1, <2>2, Typed, CountStays DEF IInv, Stop
<1>7. InvMemory' /\ InvWatch'  BY <1>1 DEF Stop, InvMemory, InvWatch
<1>8. \A a \in Admins : InvRequest(a)'  BY <1>4 DEF InvRequest, Inside
<1> QED BY <1>3, <1>5, <1>6, <1>7, <1>8 DEF IInv

LEMMA StartStep == ASSUME IInv, Load \/ Stamp PROVE IInv'
<1> USE DEF memory, disk, requests
<1>1. server # "up" /\ server' \in {"up", "loaded"} /\ UNCHANGED <<file, hands, stops, watch, requests>>
  BY DEF Load, Stamp
<1>2. TypeOK'
  <2>1. hidden' \in BOOLEAN /\ cfg' \in SUBSET Edits /\ stamp' \in Stamps
    BY Typed DEF Load, Stamp, TypeOK
  <2> QED BY <1>1, <2>1, Typed DEF TypeOK
<1>3. InvStamps' /\ InvCount'
  BY <1>1, Typed DEF IInv, InvStamps, InvCount, Past, Load, Stamp
<1>4. InvMemory'  BY DEF IInv, InvMemory, True, Load, Stamp
<1>5. InvWatch'  BY <1>1 DEF IInv, InvWatch, True
<1>6. \A a \in Admins : InvRequest(a)'
  BY <1>1 DEF IInv, InvRequest, Inside, True
<1> QED BY <1>2, <1>3, <1>4, <1>5, <1>6 DEF IInv

\* Every step preserves the invariant.
LEMMA NextStep == ASSUME IInv, [Next]_vars PROVE IInv'
<1>1. ASSUME UNCHANGED vars PROVE IInv'
  BY <1>1 DEF IInv, TypeOK, InvStamps, InvCount, InvMemory, InvWatch, InvRequest, Inside, Past, True,
              vars, disk, memory, requests
<1> QED
  BY <1>1, OpenStep, EnterStep, InsideStep, ReloadApplyStep, InstallStep, WriteStep, HandEditStep,
     WatchStep, StopStep, StartStep
  DEF Next, Edit

LEMMA InitStep == Init => IInv
<1> SUFFICES ASSUME Init PROVE IInv  OBVIOUS
<1>1. 0 \in Stamps /\ Past = {} /\ hands = {}  BY EditsCount DEF Stamps, Init, Past, NoRequest
<1>2. TypeOK
  <2>1. stops \in 0 .. MaxStops /\ file \in [doc : SUBSET Edits, stamp : Stamps, valid : BOOLEAN]
    BY <1>1 DEF Init
  <2>2. watch \in [pc : {"idle", "load", "apply"}, seen : Stamps, doc : SUBSET Edits]
    BY <1>1 DEF Init, Idle
  <2>3. NoRequest("idle") \in Req  BY <1>1 DEF NoRequest, Req, Steps
  <2> QED BY <1>1, <2>1, <2>2, <2>3 DEF Init, TypeOK, Req
<1>3. InvCount  BY <1>1, EditsCount DEF InvCount, Init
<1> QED BY <1>2, <1>3 DEF Init, IInv, InvStamps, InvMemory, InvWatch, InvRequest, Inside, True, Idle, NoRequest

LEMMA Inductive == Spec => []IInv
<1> QED BY InitStep, NextStep, PTL DEF Spec

-----------------------------------------------------------------------------
\* While the stamp in memory is the stamp of the file, the memory is the file's
\* document and the file is valid, whoever loaded, wrote or replaced it last, so
\* that reloadConfigIfChanged may skip the file and replaceConfig may overwrite
\* it.
THEOREM StampNeverLies == Spec => []Inv
<1>1. IInv => Inv  BY DEF IInv, Inv, InvMemory, True
<1> QED BY <1>1, Inductive, PTL
=============================================================================
