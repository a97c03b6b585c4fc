------------------------------- MODULE Config -------------------------------
(***************************************************************************)
(* The controller's configuration: one YAML file, its copy in memory, and  *)
(* the three who change them.  Admins edit through the API, one at a time  *)
(* (configEditMu); watchConfig reloads a file that changed, without that   *)
(* lock; and somebody may replace the file by hand.                        *)
(*                                                                         *)
(* A document is the set of edits it contains.  A stamp (modification time *)
(* and size) is the number of times the file was replaced: two different   *)
(* documents never have the same one.                                      *)
(***************************************************************************)
EXTENDS Naturals, FiniteSets

CONSTANTS
  Forms,      \* admins who change one job, catalog or agent
  Documents,  \* admins who load the whole document and save it again
  Hands,      \* edits made directly to the file
  MaxStops,   \* bound on stops of the controller
  Nobody

Admins == Forms \cup Documents
Edits == Admins \cup Hands

ASSUME ConfigAssumption ==
  /\ MaxStops \in Nat /\ IsFiniteSet(Edits) /\ Nobody \notin Edits
  /\ Forms \cap Documents = {} /\ Admins \cap Hands = {}

VARIABLES
  file,    \* the document on disk, its stamp, whether it parses and is valid
  cfg, stamp,  \* c.cfg and c.configStamp
  server,  \* "up", "down", or "loaded": started, but not yet stamped
  watch,   \* watchConfig's goroutine
  req,     \* req[a]: the request of an admin
  editor,  \* who holds configEditMu
  acked,   \* the edits that were confirmed
  hidden,  \* the file was replaced by hand just before it was stamped (history)
  hands, stops

disk == <<file, hidden, hands>>
memory == <<cfg, stamp>>
requests == <<req, editor, acked>>
vars == <<disk, memory, server, stops, watch, requests>>

Stamps == 0 .. Cardinality(Edits)
Steps == {"idle", "wait", "reload", "load", "apply", "clone", "guard", "check", "write",
          "stat", "install", "done"}

TypeOK ==
  /\ file \in [doc : SUBSET Edits, stamp : Stamps, valid : BOOLEAN]
  /\ cfg \in SUBSET Edits /\ stamp \in Stamps
  /\ server \in {"up", "down", "loaded"} /\ stops \in 0 .. MaxStops
  /\ watch \in [pc : {"idle", "load", "apply"}, seen : Stamps, doc : SUBSET Edits]
  /\ req \in [Admins -> [pc : Steps, seen : Stamps, doc : SUBSET Edits, loaded : SUBSET Edits]]
  /\ editor \in Admins \cup {Nobody} /\ acked \subseteq Admins
  /\ hidden \in BOOLEAN /\ hands \subseteq Hands

Idle == [pc |-> "idle", seen |-> 0, doc |-> {}]
NoRequest(pc) == [pc |-> pc, seen |-> 0, doc |-> {}, loaded |-> {}]

Init ==
  /\ file = [doc |-> {}, stamp |-> 0, valid |-> TRUE] /\ hidden = FALSE /\ hands = {}
  /\ cfg = {} /\ stamp = 0 /\ server = "up" /\ stops = 0 /\ watch = Idle
  /\ req = [a \in Admins |-> NoRequest("idle")] /\ editor = Nobody /\ acked = {}

Replace(doc, valid) == file' = [doc |-> doc, stamp |-> file.stamp + 1, valid |-> valid]

-----------------------------------------------------------------------------
(* watchConfig: reloadConfigIfChanged on every tick.                       *)

WatchStat ==
  /\ server = "up" /\ watch.pc = "idle" /\ file.stamp # stamp
  /\ watch' = [watch EXCEPT !.pc = "load", !.seen = file.stamp]
  /\ UNCHANGED <<disk, memory, server, stops, requests>>

\* Mutant: watchConfig gives up when the document is not valid.
WatchLoadOnce ==
  /\ watch.pc = "load"
  /\ watch' = IF file.valid THEN [watch EXCEPT !.pc = "apply", !.doc = file.doc]
              ELSE [Idle EXCEPT !.pc = "over"]
  /\ UNCHANGED <<disk, memory, server, stops, requests>>

\* The file may have been replaced again since its stamp was taken.
WatchLoad ==
  /\ watch.pc = "load"
  /\ watch' = IF file.valid THEN [watch EXCEPT !.pc = "apply", !.doc = file.doc] ELSE Idle
  /\ UNCHANGED <<disk, memory, server, stops, requests>>

\* Mutant: the stamp is taken when the document is applied.
WatchApplyStamps ==
  /\ watch.pc = "apply"
  /\ cfg' = watch.doc /\ stamp' = file.stamp /\ watch' = Idle
  /\ UNCHANGED <<disk, server, stops, requests>>

\* applyConfig puts whatever was loaded in place, old or new.
WatchApply ==
  /\ watch.pc = "apply"
  /\ cfg' = watch.doc /\ stamp' = watch.seen /\ watch' = Idle
  /\ UNCHANGED <<disk, server, stops, requests>>

-----------------------------------------------------------------------------
(* A request that edits the configuration.                                 *)

At(a, pc) == server = "up" /\ req[a].pc = pc
Goes(a, pc) == req' = [req EXCEPT ![a].pc = pc]
Leaves(a) == req' = [req EXCEPT ![a] = NoRequest("done")] /\ editor' = Nobody

\* handleGetConfigDocument: the whole document goes to the admin's editor.
Open(a) ==
  /\ a \in Documents /\ At(a, "idle") /\ file.valid
  /\ req' = [req EXCEPT ![a].pc = "wait", ![a].doc = file.doc]
  /\ UNCHANGED <<disk, memory, server, stops, watch, editor, acked>>

Request(a) ==
  /\ a \in Forms /\ At(a, "idle") /\ Goes(a, "wait")
  /\ UNCHANGED <<disk, memory, server, stops, watch, editor, acked>>

\* editConfig takes configEditMu and first picks up an edit made by hand.
Enter(a) ==
  /\ At(a, "wait") /\ editor = Nobody
  /\ Goes(a, "reload") /\ editor' = a
  /\ UNCHANGED <<disk, memory, server, stops, watch, acked>>

ReloadStat(a) ==
  /\ At(a, "reload")
  /\ IF file.stamp = stamp THEN Goes(a, "clone")
     ELSE req' = [req EXCEPT ![a].pc = "load", ![a].seen = file.stamp]
  /\ UNCHANGED <<disk, memory, server, stops, watch, editor, acked>>

ReloadLoad(a) ==
  /\ At(a, "load")
  /\ \/ file.valid /\ req' = [req EXCEPT ![a].pc = "apply", ![a].loaded = file.doc] /\ UNCHANGED editor
     \/ ~file.valid /\ Leaves(a)
  /\ UNCHANGED <<disk, memory, server, stops, watch, acked>>

ReloadApply(a) ==
  /\ At(a, "apply")
  /\ cfg' = req[a].loaded /\ stamp' = req[a].seen /\ Goes(a, "clone")
  /\ UNCHANGED <<disk, server, stops, watch, editor, acked>>

\* fn changes one entry of the clone of the memory, or refuses to: it is not
\* there, or there already, or still in use.
FormEdit(a) ==
  /\ a \in Forms /\ At(a, "clone")
  /\ \/ req' = [req EXCEPT ![a].pc = "guard", ![a].doc = cfg \cup {a}] /\ UNCHANGED editor
     \/ Leaves(a)
  /\ UNCHANGED <<disk, memory, server, stops, watch, acked>>

\* Or it puts the document that the admin sent in the clone's place.
DocumentEdit(a) ==
  /\ a \in Documents /\ At(a, "clone")
  /\ req' = [req EXCEPT ![a].pc = "guard", ![a].doc = @ \cup {a}]
  /\ UNCHANGED <<disk, memory, server, stops, watch, editor, acked>>

\* The guard is read after the clone was taken.
Guard(a) ==
  /\ At(a, "guard")
  /\ req' = [req EXCEPT ![a].pc = "check", ![a].seen = stamp]
  /\ UNCHANGED <<disk, memory, server, stops, watch, editor, acked>>

\* replaceConfig: errConfigChanged, or a new document that validates or not.
Check(a) ==
  /\ At(a, "check")
  /\ \/ file.stamp = stamp /\ file.stamp = req[a].seen /\ Goes(a, "write") /\ UNCHANGED editor
     \/ Leaves(a)
  /\ UNCHANGED <<disk, memory, server, stops, watch, acked>>

\* writeFileAtomicSync: done, failed, or failed after the rename.
Write(a) ==
  /\ At(a, "write")
  /\ \/ Replace(req[a].doc, TRUE) /\ hidden' = FALSE /\ Goes(a, "stat") /\ UNCHANGED editor
     \/ Leaves(a) /\ UNCHANGED <<file, hidden>>
     \/ Replace(req[a].doc, TRUE) /\ hidden' = FALSE /\ Leaves(a)
  /\ UNCHANGED <<hands, memory, server, stops, watch, acked>>

\* The stamp of the file as it is by now.
Stat(a) ==
  /\ At(a, "stat")
  /\ req' = [req EXCEPT ![a].pc = "install", ![a].seen = file.stamp]
  /\ UNCHANGED <<disk, memory, server, stops, watch, editor, acked>>

\* applyConfig; SetMaxHistory, its last call, may fail, and the admin is told
\* of an error although the edit is in place.
Install(a) ==
  /\ At(a, "install")
  /\ cfg' = req[a].doc /\ stamp' = req[a].seen
  /\ acked' \in {acked, acked \cup {a}}
  /\ Leaves(a)
  /\ UNCHANGED <<disk, server, stops, watch>>

-----------------------------------------------------------------------------
\* Somebody replaces the file, perhaps with a document that is not valid.
HandEdit(h) ==
  /\ h \in Hands \ hands /\ hands' = hands \cup {h}
  /\ \E valid \in BOOLEAN : Replace(file.doc \cup {h}, valid)
  /\ hidden' = (server = "loaded" \/ \E a \in Admins : At(a, "stat"))
  /\ UNCHANGED <<memory, server, stops, watch, requests>>

\* The controller stops, and with it every request and the watcher.
Stop ==
  /\ server = "up" /\ stops < MaxStops
  /\ server' = "down" /\ stops' = stops + 1 /\ watch' = Idle /\ editor' = Nobody
  /\ req' = [a \in Admins |-> IF req[a].pc = "idle" THEN req[a] ELSE NoRequest("done")]
  /\ UNCHANGED <<disk, memory, acked>>

\* It loads the file, which must be valid, and takes the stamp later.
Load ==
  /\ server = "down" /\ file.valid
  /\ server' = "loaded" /\ cfg' = file.doc /\ hidden' = FALSE
  /\ UNCHANGED <<file, hands, stamp, stops, watch, requests>>

Stamp ==
  /\ server = "loaded" /\ server' = "up" /\ stamp' = file.stamp
  /\ UNCHANGED <<disk, cfg, stops, watch, requests>>

-----------------------------------------------------------------------------
Watch == WatchStat \/ WatchLoad \/ WatchApply
Edit(a) ==
  \/ Enter(a) \/ ReloadStat(a) \/ ReloadLoad(a) \/ ReloadApply(a)
  \/ FormEdit(a) \/ DocumentEdit(a)
  \/ Guard(a) \/ Check(a) \/ Write(a) \/ Stat(a) \/ Install(a)

Next ==
  \/ Watch \/ (\E a \in Admins : Open(a) \/ Request(a) \/ Edit(a))
  \/ (\E h \in Hands : HandEdit(h)) \/ Stop \/ Load \/ Stamp

\* The goroutines of a running controller are scheduled and its ticker ticks.
Fairness == WF_vars(Watch) /\ \A a \in Admins : WF_vars(Edit(a))

Spec == Init /\ [][Next]_vars /\ Fairness

-----------------------------------------------------------------------------
(* Properties                                                              *)

\* The types, and: the stamp never lies.  As long as it is the file's, the memory is the file's
\* document, so that a reload and a guarded write may trust it, whoever comes
\* between the stat, the read and the write of another.  (Only an edit by hand
\* between a write, or the start, and the stat that follows is hidden by it.)
Inv ==
  /\ TypeOK
  /\ server = "up" /\ stamp = file.stamp /\ ~hidden => file.valid /\ cfg = file.doc

\* "Edits take effect without a restart": a valid document on disk gets into
\* memory, even if an older one is put in place by a reload that was slow.
ConfigConverges ==
  (server = "up" /\ cfg # file.doc /\ file.valid) ~>
    (cfg = file.doc \/ ~file.valid \/ hidden \/ server # "up")

\* editConfig "serializes config mutations so two admins cannot clobber each
\* other": a confirmed edit stays in the document.
EditsKept == acked \subseteq file.doc
=============================================================================
