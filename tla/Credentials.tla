---------------------------- MODULE Credentials ----------------------------
(***************************************************************************)
(* The credential file and the AuthStores that share it: one in the        *)
(* running controller, and one in every command of the command line that   *)
(* sets the password or issues or revokes a token.  "The file is the       *)
(* authority, not the in-memory copy": every call reloads a file whose     *)
(* stamp changed before it reads or changes anything.                      *)
(*                                                                         *)
(* a.mu is held for the whole of a call, so a store has one call at a      *)
(* time; between processes there is no lock.  A token is its number in the *)
(* order of issue, and a password the moment its UpdatedAt says.  No two   *)
(* versions of the file have the same stamp, so all there is to know of a  *)
(* stamp in memory is whether it is fresh, that is, the file's.            *)
(***************************************************************************)
EXTENDS Naturals, FiniteSets

CONSTANTS
  Server,      \* the controller's process
  Commands,    \* invocations of the command line
  MaxTokens,   \* bound on the tokens issued
  MaxClock,    \* bound on the passwords set
  MaxBreaks    \* bound on how often somebody spoils the file

Stores == Commands \cup {Server}
Tokens == 1 .. MaxTokens
NoToken == 0

ASSUME CredentialsAssumption ==
  /\ Server \notin Commands /\ IsFiniteSet(Commands)
  /\ {MaxTokens, MaxClock} \subseteq Nat \ {0} /\ MaxBreaks \in Nat

VARIABLES
  file,     \* the document on disk, whether there is one, and whether it can be read
  data,     \* data[p]: a.data, the copy in memory
  fresh,    \* the stores whose a.stamp is the file's stamp
  seen,     \* the stores whose call took a stamp that is still the file's
  call,     \* call[p]: the call that holds a.mu, or what the process is at
  clock,    \* time, as far as passwords can tell it
  issued,   \* how many tokens were made
  breaks,
  live, dead, password, \* what was confirmed: tokens, revocations, the last password (history)
  raced,    \* the stores whose call has read a file that another has replaced (history)
  hidden,   \* the stores whose stamp is that of another's document (history)
  clobbered \* a change was made to a document that was not the file's (history)

acks == <<live, dead, password>>
races == <<raced, hidden, clobbered>>
stamps == <<fresh, seen>>
cvars == <<file, data, stamps, call, clock, issued, breaks, acks, races>>

Document == [admin : 0 .. MaxClock, api : SUBSET Tokens, agent : Tokens \cup {NoToken}]
Empty == [admin |-> 0, api |-> {}, agent |-> NoToken]
TokensOf(doc) == doc.api \cup ({doc.agent} \ {NoToken})

Issues == {"IssueAPIToken", "IssueAgentToken"}
Mutations == Issues \cup {"SetAdminPassword", "RevokeAPIToken", "RevokeAgentToken"}
Places == {"off", "idle", "stat", "load", "loaded", "write", "restat", "over"}
Calls == [pc : Places, op : Mutations \cup {"open", "read"}, token : Tokens \cup {NoToken},
          next : Document]
At(p, place) == call[p].pc = place

CredentialsTypeOK ==
  /\ file \in [doc : Document, exists : BOOLEAN, ok : BOOLEAN]
  /\ data \in [Stores -> Document] /\ fresh \subseteq Stores /\ seen \subseteq Stores
  /\ call \in [Stores -> Calls]
  /\ clock \in 0 .. MaxClock /\ issued \in 0 .. MaxTokens /\ breaks \in 0 .. MaxBreaks
  /\ live \subseteq Tokens /\ dead \subseteq Tokens /\ password \in 0 .. clock
  /\ raced \subseteq Stores /\ hidden \subseteq Stores /\ clobbered \in BOOLEAN

\* Before the first password there is no file; later there is one, here with an
\* agent that is enrolled.
Bootstrapped == [doc |-> [admin |-> 1, api |-> {}, agent |-> 1], exists |-> TRUE, ok |-> TRUE]

Resting(pc) == [pc |-> pc, op |-> "read", token |-> NoToken, next |-> Empty]

CredentialsInit ==
  /\ \/ /\ file = [doc |-> Empty, exists |-> FALSE, ok |-> TRUE]
        /\ clock = 0 /\ issued = 0 /\ live = {} /\ password = 0
     \/ file = Bootstrapped /\ clock = 1 /\ issued = 1 /\ live = {1} /\ password = 1
  /\ data = [p \in Stores |-> Empty] /\ fresh = {} /\ seen = {}
  /\ call = [p \in Stores |-> Resting("off")]
  /\ dead = {} /\ breaks = 0 /\ raced = {} /\ hidden = {} /\ clobbered = FALSE

-----------------------------------------------------------------------------
(* Reloading: every call begins with it.                                   *)

Goes(p, pc) == call' = [call EXCEPT ![p].pc = pc]

\* The call is over, and so is a command; a store that could not be opened is
\* not there.
Ends(p) ==
  call' = [call EXCEPT ![p] =
             Resting(IF p \in Commands THEN "over" ELSE IF @.op = "open" THEN "off" ELSE "idle")]

Begin(p, op, token) ==
  /\ call' = [call EXCEPT ![p] = [Resting("stat") EXCEPT !.op = op, !.token = token]]
  /\ UNCHANGED <<file, data, stamps, clock, breaks, acks, races>>

NewAuthStore(p) == At(p, "off") /\ Begin(p, "open", NoToken) /\ UNCHANGED issued

\* The document is up to date: the store is open, or the call goes on.
Reloaded(p) ==
  call' = [call EXCEPT ![p] = IF @.op = "open" THEN Resting("idle") ELSE [@ EXCEPT !.pc = "loaded"]]

\* Mutant: a store that has a document believes in it.
StatOnce(p) ==
  /\ At(p, "stat")
  /\ \/ ~file.exists /\ data' = [data EXCEPT ![p] = Empty] /\ fresh' = fresh \ {p}
        /\ Reloaded(p) /\ UNCHANGED seen
     \/ file.exists /\ data[p] # Empty /\ Reloaded(p) /\ UNCHANGED <<data, stamps>>
     \/ file.exists /\ data[p] = Empty /\ Goes(p, "load") /\ seen' = seen \cup {p}
        /\ UNCHANGED <<data, fresh>>
  /\ raced' = raced \ {p}
  /\ UNCHANGED <<file, clock, issued, breaks, acks, hidden, clobbered>>

\* reloadLocked looks at the stamp: no file, the file it has, or another one.
Stat(p) ==
  /\ At(p, "stat")
  /\ \/ ~file.exists /\ data' = [data EXCEPT ![p] = Empty] /\ fresh' = fresh \ {p}
        /\ Reloaded(p) /\ UNCHANGED seen
     \/ file.exists /\ p \in fresh /\ Reloaded(p) /\ UNCHANGED <<data, stamps>>
     \/ file.exists /\ p \notin fresh /\ Goes(p, "load") /\ seen' = seen \cup {p}
        /\ UNCHANGED <<data, fresh>>
  /\ raced' = raced \ {p}
  /\ UNCHANGED <<file, clock, issued, breaks, acks, hidden, clobbered>>

\* Mutants: the stamp is that of the file after it was read; a file that cannot
\* be read is passed over.
ReadThenStat(p) ==
  /\ At(p, "load") /\ file.ok
  /\ \/ data' = [data EXCEPT ![p] = file.doc] /\ fresh' = fresh \cup {p}
     \/ p \notin seen /\ UNCHANGED data /\ fresh' = fresh \cup {p}
  /\ seen' = seen \ {p} /\ Reloaded(p) /\ hidden' = hidden \ {p}
  /\ UNCHANGED <<file, clock, issued, breaks, acks, raced, clobbered>>

ReadOrKeep(p) ==
  /\ At(p, "load")
  /\ data' = IF file.ok THEN [data EXCEPT ![p] = file.doc] ELSE data
  /\ fresh' = IF file.ok /\ p \in seen THEN fresh \cup {p} ELSE fresh
  /\ seen' = seen \ {p} /\ Reloaded(p) /\ hidden' = hidden \ {p}
  /\ UNCHANGED <<file, clock, issued, breaks, acks, raced, clobbered>>

\* ... and reads and parses it.  The stamp is the one taken before.
ReadFile(p) ==
  /\ At(p, "load") /\ file.ok
  /\ data' = [data EXCEPT ![p] = file.doc]
  /\ fresh' = IF p \in seen THEN fresh \cup {p} ELSE fresh
  /\ seen' = seen \ {p} /\ Reloaded(p) /\ hidden' = hidden \ {p}
  /\ UNCHANGED <<file, clock, issued, breaks, acks, raced, clobbered>>

\* Too large, unreadable or not JSON: the call fails and nothing else changes.
ReadFails(p) ==
  /\ At(p, "load") /\ ~file.ok
  /\ seen' = seen \ {p} /\ Ends(p)
  /\ UNCHANGED <<file, data, fresh, clock, issued, breaks, acks, races>>

-----------------------------------------------------------------------------
(* mutate: fn changes a clone, the clone is written, memory follows.       *)

Setting == {p \in Stores : call[p].op = "SetAdminPassword"}

\* A secret is made, and a password hashed, before a.mu is taken.
Mutate(p, op) ==
  /\ At(p, "idle")
  /\ \/ op \in Issues /\ issued < MaxTokens
        /\ issued' = issued + 1 /\ Begin(p, op, issued + 1)
     \/ op = "RevokeAPIToken" /\ UNCHANGED issued
        /\ \E t \in 1 .. issued : Begin(p, op, t)
     \/ op = "SetAdminPassword" /\ clock + Cardinality(Setting) < MaxClock
        /\ UNCHANGED issued /\ Begin(p, op, NoToken)
     \/ op = "RevokeAgentToken" /\ UNCHANGED issued /\ Begin(p, op, NoToken)

\* issueToken (rotation replaces the agent's token), RevokeAPIToken,
\* RevokeAgentToken and SetAdminPassword, which takes the time.
Changed(doc, op, token) ==
  CASE op = "IssueAPIToken"    -> [doc EXCEPT !.api = @ \cup {token}]
    [] op = "IssueAgentToken"  -> [doc EXCEPT !.agent = token]
    [] op = "RevokeAPIToken"   -> [doc EXCEPT !.api = @ \ {token}]
    [] op = "RevokeAgentToken" -> [doc EXCEPT !.agent = NoToken]
    [] op = "SetAdminPassword" -> [doc EXCEPT !.admin = clock + 1]

NotFound(doc, op, token) ==
  \/ op = "RevokeAPIToken" /\ token \notin doc.api
  \/ op = "RevokeAgentToken" /\ doc.agent = NoToken

Change(p) ==
  /\ At(p, "loaded") /\ call[p].op \in Mutations
  /\ IF NotFound(data[p], call[p].op, call[p].token) THEN Ends(p)
     ELSE call' = [call EXCEPT ![p].pc = "write",
                     ![p].next = Changed(data[p], call[p].op, call[p].token)]
  /\ clock' = IF call[p].op = "SetAdminPassword" THEN clock + 1 ELSE clock
  /\ UNCHANGED <<file, data, stamps, issued, breaks, acks, races>>

\* The file is replaced, and no stamp is the file's.  Whoever of the others is
\* between its read and its write is overtaken, and whoever is between its
\* write and its stat will take this file for its own.
Replace(doc, ok, others) ==
  /\ file' = [doc |-> doc, exists |-> TRUE, ok |-> ok] /\ fresh' = {} /\ seen' = {}
  /\ raced' = (raced \cup {q \in others : At(q, "loaded") \/ At(q, "write")}) \cap others
  /\ hidden' = (hidden \cup {q \in others : At(q, "restat")}) \cap others

\* What the change takes away.
Removed(p) == TokensOf(data[p]) \ TokensOf(call[p].next)

\* writeFileAtomicSync: failed, done, or failed after the rename.
Write(p) ==
  /\ At(p, "write")
  /\ \/ Ends(p) /\ UNCHANGED <<file, stamps, races, live>>
     \/ /\ Goes(p, "restat") \/ Ends(p)
        /\ Replace(call[p].next, TRUE, Stores \ {p})
        /\ clobbered' = (clobbered \/ p \in raced \cup hidden)
        /\ live' = live \ Removed(p)
  /\ UNCHANGED <<data, clock, issued, breaks, dead, password>>

\* Memory gets the document, and the stamp of the file as it is by now; a stat
\* that fails leaves no stamp.  The caller is told.
Restat(p) ==
  /\ At(p, "restat")
  /\ data' = [data EXCEPT ![p] = call[p].next] /\ fresh' \in {fresh, fresh \cup {p}}
  /\ LET told(op) == call[p].op = op /\ p \notin hidden
     IN  /\ live' = IF \E op \in Issues : told(op) THEN live \cup {call[p].token} ELSE live
         /\ password' = IF told("SetAdminPassword") THEN call[p].next.admin ELSE password
  /\ dead' = dead \cup Removed(p)
  /\ Ends(p)
  /\ UNCHANGED <<file, seen, clock, issued, breaks, races>>

-----------------------------------------------------------------------------
\* Somebody spoils the file, by hand or with a full disk, and repairs it.
Spoil ==
  /\ file.exists /\ breaks < MaxBreaks /\ file.ok
  /\ breaks' = breaks + 1 /\ Replace(file.doc, FALSE, Stores)
  /\ UNCHANGED <<data, call, clock, issued, acks, clobbered>>

Repair ==
  /\ ~file.ok /\ Replace(file.doc, TRUE, Stores)
  /\ UNCHANGED <<data, call, clock, issued, breaks, acks, clobbered>>

-----------------------------------------------------------------------------
(* Properties                                                              *)

\* A stamp can be trusted: the store that has the file's stamp has the file's
\* document, whoever replaced it and whenever, except in the window between a
\* store's own write and the stat after it.
FreshIsCurrent ==
  \A p \in fresh \ hidden : file.ok /\ data[p] = file.doc

\* mutate "re-reads the file, applies the change, and writes it back", so what
\* any process was told stands: a confirmed token is in the file until it is
\* revoked, a revoked or replaced one never returns, and a password is not
\* older than the last confirmed one.  Processes share no lock; only a write
\* that came between another's read and write can be undone.
ConfirmedStands ==
  ~clobbered =>
    /\ live \subseteq TokensOf(file.doc) /\ dead \cap TokensOf(file.doc) = {}
    /\ password <= file.doc.admin
=============================================================================
