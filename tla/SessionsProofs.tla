--------------------------- MODULE SessionsProofs ---------------------------
(***************************************************************************)
(* Credentials and sessions, proved for any number of stores, clients,     *)
(* tokens and passwords.                                                   *)
(*                                                                         *)
(* A store follows three promises.  A stamp that is the file's means the   *)
(* file's document (InvStamp); a call that was not overtaken works on the  *)
(* file's document (InvCall), so that its write adds only its own token    *)
(* and takes only what it removes; and a token under way is in nobody's    *)
(* document yet (InvToken), so that no removal can mean it.  The           *)
(* confirmations (ConfirmedStands) follow, and with them what the server   *)
(* tells a client whose question came after a confirmation (InvQuestion).  *)
(***************************************************************************)
EXTENDS Sessions, FiniteSetTheorems, TLAPS

USE CredentialsAssumption, SessionsAssumption DEF Stores, Tokens, NoToken

-----------------------------------------------------------------------------
(* The stores.                                                             *)

\* Calls that will take a moment of the clock.
Pending == {p \in Stores : call[p].op = "SetAdminPassword" /\ call[p].pc \in {"stat", "load", "loaded"}}
InvClock == clock + Cardinality(Pending) <= MaxClock

\* Every document, written or under way, is of the past.
Past(doc) == TokensOf(doc) \subseteq 1 .. issued /\ doc.admin <= clock
InvPast(p) == Past(data[p]) /\ Past(call[p].next)

\* The call has a document to write, or has written it.
Writing(p) == call[p].pc \in {"write", "restat"}

\* The token p issues is in no document before it is written.
Unwritten(p) == call[p].op \in Issues /\ call[p].pc \in {"stat", "load", "loaded", "write"}
InvToken(p) ==
  Unwritten(p) =>
    /\ call[p].token \in 1 .. issued /\ call[p].token \notin TokensOf(file.doc) \cup dead
    /\ \A q \in Stores :
         /\ call[p].token \notin TokensOf(data[q])
         /\ q # p => call[p].token \notin TokensOf(call[q].next)
         /\ q # p /\ Unwritten(q) => call[p].token # call[q].token

\* A call that nobody overtook has the file's document; what it writes is that,
\* with its own token, less what it removes.
InvCall(p) ==
  /\ call[p].pc \in {"loaded", "write"} /\ p \notin raced \cup hidden => data[p] = file.doc
  /\ Writing(p) =>
       /\ TokensOf(call[p].next) \subseteq TokensOf(data[p]) \cup (IF call[p].op \in Issues THEN {call[p].token} ELSE {})
       /\ data[p].admin <= call[p].next.admin
       /\ call[p].op \in Issues => call[p].token \in TokensOf(call[p].next)
  /\ ~Writing(p) => call[p].next = Empty
  /\ call[p].pc = "restat" =>
       /\ p \notin hidden => file.ok /\ file.doc = call[p].next
       /\ clobbered \/ Removed(p) \cap TokensOf(file.doc) = {}

InvStamp(p) == p \in fresh \ hidden => file.ok /\ data[p] = file.doc

InvStores ==
  /\ InvClock /\ Past(file.doc) /\ dead \subseteq 1 .. issued /\ ConfirmedStands
  /\ ~file.exists => file.doc = Empty
  /\ \A p \in Stores : InvPast(p) /\ InvToken(p) /\ InvCall(p) /\ InvStamp(p)

-----------------------------------------------------------------------------
(* The clients.                                                            *)

\* A question is being answered to a client that waits for it; a request is late
\* only if its token was revoked when it came.
InvRequest(r) ==
  /\ reader = r => req[r].pc \in Asking
  /\ req[r].late => req[r].token \in dead /\ req[r].pc \in {"agent", "api", "in", "agentIn"}
  /\ req[r].pc = "cookie" => clobbered \/ req[r].floor <= password
  /\ req[r].pc \in {"sweep", "get"} => clobbered \/ req[r].blind \/ req[r].floor <= req[r].ver
  /\ req[r].pc = "get" => session[r] = NoSession \/ req[r].ver <= session[r].created

\* The document the server answers from is not older than the question.
InvQuestion(r) ==
  At(Server, "loaded") /\ reader = r /\ ~clobbered /\ Server \notin hidden =>
    /\ req[r].late => req[r].token \notin TokensOf(data[Server])
    /\ req[r].pc = "cookie" => req[r].floor <= data[Server].admin

InvClients == \A r \in Clients : InvRequest(r) /\ InvQuestion(r)

IInv == TypeOK /\ InvStores /\ InvClients

-----------------------------------------------------------------------------
(* The operators.                                                          *)

LEMMA EmptyLaw == Empty \in Document /\ TokensOf(Empty) = {} /\ Empty.admin = 0
BY DEF Empty, Document, TokensOf

LEMMA RestingLaw ==
  ASSUME NEW place \in Places
  PROVE  /\ Resting(place) \in Calls /\ Resting(place).pc = place
         /\ Resting(place).op = "read" /\ Resting(place).next = Empty
BY EmptyLaw DEF Resting, Calls

\* What a change does to a document: it may add the token that is issued, it
\* adds no other, and it never makes the password older.
LEMMA ChangedLaw ==
  ASSUME NEW doc \in Document, NEW op \in Mutations, NEW t \in Tokens \cup {NoToken},
         op \in Issues => t \in Tokens,
         clock \in Nat, op = "SetAdminPassword" => clock + 1 <= MaxClock, doc.admin <= clock
  PROVE  /\ Changed(doc, op, t) \in Document
         /\ TokensOf(Changed(doc, op, t)) \subseteq TokensOf(doc) \cup (IF op \in Issues THEN {t} ELSE {})
         /\ op \in Issues => t \in TokensOf(Changed(doc, op, t))
         /\ doc.admin <= Changed(doc, op, t).admin
         /\ Changed(doc, op, t).admin <= IF op = "SetAdminPassword" THEN clock + 1 ELSE clock
<1> USE DEF TokensOf, Issues
<1>0. /\ doc.admin \in 0 .. MaxClock /\ doc.api \in SUBSET Tokens /\ doc.agent \in Tokens \cup {NoToken}
      /\ doc = [admin |-> doc.admin, api |-> doc.api, agent |-> doc.agent]
      /\ MaxClock \in Nat /\ MaxTokens \in Nat
  BY DEF Document
<1>1. CASE op = "IssueAPIToken"
  <2>1. Changed(doc, op, t) = [doc EXCEPT !.api = @ \cup {t}]  BY <1>1 DEF Changed
  <2> QED BY <1>0, <1>1, <2>1 DEF Document
<1>2. CASE op = "IssueAgentToken"
  <2>1. Changed(doc, op, t) = [doc EXCEPT !.agent = t]  BY <1>2 DEF Changed
  <2> QED BY <1>0, <1>2, <2>1 DEF Document
<1>3. CASE op = "RevokeAPIToken"
  <2>1. Changed(doc, op, t) = [doc EXCEPT !.api = @ \ {t}]  BY <1>3 DEF Changed
  <2> QED BY <1>0, <1>3, <2>1 DEF Document
<1>4. CASE op = "RevokeAgentToken"
  <2>1. Changed(doc, op, t) = [doc EXCEPT !.agent = NoToken]  BY <1>4 DEF Changed
  <2> QED BY <1>0, <1>4, <2>1 DEF Document
<1>5. CASE op = "SetAdminPassword"
  <2>1. Changed(doc, op, t) = [doc EXCEPT !.admin = clock + 1]  BY <1>5 DEF Changed
  <2>2. clock + 1 \in 0 .. MaxClock  BY <1>0, <1>5
  <2> QED BY <1>0, <1>5, <2>1, <2>2 DEF Document
<1> QED BY <1>1, <1>2, <1>3, <1>4, <1>5 DEF Mutations

LEMMA StoresCount ==
  ASSUME NEW S \in SUBSET Stores
  PROVE  IsFiniteSet(S) /\ Cardinality(S) \in Nat
<1>1. IsFiniteSet(Stores)  BY FS_AddElement, Zenon
<1> QED BY <1>1, FS_Subset, FS_CardinalityType, Zenon

\* Nobody new wants a moment of the clock.
LEMMA ClockStays ==
  ASSUME InvClock, clock \in Nat, UNCHANGED clock, Pending' \in SUBSET Pending
  PROVE  InvClock'
<1> DEFINE S == Pending
           T == Pending'
<1>1. S \in SUBSET Stores  BY DEF Pending
<1>2. IsFiniteSet(S) /\ Cardinality(S) \in Nat /\ Cardinality(T) \in Nat
  BY <1>1, StoresCount, Zenon
<1>3. Cardinality(T) <= Cardinality(S)  BY <1>2, FS_Subset, Zenon
<1>4. clock + Cardinality(S) <= MaxClock  BY DEF InvClock
<1>5. clock + Cardinality(T) <= MaxClock
  <2> HIDE DEF S, T
  <2> QED BY <1>2, <1>3, <1>4
<1> QED BY <1>5 DEF InvClock

\* One more does, and there is room for it.
LEMMA ClockReserved ==
  ASSUME InvClock, clock \in Nat, UNCHANGED clock, NEW p \in Stores, Pending' \in SUBSET (Pending \cup {p}),
         clock + Cardinality(Setting) < MaxClock
  PROVE  InvClock'
<1> DEFINE S == Setting
           T == Pending'
           R == Pending
<1>1. S \in SUBSET Stores /\ R \in SUBSET S /\ R \in SUBSET Stores /\ T \in SUBSET (S \cup {p})
  BY DEF Pending, Setting
<1>2. /\ IsFiniteSet(S) /\ Cardinality(S) \in Nat
      /\ IsFiniteSet(S \cup {p}) /\ Cardinality(S \cup {p}) \in Nat /\ Cardinality(T) \in Nat
  BY <1>1, StoresCount, S \cup {p} \in SUBSET Stores, T \in SUBSET Stores, Zenon
<1>3. Cardinality(T) <= Cardinality(S \cup {p})  BY <1>1, <1>2, FS_Subset, Zenon
<1>4. Cardinality(S \cup {p}) = IF p \in S THEN Cardinality(S) ELSE Cardinality(S) + 1
  BY <1>2, FS_AddElement, Zenon
<1>5. clock + Cardinality(T) <= MaxClock
  <2> HIDE DEF S, T
  <2> QED BY <1>2, <1>3, <1>4 DEF S
<1> QED BY <1>5 DEF InvClock

\* One takes what it had reserved.
LEMMA ClockTaken ==
  ASSUME InvClock, clock \in Nat, clock' = clock + 1, NEW p \in Pending, Pending' \in SUBSET (Pending \ {p})
  PROVE  InvClock' /\ clock + 1 <= MaxClock
<1> DEFINE S == Pending
           T == Pending'
<1>1. S \in SUBSET Stores /\ T \in SUBSET (S \ {p}) /\ T \in SUBSET Stores /\ S \ {p} \in SUBSET Stores
  BY DEF Pending
<1>2. /\ IsFiniteSet(S) /\ Cardinality(S) \in Nat /\ Cardinality(T) \in Nat
      /\ IsFiniteSet(S \ {p}) /\ Cardinality(S \ {p}) \in Nat
  BY <1>1, StoresCount, Zenon
<1>3. Cardinality(T) <= Cardinality(S \ {p})  BY <1>1, <1>2, FS_Subset, Zenon
<1>4. Cardinality(S \ {p}) = Cardinality(S) - 1
  <2>1. Cardinality(S \ {p}) = IF p \in S THEN Cardinality(S) - 1 ELSE Cardinality(S)
    BY <1>2, FS_RemoveElement, Zenon
  <2> QED BY <2>1
<1>5. clock + Cardinality(S) <= MaxClock  BY DEF InvClock
<1>6. clock + 1 + Cardinality(T) <= MaxClock /\ clock + 1 <= MaxClock
  <2> HIDE DEF S, T
  <2> QED BY <1>2, <1>3, <1>4, <1>5
<1> QED BY <1>6 DEF InvClock

-----------------------------------------------------------------------------
(* Steps of the stores.                                                    *)

\* What the invariant says of store p alone.
InvOwn(p) == InvPast(p) /\ InvToken(p) /\ InvCall(p) /\ InvStamp(p)

LEMMA StoreFacts ==
  ASSUME CredentialsTypeOK, InvStores
  PROVE  /\ InvClock /\ Past(file.doc) /\ dead \subseteq 1 .. issued /\ ConfirmedStands
         /\ ~file.exists => file.doc = Empty
         /\ file.doc \in Document /\ file.doc.admin \in Nat
         /\ clock \in Nat /\ issued \in Nat /\ password \in Nat
         /\ \A p \in Stores :
              /\ InvOwn(p) /\ data[p] \in Document /\ call[p] \in Calls
              /\ data[p].admin \in Nat /\ call[p].next.admin \in Nat
              /\ call[p].next \in Document /\ call[p].token \in Tokens \cup {NoToken}
BY DEF CredentialsTypeOK, InvStores, InvOwn, Document, Calls

\* A step of store p that leaves the file alone: no document gets a token that
\* another call is about to issue.
LEMMA OwnStep ==
  ASSUME CredentialsTypeOK, InvStores, NEW p \in Stores, UNCHANGED <<file, clobbered>>,
         issued' \in Nat, issued <= issued', clock' \in Nat, clock <= clock',
         dead \subseteq dead', dead' \subseteq dead \cup TokensOf(data[p]),
         \A q \in Stores \ {p} :
           /\ call'[q] = call[q] /\ data'[q] = data[q]
           /\ (q \in raced' <=> q \in raced) /\ (q \in hidden' <=> q \in hidden)
           /\ q \in fresh' => q \in fresh,
         TokensOf(data'[p]) \subseteq
           TokensOf(data[p]) \cup TokensOf(file.doc) \cup TokensOf(call[p].next),
         TokensOf(call'[p].next) \subseteq
           TokensOf(data[p]) \cup (IF Unwritten(p) THEN {call[p].token} ELSE {}) \cup TokensOf(call[p].next),
         Unwritten(p)' => call'[p].token > issued \/ (Unwritten(p) /\ call'[p].token = call[p].token),
         InvClock', ConfirmedStands', InvOwn(p)'
  PROVE  InvStores'
<1>0. /\ Past(file.doc) /\ dead \subseteq 1 .. issued /\ (~file.exists => file.doc = Empty)
      /\ issued \in Nat /\ clock \in Nat /\ file.doc.admin \in Nat
      /\ \A q \in Stores : InvOwn(q) /\ data[q].admin \in Nat /\ call[q].next.admin \in Nat
  BY StoreFacts
<1>1. Past(file.doc)' /\ dead' \subseteq 1 .. issued' /\ (~file'.exists => file'.doc = Empty)
  BY <1>0 DEF Past, InvOwn, InvPast, TokensOf
<1>2. ASSUME NEW q \in Stores \ {p} PROVE InvOwn(q)'
  <2>1. InvPast(q) /\ InvToken(q) /\ InvCall(q) /\ InvStamp(q)  BY <1>0 DEF InvOwn
  <2>2. InvPast(q)'  BY <1>0, <2>1 DEF InvPast, Past, TokensOf
  <2>3. InvCall(q)'  BY <2>1 DEF InvCall, Writing, Removed
  <2>4. InvStamp(q)'  BY <2>1 DEF InvStamp
  <2>5. Unwritten(q)' = Unwritten(q)  BY DEF Unwritten
  <2>6. ASSUME Unwritten(q)' PROVE InvToken(q)'
    <3> DEFINE t == call[q].token
    <3>1. /\ t \in 1 .. issued /\ t \notin TokensOf(file.doc) \cup dead
          /\ \A o \in Stores :
               /\ t \notin TokensOf(data[o])
               /\ o # q => t \notin TokensOf(call[o].next)
               /\ o # q /\ Unwritten(o) => t # call[o].token
      BY <2>1, <2>5, <2>6 DEF InvToken
    <3>2. t \in 1 .. issued' /\ t \notin dead'  BY <1>0, <3>1
    <3>3. t \notin TokensOf(data'[p])  BY <3>1
    <3>4. t \notin TokensOf(call'[p].next)  BY <3>1
    <3>5. Unwritten(p)' => t # call'[p].token  BY <1>0, <3>1
    <3>6. ASSUME NEW o \in Stores
          PROVE  /\ t \notin TokensOf(data'[o])
                 /\ o # q => t \notin TokensOf(call'[o].next)
                 /\ o # q /\ Unwritten(o)' => t # call'[o].token
      BY <3>1, <3>3, <3>4, <3>5 DEF Unwritten
    <3>7. call'[q].token = t  OBVIOUS
    <3> QED BY <3>1, <3>2, <3>6, <3>7 DEF InvToken
  <2> QED BY <2>2, <2>3, <2>4, <2>6 DEF InvOwn, InvToken
<1> QED BY <1>1, <1>2 DEF InvStores, InvOwn

-----------------------------------------------------------------------------
(* How a call moves.                                                       *)

LEMMA EndsLaw ==
  ASSUME call \in [Stores -> Calls], NEW p \in Stores, Ends(p)
  PROVE  /\ call' \in [Stores -> Calls] /\ call'[p].pc \in {"over", "off", "idle"}
         /\ call'[p].op = "read" /\ call'[p].next = Empty
         /\ \A q \in Stores \ {p} : call'[q] = call[q]
<1> DEFINE place == IF p \in Commands THEN "over" ELSE IF call[p].op = "open" THEN "off" ELSE "idle"
<1>1. place \in Places /\ place \in {"over", "off", "idle"}  BY DEF Places
<1>2. call' = [call EXCEPT ![p] = Resting(place)]  BY DEF Ends
<1> HIDE DEF place
<1>3. Resting(place) \in Calls /\ Resting(place).pc = place /\ Resting(place).op = "read" /\ Resting(place).next = Empty
  BY <1>1, RestingLaw
<1> QED BY <1>1, <1>2, <1>3

LEMMA GoesLaw ==
  ASSUME call \in [Stores -> Calls], NEW p \in Stores, NEW place \in Places, Goes(p, place)
  PROVE  /\ call' \in [Stores -> Calls] /\ call'[p].pc = place
         /\ call'[p].op = call[p].op /\ call'[p].next = call[p].next /\ call'[p].token = call[p].token
         /\ \A q \in Stores \ {p} : call'[q] = call[q]
<1> DEFINE new == [call[p] EXCEPT !.pc = place]
<1>1. call' = [call EXCEPT ![p] = new]  BY DEF Goes
<1>2. new \in Calls /\ new.pc = place /\ new.op = call[p].op /\ new.next = call[p].next /\ new.token = call[p].token
  BY DEF Calls
<1> HIDE DEF new
<1> QED BY <1>1, <1>2

LEMMA ReloadedLaw ==
  ASSUME call \in [Stores -> Calls], NEW p \in Stores, Reloaded(p), call[p].next = Empty
  PROVE  /\ call' \in [Stores -> Calls] /\ call'[p].next = Empty
         /\ \/ call'[p].pc = "idle" /\ call'[p].op = "read"
            \/ /\ call'[p].pc = "loaded" /\ call'[p].op = call[p].op /\ call'[p].token = call[p].token
         /\ \A q \in Stores \ {p} : call'[q] = call[q]
<1> DEFINE new == IF call[p].op = "open" THEN Resting("idle") ELSE [call[p] EXCEPT !.pc = "loaded"]
<1>1. call' = [call EXCEPT ![p] = new]  BY DEF Reloaded
<1>2. /\ new \in Calls /\ new.next = Empty
      /\ \/ new.pc = "idle" /\ new.op = "read"
         \/ new.pc = "loaded" /\ new.op = call[p].op /\ new.token = call[p].token
  <2>1. CASE call[p].op = "open"
    <3>1. "idle" \in Places  BY DEF Places
    <3> QED BY <2>1, <3>1, RestingLaw
  <2>2. CASE call[p].op # "open"
    BY <2>2 DEF Calls, Places
  <2> QED BY <2>1, <2>2
<1> HIDE DEF new
<1> QED BY <1>1, <1>2

LEMMA BeginLaw ==
  ASSUME call \in [Stores -> Calls], NEW p \in Stores, NEW op \in Mutations \cup {"open", "read"},
         NEW t \in Tokens \cup {NoToken}, Begin(p, op, t)
  PROVE  /\ call' \in [Stores -> Calls] /\ call'[p].pc = "stat" /\ call'[p].op = op
         /\ call'[p].token = t /\ call'[p].next = Empty
         /\ \A q \in Stores \ {p} : call'[q] = call[q]
<1> DEFINE new == [Resting("stat") EXCEPT !.op = op, !.token = t]
<1>1. call' = [call EXCEPT ![p] = new]  BY DEF Begin
<1>2. new \in Calls /\ new.pc = "stat" /\ new.op = op /\ new.token = t /\ new.next = Empty
  BY EmptyLaw DEF Calls, Places, Resting
<1> HIDE DEF new
<1> QED BY <1>1, <1>2

-----------------------------------------------------------------------------
(* What a step of the stores leaves to the clients: confirmations grow,    *)
(* and the server's document is the file's, or the one it had.             *)

Grows ==
  /\ clobbered => clobbered'
  /\ dead \subseteq dead'
  /\ clobbered' \/ password <= password'
  /\ At(Server, "loaded")' /\ Server \notin hidden' =>
       \/ data'[Server] = file'.doc
       \/ At(Server, "loaded") /\ Server \notin hidden /\ data'[Server] = data[Server]

\* A call begins, looks at the file, reads it, or ends: what it then works on is
\* the file's document.
LEMMA MoveStep ==
  ASSUME CredentialsTypeOK, InvStores, NEW p \in Stores,
         UNCHANGED <<file, clock, acks, clobbered>>, breaks' = breaks,
         issued' \in 0 .. MaxTokens, issued <= issued',
         seen' \subseteq Stores, fresh' \subseteq Stores, hidden' \subseteq Stores, raced' \subseteq Stores,
         data' \in [Stores -> Document], data'[p] \in {data[p], Empty, file.doc},
         p \in fresh' \ hidden' => file.ok /\ data'[p] = file.doc,
         call' \in [Stores -> Calls], call'[p].next = Empty,
         call'[p].pc \in {"off", "over", "idle", "stat", "load", "loaded"},
         call'[p].pc = "loaded" /\ p \notin hidden' => data'[p] = file.doc,
         Unwritten(p)' =>
           \/ call'[p].token = issued + 1 /\ issued' = issued + 1
           \/ Unwritten(p) /\ call'[p].token = call[p].token,
         \A q \in Stores \ {p} :
           /\ call'[q] = call[q] /\ data'[q] = data[q]
           /\ (q \in raced' <=> q \in raced) /\ (q \in hidden' <=> q \in hidden)
           /\ q \in fresh' => q \in fresh,
         InvClock'
  PROVE  CredentialsTypeOK' /\ InvStores' /\ Grows
<1>1. CredentialsTypeOK'  BY DEF CredentialsTypeOK, acks
<1>2. /\ issued \in Nat /\ clock \in Nat /\ InvOwn(p) /\ dead \subseteq 1 .. issued /\ ConfirmedStands
      /\ Past(file.doc) /\ password \in Nat /\ data[p].admin \in Nat
      /\ \A q \in Stores : InvOwn(q)
  BY StoreFacts
<1>3. ConfirmedStands'  BY <1>2 DEF ConfirmedStands, acks
<1>4. Grows  BY <1>2 DEF Grows, At, acks
<1>5. InvPast(p)'
  BY <1>2, EmptyLaw DEF InvOwn, InvPast, Past, acks
<1>5a. /\ TokensOf(data'[p]) \subseteq TokensOf(data[p]) \cup TokensOf(file.doc)
       /\ \A q \in Stores \ {p} : TokensOf(data'[q]) = TokensOf(data[q])
  BY EmptyLaw
<1>6. InvCall(p)'  BY DEF InvCall, Writing
<1>7. InvStamp(p)'  BY <1>2 DEF InvOwn, InvStamp
<1>8. InvToken(p)'
  <2>1. SUFFICES ASSUME Unwritten(p)' PROVE InvToken(p)'  BY DEF InvToken
  <2>2. CASE call'[p].token = issued + 1 /\ issued' = issued + 1
    <3> DEFINE t == issued + 1
    <3>1. \A S : S \subseteq 1 .. issued => t \notin S  BY <1>2
    <3>2. t \notin TokensOf(file.doc) \cup dead  BY <1>2, <3>1 DEF Past
    <3>3. ASSUME NEW q \in Stores
          PROVE  /\ t \notin TokensOf(data[q]) /\ t \notin TokensOf(call[q].next)
                 /\ Unwritten(q) => t # call[q].token
      <4>1. InvPast(q) /\ InvToken(q)  BY <1>2 DEF InvOwn
      <4>2. t \notin TokensOf(data[q]) /\ t \notin TokensOf(call[q].next)
        BY <3>1, <4>1 DEF InvPast, Past
      <4>3. Unwritten(q) => t # call[q].token  BY <1>2, <4>1 DEF InvToken
      <4> QED BY <4>2, <4>3
    <3>4. t \in 1 .. issued'  BY <1>2, <2>2
    <3>5. \A q \in Stores : q # p => call'[q] = call[q] /\ (Unwritten(q)' <=> Unwritten(q))  BY DEF Unwritten
    <3>6. call'[p].token = t  BY <2>2
    <3> HIDE DEF t
    <3>7. ASSUME NEW q \in Stores
          PROVE  /\ t \notin TokensOf(data'[q])
                 /\ (q # p => t \notin TokensOf(call'[q].next))
                 /\ (q # p /\ Unwritten(q)' => t # call'[q].token)
      BY <1>5a, <3>2, <3>3, <3>5
    <3> QED BY <3>2, <3>4, <3>6, <3>7 DEF InvToken, acks
  <2>3. CASE Unwritten(p) /\ call'[p].token = call[p].token
    <3> DEFINE t == call[p].token
    <3>1. /\ t \in 1 .. issued /\ t \notin TokensOf(file.doc) \cup dead
          /\ \A q \in Stores :
               /\ t \notin TokensOf(data[q])
               /\ q # p => t \notin TokensOf(call[q].next)
               /\ q # p /\ Unwritten(q) => t # call[q].token
      BY <1>2, <2>3 DEF InvOwn, InvToken
    <3>5. \A q \in Stores : q # p => call'[q] = call[q] /\ (Unwritten(q)' <=> Unwritten(q))  BY DEF Unwritten
    <3>6. call'[p].token = t /\ t \in 1 .. issued'  BY <1>2, <2>3, <3>1
    <3> HIDE DEF t
    <3>7. ASSUME NEW q \in Stores
          PROVE  /\ t \notin TokensOf(data'[q])
                 /\ (q # p => t \notin TokensOf(call'[q].next))
                 /\ (q # p /\ Unwritten(q)' => t # call'[q].token)
      BY <1>5a, <3>1, <3>5
    <3> QED BY <3>1, <3>6, <3>7 DEF InvToken, acks
  <2> QED BY <2>1, <2>2, <2>3
<1>9. InvOwn(p)'  BY <1>5, <1>6, <1>7, <1>8 DEF InvOwn
<1>10. TokensOf(Empty) = {}  BY EmptyLaw
<1>11. /\ TokensOf(data'[p]) \subseteq TokensOf(data[p]) \cup TokensOf(file.doc) \cup TokensOf(call[p].next)
       /\ TokensOf(call'[p].next) \subseteq
            TokensOf(data[p]) \cup (IF Unwritten(p) THEN {call[p].token} ELSE {}) \cup TokensOf(call[p].next)
  BY <1>10, <1>5a
<1>12. Unwritten(p)' => call'[p].token > issued \/ (Unwritten(p) /\ call'[p].token = call[p].token)
  BY <1>2
<1>13. /\ issued' \in Nat /\ clock' \in Nat /\ clock <= clock' /\ dead \subseteq dead'
       /\ dead' \subseteq dead \cup TokensOf(data[p])
       /\ UNCHANGED <<file, clobbered>>
  BY <1>2 DEF acks
<1>15. InvStores'
  BY <1>3, <1>9, <1>11, <1>12, <1>13, OwnStep
<1> QED BY <1>1, <1>4, <1>15

-----------------------------------------------------------------------------
(* Every step of a store that leaves the file alone until it writes.       *)

LEMMA BeginStep ==
  ASSUME CredentialsTypeOK, InvStores, NEW p \in Stores, NEW op \in {"open", "read"},
         Begin(p, op, NoToken), UNCHANGED issued
  PROVE  CredentialsTypeOK' /\ InvStores' /\ Grows
<1> USE DEF CredentialsTypeOK
<1>1. /\ call' \in [Stores -> Calls] /\ call'[p].pc = "stat" /\ call'[p].op = op /\ call'[p].next = Empty
      /\ \A q \in Stores \ {p} : call'[q] = call[q]
  BY BeginLaw
<1>2. UNCHANGED <<file, data, fresh, seen, clock, breaks, acks, raced, hidden, clobbered>>
  BY DEF Begin, stamps, races
<1>3. Pending' \in SUBSET Pending  BY <1>1, <1>2 DEF Pending
<1>4. InvClock'  BY <1>2, <1>3, ClockStays, StoreFacts
<1>5. InvStamp(p)  BY StoreFacts DEF InvOwn
<1> QED BY <1>1, <1>2, <1>4, <1>5, MoveStep, StoreFacts DEF Unwritten, Issues, InvStamp

LEMMA EndStep ==
  ASSUME CredentialsTypeOK, InvStores, NEW p \in Stores, Ends(p), seen' \subseteq Stores,
         UNCHANGED <<file, data, fresh, clock, issued, breaks, acks, races>>
  PROVE  CredentialsTypeOK' /\ InvStores' /\ Grows
<1> USE DEF CredentialsTypeOK
<1>1. /\ call' \in [Stores -> Calls] /\ call'[p].pc \in {"over", "off", "idle"} /\ call'[p].op = "read"
      /\ call'[p].next = Empty /\ \A q \in Stores \ {p} : call'[q] = call[q]
  BY EndsLaw
<1>2. UNCHANGED <<raced, hidden, clobbered>>  BY DEF races
<1>3. Pending' \in SUBSET Pending  BY <1>1, <1>2 DEF Pending
<1>4. InvClock'  BY <1>2, <1>3, ClockStays, StoreFacts
<1>5. InvStamp(p)  BY StoreFacts DEF InvOwn
<1> QED BY <1>1, <1>2, <1>4, <1>5, MoveStep, StoreFacts DEF Unwritten, Issues, InvStamp

LEMMA StatStep ==
  ASSUME CredentialsTypeOK, InvStores, NEW p \in Stores, Stat(p)
  PROVE  CredentialsTypeOK' /\ InvStores' /\ Grows
<1> USE DEF CredentialsTypeOK
<1>0. /\ InvStamp(p) /\ call[p].pc = "stat" /\ (~file.exists => file.doc = Empty)
      /\ issued \in Nat /\ clock \in Nat /\ InvClock
  BY StoreFacts DEF InvOwn, Stat, At
<1>1. call[p].next = Empty  BY <1>0, StoreFacts DEF InvOwn, InvCall, Writing
<1>2. UNCHANGED <<file, clock, issued, breaks, acks, hidden, clobbered>> /\ raced' = raced \ {p}
  BY DEF Stat
<1>3. CASE ~file.exists /\ data' = [data EXCEPT ![p] = Empty] /\ fresh' = fresh \ {p} /\ Reloaded(p) /\ UNCHANGED seen
  <2>1. /\ call' \in [Stores -> Calls] /\ call'[p].next = Empty
        /\ \/ call'[p].pc = "idle" /\ call'[p].op = "read"
           \/ call'[p].pc = "loaded" /\ call'[p].op = call[p].op /\ call'[p].token = call[p].token
        /\ \A q \in Stores \ {p} : call'[q] = call[q]
    BY <1>1, <1>3, ReloadedLaw
  <2>2. InvClock'  BY <1>0, <1>2, <2>1, ClockStays DEF Pending
  <2>3. Unwritten(p)' => Unwritten(p) /\ call'[p].token = call[p].token  BY <1>0, <2>1 DEF Unwritten, Issues
  <2>4. data' \in [Stores -> Document] /\ data'[p] = file.doc  BY <1>0, <1>3, EmptyLaw
  <2> QED BY <1>0, <1>2, <1>3, <2>1, <2>2, <2>3, <2>4, MoveStep
<1>4. CASE file.exists /\ p \in fresh /\ Reloaded(p) /\ UNCHANGED <<data, stamps>>
  <2>1. /\ call' \in [Stores -> Calls] /\ call'[p].next = Empty
        /\ \/ call'[p].pc = "idle" /\ call'[p].op = "read"
           \/ call'[p].pc = "loaded" /\ call'[p].op = call[p].op /\ call'[p].token = call[p].token
        /\ \A q \in Stores \ {p} : call'[q] = call[q]
    BY <1>1, <1>4, ReloadedLaw
  <2>2. InvClock'  BY <1>0, <1>2, <2>1, ClockStays DEF Pending
  <2>3. Unwritten(p)' => Unwritten(p) /\ call'[p].token = call[p].token  BY <1>0, <2>1 DEF Unwritten, Issues
  <2>4. UNCHANGED <<data, fresh, seen>>  BY <1>4 DEF stamps
  <2> QED BY <1>0, <1>2, <1>4, <2>1, <2>2, <2>3, <2>4, MoveStep DEF InvStamp
<1>5. CASE file.exists /\ p \notin fresh /\ Goes(p, "load") /\ seen' = seen \cup {p} /\ UNCHANGED <<data, fresh>>
  <2>1. /\ call' \in [Stores -> Calls] /\ call'[p].next = Empty
        /\ call'[p].pc = "load" /\ call'[p].op = call[p].op /\ call'[p].token = call[p].token
        /\ \A q \in Stores \ {p} : call'[q] = call[q]
    BY <1>1, <1>5, GoesLaw DEF Places
  <2>2. InvClock'  BY <1>0, <1>2, <2>1, ClockStays DEF Pending
  <2>3. Unwritten(p)' => Unwritten(p) /\ call'[p].token = call[p].token  BY <1>0, <2>1 DEF Unwritten
  <2> QED BY <1>0, <1>2, <1>5, <2>1, <2>2, <2>3, MoveStep
<1> QED BY <1>3, <1>4, <1>5 DEF Stat

LEMMA ReadStep ==
  ASSUME CredentialsTypeOK, InvStores, NEW p \in Stores, ReadFile(p)
  PROVE  CredentialsTypeOK' /\ InvStores' /\ Grows
<1> USE DEF CredentialsTypeOK
<1>0. /\ call[p].pc = "load" /\ file.ok /\ issued \in Nat /\ clock \in Nat /\ InvClock /\ file.doc \in Document
  BY StoreFacts DEF ReadFile, At
<1>1. call[p].next = Empty  BY <1>0, StoreFacts DEF InvOwn, InvCall, Writing
<1>2. /\ UNCHANGED <<file, clock, issued, breaks, acks, raced, clobbered>> /\ hidden' = hidden \ {p}
      /\ fresh' \subseteq fresh \cup {p} /\ seen' = seen \ {p} /\ data' = [data EXCEPT ![p] = file.doc]
  BY DEF ReadFile
<1>3. /\ call' \in [Stores -> Calls] /\ call'[p].next = Empty
      /\ \/ call'[p].pc = "idle" /\ call'[p].op = "read"
         \/ call'[p].pc = "loaded" /\ call'[p].op = call[p].op /\ call'[p].token = call[p].token
      /\ \A q \in Stores \ {p} : call'[q] = call[q]
  BY <1>1, ReloadedLaw DEF ReadFile
<1>4. InvClock'  BY <1>0, <1>2, <1>3, ClockStays DEF Pending
<1>5. Unwritten(p)' => Unwritten(p) /\ call'[p].token = call[p].token  BY <1>0, <1>3 DEF Unwritten, Issues
<1>6. data' \in [Stores -> Document] /\ data'[p] = file.doc  BY <1>0, <1>2
<1> QED BY <1>0, <1>2, <1>3, <1>4, <1>5, <1>6, MoveStep

LEMMA ReadFailsStep ==
  ASSUME CredentialsTypeOK, InvStores, NEW p \in Stores, ReadFails(p)
  PROVE  CredentialsTypeOK' /\ InvStores' /\ Grows
BY EndStep DEF ReadFails, CredentialsTypeOK

\* A token that is issued is new.
LEMMA MutateStep ==
  ASSUME CredentialsTypeOK, InvStores, NEW p \in Stores, NEW op \in Mutations, Mutate(p, op)
  PROVE  CredentialsTypeOK' /\ InvStores' /\ Grows
<1> USE DEF CredentialsTypeOK
<1>0. InvStamp(p) /\ InvClock /\ issued \in Nat /\ clock \in Nat  BY StoreFacts DEF InvOwn
<1>1. PICK t \in Tokens \cup {NoToken} :
        /\ Begin(p, op, t) /\ issued' \in 0 .. MaxTokens /\ issued <= issued'
        /\ op \in Issues => t = issued + 1 /\ issued' = issued + 1
        /\ op = "SetAdminPassword" => clock + Cardinality(Setting) < MaxClock
  BY <1>0 DEF Mutate, Issues
<1>2. /\ call' \in [Stores -> Calls] /\ call'[p].pc = "stat" /\ call'[p].op = op
      /\ call'[p].token = t /\ call'[p].next = Empty
      /\ \A q \in Stores \ {p} : call'[q] = call[q]
  BY <1>1, BeginLaw
<1>3. UNCHANGED <<file, data, fresh, seen, clock, breaks, acks, raced, hidden, clobbered>>
  BY <1>1 DEF Begin, stamps, races
<1>4. InvClock'
  <2>1. CASE op = "SetAdminPassword"
    <3>1. Pending' \in SUBSET (Pending \cup {p})  BY <1>2 DEF Pending
    <3> QED BY <1>0, <1>1, <1>3, <2>1, <3>1, ClockReserved
  <2>2. CASE op # "SetAdminPassword"
    <3>1. Pending' \in SUBSET Pending  BY <1>2, <2>2 DEF Pending
    <3> QED BY <1>0, <1>3, <3>1, ClockStays
  <2> QED BY <2>1, <2>2
<1>5. Unwritten(p)' => call'[p].token = issued + 1 /\ issued' = issued + 1  BY <1>1, <1>2 DEF Unwritten
<1> QED BY <1>0, <1>1, <1>2, <1>3, <1>4, <1>5, MoveStep DEF InvStamp

\* fn makes the new document: it adds the call's own token and no other, and
\* takes the moment that was reserved for it.
LEMMA ChangeStep ==
  ASSUME CredentialsTypeOK, InvStores, NEW p \in Stores, Change(p)
  PROVE  CredentialsTypeOK' /\ InvStores' /\ Grows
<1> DEFINE op == call[p].op
           t == call[p].token
           doc == data[p]
<1>0. /\ InvPast(p) /\ InvToken(p) /\ InvCall(p) /\ InvStamp(p) /\ InvClock /\ ConfirmedStands
      /\ issued \in Nat /\ clock \in Nat /\ password \in Nat
      /\ doc \in Document /\ t \in Tokens \cup {NoToken} /\ call[p] \in Calls /\ doc.admin \in Nat
  BY StoreFacts DEF InvOwn
<1>1. /\ call[p].pc = "loaded" /\ op \in Mutations
      /\ UNCHANGED <<file, data, fresh, seen, issued, breaks, acks, raced, hidden, clobbered>>
      /\ clock' = IF op = "SetAdminPassword" THEN clock + 1 ELSE clock
  BY DEF Change, At, stamps, races
<1>2. CASE NotFound(doc, op, t)
  <2>1. Ends(p)  BY <1>2 DEF Change
  <2>2. op # "SetAdminPassword"  BY <1>2 DEF NotFound
  <2>3. UNCHANGED clock /\ seen' \subseteq Stores  BY <1>1, <2>2 DEF CredentialsTypeOK
  <2> QED BY <1>1, <2>1, <2>3, EndStep DEF races
<1>3. CASE ~NotFound(doc, op, t)
  <2> DEFINE next == Changed(doc, op, t)
             new == [call[p] EXCEPT !.pc = "write", !.next = next]
  <2>1. call' = [call EXCEPT ![p] = new]  BY <1>3 DEF Change
  <2>2. InvClock' /\ (op = "SetAdminPassword" => clock + 1 <= MaxClock)
    <3>1. \A q \in Stores : q # p => call'[q] = call[q]  BY <2>1 DEF CredentialsTypeOK
    <3>2. call'[p].pc = "write"  BY <2>1, <1>0 DEF CredentialsTypeOK, Calls
    <3>3. Pending' \in SUBSET (Pending \ {p})  BY <3>1, <3>2 DEF Pending
    <3>4. CASE op = "SetAdminPassword"
      <4>1. p \in Pending  BY <1>1, <3>4 DEF Pending
      <4> QED BY <1>0, <1>1, <3>3, <3>4, <4>1, ClockTaken
    <3>5. CASE op # "SetAdminPassword"
      BY <1>0, <1>1, <3>3, <3>5, ClockStays
    <3> QED BY <3>4, <3>5
  <2>3. Unwritten(p) <=> op \in Issues  BY <1>1 DEF Unwritten
  <2>4. op \in Issues => t \in 1 .. issued  BY <1>0, <2>3 DEF InvToken
  <2>5. op \in Issues => t \in Tokens  BY <2>4 DEF CredentialsTypeOK
  <2>6. /\ next \in Document
        /\ TokensOf(next) \subseteq TokensOf(doc) \cup (IF op \in Issues THEN {t} ELSE {})
        /\ op \in Issues => t \in TokensOf(next)
        /\ doc.admin <= next.admin /\ next.admin <= clock' /\ next.admin \in Nat
    <3>1. doc.admin <= clock  BY <1>0 DEF InvPast, Past
    <3>2. /\ next \in Document
          /\ TokensOf(next) \subseteq TokensOf(doc) \cup (IF op \in Issues THEN {t} ELSE {})
          /\ op \in Issues => t \in TokensOf(next)
          /\ doc.admin <= next.admin
          /\ next.admin <= IF op = "SetAdminPassword" THEN clock + 1 ELSE clock
      <4> HIDE DEF op, t, doc
      <4> QED BY <1>0, <1>1, <2>2, <2>5, <3>1, ChangedLaw
    <3>3. next.admin \in Nat  BY <3>2 DEF Document
    <3> HIDE DEF next
    <3> QED BY <1>1, <3>2, <3>3
  <2> HIDE DEF next
  <2>7. /\ new \in Calls /\ new.pc = "write" /\ new.op = op /\ new.token = t /\ new.next = next
    BY <1>0, <2>6 DEF Calls, Places
  <2>8. /\ call' \in [Stores -> Calls] /\ call'[p] = new /\ \A q \in Stores \ {p} : call'[q] = call[q]
    <3> HIDE DEF new
    <3> QED BY <2>1, <2>7 DEF CredentialsTypeOK
  <2>9. clock' \in Nat /\ clock <= clock' /\ clock' <= MaxClock  BY <1>0, <1>1, <2>2 DEF CredentialsTypeOK
  <2>10. CredentialsTypeOK'
    <3> HIDE DEF new, op
    <3> QED BY <1>0, <1>1, <2>8, <2>9 DEF CredentialsTypeOK, acks
  <2> HIDE DEF new
  <2>11. ConfirmedStands' /\ Grows
    BY <1>0, <1>1, <2>7, <2>8 DEF ConfirmedStands, Grows, At, acks
  <2>12. InvPast(p)'
    <3>1. Past(doc)'  BY <1>0, <1>1, <2>9 DEF InvPast, Past
    <3>2. TokensOf(next) \subseteq 1 .. issued  BY <1>0, <2>4, <2>6 DEF InvPast, Past
    <3> QED BY <1>1, <2>6, <2>7, <2>8, <3>1, <3>2 DEF InvPast, Past
  <2>13. InvToken(p)'
    <3>1. SUFFICES ASSUME op \in Issues PROVE InvToken(p)'  BY <2>7, <2>8 DEF InvToken, Unwritten
    <3>2. /\ t \in 1 .. issued /\ t \notin TokensOf(file.doc) \cup dead
          /\ \A q \in Stores :
               /\ t \notin TokensOf(data[q])
               /\ q # p => t \notin TokensOf(call[q].next)
               /\ q # p /\ Unwritten(q) => t # call[q].token
      BY <1>0, <2>3, <3>1 DEF InvToken
    <3>3. \A q \in Stores : q # p => call'[q] = call[q] /\ (Unwritten(q)' <=> Unwritten(q))  BY <2>8 DEF Unwritten
    <3>4. call'[p].token = t  BY <2>7, <2>8
    <3> HIDE DEF t
    <3> QED BY <1>1, <3>2, <3>3, <3>4 DEF InvToken, acks
  <2>14. InvCall(p)'
    <3>1. p \notin raced \cup hidden => data[p] = file.doc  BY <1>0, <1>1 DEF InvCall
    <3> QED BY <1>1, <2>6, <2>7, <2>8, <3>1 DEF InvCall, Writing
  <2>15. InvStamp(p)'  BY <1>0, <1>1 DEF InvStamp
  <2>16. /\ TokensOf(data'[p]) \subseteq TokensOf(data[p]) \cup TokensOf(file.doc) \cup TokensOf(call[p].next)
         /\ TokensOf(call'[p].next) \subseteq
              TokensOf(data[p]) \cup (IF Unwritten(p) THEN {call[p].token} ELSE {}) \cup TokensOf(call[p].next)
         /\ Unwritten(p)' => Unwritten(p) /\ call'[p].token = call[p].token
    BY <1>1, <2>3, <2>6, <2>7, <2>8 DEF Unwritten
  <2>17. InvOwn(p)'  BY <2>12, <2>13, <2>14, <2>15 DEF InvOwn
  <2>18. /\ UNCHANGED <<file, clobbered>> /\ issued' \in Nat /\ issued <= issued'
         /\ dead \subseteq dead' /\ dead' \subseteq dead \cup TokensOf(data[p])
         /\ \A q \in Stores \ {p} :
              /\ call'[q] = call[q] /\ data'[q] = data[q]
              /\ (q \in raced' <=> q \in raced) /\ (q \in hidden' <=> q \in hidden)
              /\ q \in fresh' => q \in fresh
    BY <1>0, <1>1, <2>8 DEF acks
  <2>19. InvStores'
    BY <2>2, <2>9, <2>11, <2>16, <2>17, <2>18, OwnStep
  <2> QED BY <2>10, <2>11, <2>19
<1> QED BY <1>2, <1>3

\* The caller is told.  If nobody overwrote the file since, it is what the call
\* wrote.
LEMMA RestatStep ==
  ASSUME CredentialsTypeOK, InvStores, NEW p \in Stores, Restat(p)
  PROVE  CredentialsTypeOK' /\ InvStores' /\ Grows
<1> DEFINE op == call[p].op
           next == call[p].next
<1>0. /\ InvPast(p) /\ InvToken(p) /\ InvCall(p) /\ InvStamp(p) /\ InvClock /\ ConfirmedStands
      /\ issued \in Nat /\ clock \in Nat /\ password \in Nat
      /\ next \in Document /\ next.admin \in Nat /\ file.doc \in Document /\ file.doc.admin \in Nat
      /\ dead \subseteq 1 .. issued
  BY StoreFacts DEF InvOwn
<1>1. /\ call[p].pc = "restat" /\ data' = [data EXCEPT ![p] = next] /\ Ends(p)
      /\ fresh' \in {fresh, fresh \cup {p}} /\ dead' = dead \cup Removed(p)
      /\ UNCHANGED <<file, seen, clock, issued, breaks, raced, hidden, clobbered>>
      /\ \/ live' = live
         \/ op \in Issues /\ p \notin hidden /\ live' = live \cup {call[p].token}
      /\ \/ password' = password
         \/ p \notin hidden /\ password' = next.admin
  BY DEF Restat, At, races
<1>2. /\ call' \in [Stores -> Calls] /\ call'[p].pc \in {"over", "off", "idle"} /\ call'[p].op = "read"
      /\ call'[p].next = Empty /\ \A q \in Stores \ {p} : call'[q] = call[q]
  BY <1>1, EndsLaw DEF CredentialsTypeOK
<1>3. /\ TokensOf(next) \subseteq 1 .. issued /\ next.admin <= clock
      /\ TokensOf(data[p]) \subseteq 1 .. issued
      /\ op \in Issues => call[p].token \in TokensOf(next)
      /\ p \notin hidden => file.ok /\ file.doc = next
      /\ clobbered \/ Removed(p) \cap TokensOf(file.doc) = {}
  BY <1>0, <1>1 DEF InvPast, Past, InvCall, Writing
<1>4. /\ 1 .. issued \subseteq Tokens /\ Removed(p) \subseteq TokensOf(data[p])
  BY <1>0 DEF CredentialsTypeOK, Removed
<1>5. CredentialsTypeOK'
  <2>1. data' \in [Stores -> Document]  BY <1>0, <1>1 DEF CredentialsTypeOK
  <2>2. live' \subseteq Tokens /\ dead' \subseteq Tokens
    BY <1>1, <1>3, <1>4 DEF CredentialsTypeOK
  <2>3. password' \in 0 .. clock  BY <1>0, <1>1, <1>3 DEF CredentialsTypeOK
  <2>4. fresh' \subseteq Stores /\ seen' \subseteq Stores  BY <1>1 DEF CredentialsTypeOK
  <2> QED BY <1>1, <1>2, <2>1, <2>2, <2>3, <2>4 DEF CredentialsTypeOK
<1>6. ConfirmedStands' /\ (clobbered' \/ password <= password')
  BY <1>0, <1>1, <1>3 DEF ConfirmedStands
<1>7. Grows
  <2>1. Server # p => data'[Server] = data[Server] /\ call'[Server] = call[Server]  BY <1>1, <1>2 DEF CredentialsTypeOK
  <2>2. Server = p => call'[Server].pc # "loaded"  BY <1>2
  <2> QED BY <1>1, <1>6, <2>1, <2>2 DEF Grows, At
<1>8. InvClock'
  <2>1. Pending' \in SUBSET Pending  BY <1>2 DEF Pending
  <2> QED BY <1>0, <1>1, <2>1, ClockStays
<1>9. data'[p] = next /\ \A q \in Stores \ {p} : data'[q] = data[q]  BY <1>1 DEF CredentialsTypeOK
<1>10. InvOwn(p)'
  <2>1. InvPast(p)'  BY <1>1, <1>2, <1>3, <1>9, <1>0, EmptyLaw DEF InvPast, Past
  <2>2. InvToken(p)'  BY <1>2 DEF InvToken, Unwritten, Issues
  <2>3. InvCall(p)'  BY <1>2 DEF InvCall, Writing
  <2>4. InvStamp(p)'  BY <1>1, <1>3, <1>9 DEF InvStamp
  <2> QED BY <2>1, <2>2, <2>3, <2>4 DEF InvOwn
<1>11. /\ TokensOf(data'[p]) \subseteq TokensOf(data[p]) \cup TokensOf(file.doc) \cup TokensOf(call[p].next)
       /\ TokensOf(call'[p].next) \subseteq
            TokensOf(data[p]) \cup (IF Unwritten(p) THEN {call[p].token} ELSE {}) \cup TokensOf(call[p].next)
       /\ ~Unwritten(p)'
  BY <1>2, <1>9, EmptyLaw DEF Unwritten, Issues
<1>12. /\ UNCHANGED <<file, clobbered>> /\ issued' \in Nat /\ issued <= issued' /\ clock' \in Nat /\ clock <= clock'
       /\ dead \subseteq dead' /\ dead' \subseteq dead \cup TokensOf(data[p])
       /\ \A q \in Stores \ {p} :
            /\ call'[q] = call[q] /\ data'[q] = data[q]
            /\ (q \in raced' <=> q \in raced) /\ (q \in hidden' <=> q \in hidden)
            /\ q \in fresh' => q \in fresh
  BY <1>0, <1>1, <1>2, <1>4, <1>9
<1>13. InvStores'
  BY <1>6, <1>8, <1>10, <1>11, <1>12, OwnStep
<1> QED BY <1>5, <1>7, <1>13

-----------------------------------------------------------------------------
(* The file is replaced.                                                   *)

\* What the others believe afterwards: no stamp is the file's, and whoever has
\* read or written the old file knows that it was overtaken.
LEMMA OvertakenStep ==
  ASSUME CredentialsTypeOK, InvStores, NEW doc, NEW ok, NEW others \in SUBSET Stores,
         Replace(doc, ok, others), UNCHANGED <<data, clock, issued, dead>>, clobbered => clobbered',
         NEW q \in others, call'[q] = call[q],
         \A o \in Stores \ {q} :
           /\ TokensOf(call'[o].next) \subseteq TokensOf(call[o].next)
           /\ Unwritten(o)' => Unwritten(o) /\ call'[o].token = call[o].token,
         Unwritten(q) => call[q].token \notin TokensOf(doc),
         At(q, "restat") => clobbered' \/ Removed(q) \cap TokensOf(doc) = {}
  PROVE  InvOwn(q)'
<1>0. InvPast(q) /\ InvToken(q) /\ InvCall(q)  BY StoreFacts DEF InvOwn
<1>1. /\ file'.doc = doc /\ fresh' = {}
      /\ call[q].pc \in {"loaded", "write"} => q \in raced'
      /\ call[q].pc = "restat" => q \in hidden'
  BY DEF Replace, At
<1>2. InvPast(q)'  BY <1>0 DEF InvPast, Past
<1>3. InvStamp(q)'  BY <1>1 DEF InvStamp
<1>4. InvCall(q)'
  <2>1. Removed(q)' = Removed(q)  BY DEF Removed
  <2> QED BY <1>0, <1>1, <2>1 DEF InvCall, Writing, At
<1>5. InvToken(q)'
  <2>1. SUFFICES ASSUME Unwritten(q) PROVE InvToken(q)'  BY DEF InvToken, Unwritten
  <2> DEFINE t == call[q].token
  <2>2. /\ t \in 1 .. issued /\ t \notin TokensOf(file.doc) \cup dead
        /\ \A o \in Stores :
             /\ t \notin TokensOf(data[o])
             /\ o # q => t \notin TokensOf(call[o].next)
             /\ o # q /\ Unwritten(o) => t # call[o].token
    BY <1>0, <2>1 DEF InvToken
  <2>3. call'[q].token = t /\ t \notin TokensOf(doc)  BY <2>1
  <2> HIDE DEF t
  <2>4. ASSUME NEW o \in Stores, o # q
        PROVE  t \notin TokensOf(call'[o].next) /\ (Unwritten(o)' => t # call'[o].token)
    BY <2>2, <2>4
  <2> QED BY <1>1, <2>2, <2>3, <2>4 DEF InvToken
<1> QED BY <1>2, <1>3, <1>4, <1>5 DEF InvOwn

\* Somebody replaces the file by itself, readable or not.
LEMMA SameDocumentStep ==
  ASSUME CredentialsTypeOK, InvStores, NEW ok \in BOOLEAN, Replace(file.doc, ok, Stores),
         UNCHANGED <<data, call, clock, issued, acks, clobbered>>, breaks' \in 0 .. MaxBreaks
  PROVE  CredentialsTypeOK' /\ InvStores' /\ Grows
<1>0. /\ InvClock /\ Past(file.doc) /\ dead \subseteq 1 .. issued /\ ConfirmedStands /\ clock \in Nat
      /\ password \in Nat /\ \A p \in Stores : InvOwn(p)
  BY StoreFacts
<1>1. /\ file' = [doc |-> file.doc, exists |-> TRUE, ok |-> ok] /\ fresh' = {} /\ seen' = {}
      /\ raced' \subseteq Stores /\ hidden' \subseteq Stores
      /\ \A p \in Stores : p \in hidden => p \in hidden'
  BY DEF Replace
<1>2. CredentialsTypeOK'
  <2>1. file' \in [doc : Document, exists : BOOLEAN, ok : BOOLEAN]  BY <1>1 DEF CredentialsTypeOK
  <2> QED BY <1>1, <2>1 DEF CredentialsTypeOK, acks
<1>3. ASSUME NEW q \in Stores PROVE InvOwn(q)'
  <2>1. InvToken(q) /\ InvCall(q)  BY <1>0 DEF InvOwn
  <2>2. Unwritten(q) => call[q].token \notin TokensOf(file.doc)  BY <2>1 DEF InvToken
  <2>3. At(q, "restat") => clobbered' \/ Removed(q) \cap TokensOf(file.doc) = {}  BY <2>1 DEF InvCall, At
  <2>4. \A o \in Stores \ {q} :
          /\ TokensOf(call'[o].next) \subseteq TokensOf(call[o].next)
          /\ Unwritten(o)' => Unwritten(o) /\ call'[o].token = call[o].token
    BY DEF Unwritten
  <2>5. UNCHANGED dead  BY DEF acks
  <2> QED BY <2>2, <2>3, <2>4, <2>5, OvertakenStep
<1>4. InvClock'
  <2>1. Pending' \in SUBSET Pending  BY DEF Pending
  <2> QED BY <1>0, <2>1, ClockStays
<1>5. Past(file.doc)' /\ ConfirmedStands' /\ dead' \subseteq 1 .. issued'
  BY <1>0, <1>1 DEF Past, ConfirmedStands, acks
<1>6. InvStores'  BY <1>1, <1>3, <1>4, <1>5 DEF InvStores, InvOwn
<1>7. Grows  BY <1>0, <1>1 DEF Grows, At, acks
<1> QED BY <1>2, <1>6, <1>7

LEMMA SpoilStep ==
  ASSUME CredentialsTypeOK, InvStores, Spoil \/ Repair
  PROVE  CredentialsTypeOK' /\ InvStores' /\ Grows
<1>1. CASE Spoil
  <2>1. breaks' \in 0 .. MaxBreaks  BY <1>1 DEF Spoil, CredentialsTypeOK
  <2> QED BY <1>1, <2>1, SameDocumentStep DEF Spoil
<1>2. CASE Repair
  <2>1. breaks' \in 0 .. MaxBreaks  BY <1>2 DEF Repair, CredentialsTypeOK
  <2> QED BY <1>2, <2>1, SameDocumentStep DEF Repair
<1> QED BY <1>1, <1>2

\* A write that was not overtaken puts the file's own tokens back, with the one
\* it issues, less those it removes.
LEMMA WriteStep ==
  ASSUME CredentialsTypeOK, InvStores, NEW p \in Stores, Write(p)
  PROVE  CredentialsTypeOK' /\ InvStores' /\ Grows
<1> DEFINE op == call[p].op
           t == call[p].token
           next == call[p].next
<1>0. /\ InvPast(p) /\ InvToken(p) /\ InvCall(p) /\ InvClock /\ ConfirmedStands
      /\ clock \in Nat /\ password \in Nat /\ dead \subseteq 1 .. issued
      /\ next \in Document /\ next.admin \in Nat /\ file.doc.admin \in Nat /\ data[p].admin \in Nat
      /\ \A q \in Stores : InvOwn(q)
  BY StoreFacts DEF InvOwn
<1>1. call[p].pc = "write" /\ UNCHANGED <<data, clock, issued, breaks, dead, password>>
  BY DEF Write, At
<1>2. CASE Ends(p) /\ UNCHANGED <<file, stamps, races, live>>
  <2>1. seen' \subseteq Stores /\ UNCHANGED <<fresh, acks>>  BY <1>1, <1>2 DEF CredentialsTypeOK, stamps, acks
  <2> QED BY <1>1, <1>2, <2>1, EndStep
<1>3. CASE /\ Goes(p, "restat") \/ Ends(p)
           /\ Replace(next, TRUE, Stores \ {p})
           /\ clobbered' = (clobbered \/ p \in raced \cup hidden)
           /\ live' = live \ Removed(p)
  <2>1. /\ call' \in [Stores -> Calls] /\ \A q \in Stores \ {p} : call'[q] = call[q]
        /\ \/ /\ call'[p].pc = "restat" /\ call'[p].op = op /\ call'[p].next = next /\ call'[p].token = t
           \/ /\ call'[p].pc \in {"over", "off", "idle"} /\ call'[p].op = "read" /\ call'[p].next = Empty
    <3>1. "restat" \in Places /\ call \in [Stores -> Calls]  BY DEF Places, CredentialsTypeOK
    <3>2. CASE Goes(p, "restat")  BY <3>1, <3>2, GoesLaw
    <3>3. CASE Ends(p)  BY <3>1, <3>3, EndsLaw
    <3> QED BY <1>3, <3>2, <3>3
  <2>2. /\ file' = [doc |-> next, exists |-> TRUE, ok |-> TRUE] /\ fresh' = {} /\ seen' = {}
        /\ raced' \subseteq Stores /\ hidden' \subseteq Stores /\ p \notin hidden'
        /\ \A q \in Stores \ {p} : q \in hidden => q \in hidden'
    BY <1>3 DEF Replace
  <2>3. CredentialsTypeOK'
    <3>1. file' \in [doc : Document, exists : BOOLEAN, ok : BOOLEAN]
      <4> HIDE DEF next
      <4> QED BY <1>0, <2>2
    <3>2. live' \subseteq Tokens /\ clobbered' \in BOOLEAN
      BY <1>3 DEF CredentialsTypeOK
    <3> QED BY <1>1, <2>1, <2>2, <3>1, <3>2 DEF CredentialsTypeOK
  <2>4. /\ TokensOf(next) \subseteq TokensOf(data[p]) \cup (IF op \in Issues THEN {t} ELSE {})
        /\ data[p].admin <= next.admin
        /\ p \notin raced \cup hidden => data[p] = file.doc
    BY <1>0, <1>1 DEF InvCall, Writing
  <2>5. op \in Issues =>
          /\ t \in 1 .. issued /\ t \notin TokensOf(file.doc) \cup dead
          /\ \A q \in Stores :
               /\ t \notin TokensOf(data[q])
               /\ q # p => t \notin TokensOf(call[q].next)
               /\ q # p /\ Unwritten(q) => t # call[q].token
    BY <1>0, <1>1 DEF InvToken, Unwritten
  <2>6. ~clobbered' => ~clobbered /\ data[p] = file.doc  BY <1>3, <2>4
  <2>7. ConfirmedStands'
    <3>1. SUFFICES ASSUME ~clobbered'
                   PROVE  /\ live' \subseteq TokensOf(next) /\ dead \cap TokensOf(next) = {}
                          /\ password <= next.admin
      BY <1>1, <2>2 DEF ConfirmedStands
    <3>2. live \subseteq TokensOf(data[p]) /\ dead \cap TokensOf(data[p]) = {} /\ password <= data[p].admin
      BY <1>0, <2>6, <3>1 DEF ConfirmedStands
    <3>3. live' \subseteq TokensOf(next)  BY <1>3, <3>2 DEF Removed
    <3>4. dead \cap TokensOf(next) = {}  BY <2>4, <2>5, <3>2
    <3>5. password <= next.admin  BY <1>0, <2>4, <3>2
    <3> QED BY <3>3, <3>4, <3>5
  <2>8. ASSUME NEW q \in Stores \ {p} PROVE InvOwn(q)'
    <3>1. InvToken(q) /\ InvCall(q)  BY <1>0 DEF InvOwn
    <3>2. Unwritten(q) => call[q].token \notin TokensOf(next)  BY <3>1 DEF InvToken
    <3>3. At(q, "restat") => clobbered' \/ Removed(q) \cap TokensOf(next) = {}
      <4>1. SUFFICES ASSUME At(q, "restat"), ~clobbered' PROVE Removed(q) \cap TokensOf(next) = {}  OBVIOUS
      <4>2. Removed(q) \cap TokensOf(data[p]) = {}  BY <2>6, <3>1, <4>1 DEF InvCall, At
      <4>3. op \in Issues => t \notin Removed(q)  BY <2>5 DEF Removed
      <4> QED BY <2>4, <4>2, <4>3
    <3>4. \A o \in Stores \ {q} :
            /\ TokensOf(call'[o].next) \subseteq TokensOf(call[o].next)
            /\ Unwritten(o)' => Unwritten(o) /\ call'[o].token = call[o].token
      BY <2>1, EmptyLaw DEF Unwritten
    <3>5. call'[q] = call[q] /\ q \in Stores \ {p} /\ (clobbered => clobbered')  BY <1>3, <2>1
    <3> QED BY <1>1, <1>3, <3>2, <3>3, <3>4, <3>5, OvertakenStep
  <2>9. InvOwn(p)'
    <3>1. InvPast(p)'  BY <1>0, <1>1, <2>1, EmptyLaw DEF InvPast, Past
    <3>2. InvToken(p)'  BY <2>1 DEF InvToken, Unwritten, Issues
    <3>3. InvStamp(p)'  BY <2>2 DEF InvStamp
    <3>4. InvCall(p)'
      <4>1. CASE call'[p].pc = "restat"
        <5>1. call'[p].op = op /\ call'[p].next = next /\ call'[p].token = t  BY <2>1, <4>1
        <5>2. Removed(p)' \cap TokensOf(next) = {}  BY <5>1 DEF Removed
        <5>3. op \in Issues => t \in TokensOf(next)  BY <1>0, <1>1 DEF InvCall, Writing
        <5>4. file'.ok /\ file'.doc = next  BY <2>2
        <5>5. data'[p] = data[p]  BY <1>1
        <5> HIDE DEF op, next, t
        <5> QED BY <2>4, <4>1, <5>1, <5>2, <5>3, <5>4, <5>5 DEF InvCall, Writing
      <4>2. CASE call'[p].pc # "restat"  BY <2>1, <4>2 DEF InvCall, Writing
      <4> QED BY <4>1, <4>2
    <3> QED BY <3>1, <3>2, <3>3, <3>4 DEF InvOwn
  <2>10. InvClock'
    <3>1. Pending' \in SUBSET Pending  BY <2>1 DEF Pending
    <3> QED BY <1>0, <1>1, <3>1, ClockStays
  <2>11. Past(file.doc)' /\ dead' \subseteq 1 .. issued'  BY <1>0, <1>1, <2>2 DEF Past, InvPast
  <2>12. InvStores'  BY <2>2, <2>7, <2>8, <2>9, <2>10, <2>11 DEF InvStores, InvOwn
  <2>13. Grows
    <3>1. Server # p => call'[Server] = call[Server]  BY <2>1
    <3>2. Server = p => call'[Server].pc # "loaded"  BY <2>1
    <3>3. password <= password' /\ dead \subseteq dead'  BY <1>0, <1>1
    <3>3a. clobbered => clobbered'  BY <1>3, Zenon
    <3>4. At(Server, "loaded")' /\ Server \notin hidden' =>
            At(Server, "loaded") /\ Server \notin hidden /\ data'[Server] = data[Server]
      BY <1>1, <2>2, <3>1, <3>2 DEF At
    <3> QED BY <3>3, <3>3a, <3>4 DEF Grows
  <2> QED BY <2>3, <2>12, <2>13
<1> QED BY <1>2, <1>3 DEF Write

LEMMA StopStep ==
  ASSUME TypeOK, InvStores, Stop
  PROVE  CredentialsTypeOK' /\ InvStores' /\ Grows
<1> USE DEF TypeOK, CredentialsTypeOK
<1>1. /\ call' = [call EXCEPT ![Server] = Resting("off")] /\ data' = [data EXCEPT ![Server] = Empty]
      /\ fresh' = fresh \ {Server} /\ seen' = seen \ {Server} /\ hidden' = hidden \ {Server}
      /\ UNCHANGED <<file, clock, issued, breaks, acks, raced, clobbered>>
  BY DEF Stop
<1>2. /\ Resting("off") \in Calls /\ Resting("off").pc = "off" /\ Resting("off").op = "read"
      /\ Resting("off").next = Empty
  <2>1. "off" \in Places  BY DEF Places
  <2> QED BY <2>1, RestingLaw
<1>3. /\ call' \in [Stores -> Calls] /\ call'[Server].pc = "off" /\ call'[Server].op = "read"
      /\ call'[Server].next = Empty /\ \A q \in Stores \ {Server} : call'[q] = call[q]
  BY <1>1, <1>2
<1>4. data' \in [Stores -> Document] /\ data'[Server] = Empty /\ \A q \in Stores \ {Server} : data'[q] = data[q]
  BY <1>1, EmptyLaw
<1>5. InvClock'
  <2>1. Pending' \in SUBSET Pending  BY <1>3 DEF Pending
  <2> QED BY <1>1, <2>1, ClockStays, StoreFacts
<1>6. ~Unwritten(Server)'  BY <1>3 DEF Unwritten
<1>7. issued \in 0 .. MaxTokens /\ issued \in Nat /\ clock \in Nat  BY StoreFacts
<1> QED BY <1>1, <1>3, <1>4, <1>5, <1>6, <1>7, MoveStep

-----------------------------------------------------------------------------
(* The clients.                                                            *)

\* Every step of the stores, whoever takes it.
LEMMA BackgroundStep ==
  ASSUME CredentialsTypeOK, InvStores, Background
  PROVE  CredentialsTypeOK' /\ InvStores' /\ Grows
<1>1. CASE \E p \in Stores : NewAuthStore(p) \/ Stat(p) \/ ReadFile(p) \/ Change(p) \/ Write(p) \/ Restat(p)
  <2>1. PICK p \in Stores : NewAuthStore(p) \/ Stat(p) \/ ReadFile(p) \/ Change(p) \/ Write(p) \/ Restat(p)
    BY <1>1
  <2> QED BY <2>1, BeginStep, StatStep, ReadStep, ChangeStep, WriteStep, RestatStep DEF NewAuthStore
<1>2. CASE \E p \in Stores : (p = Server => call[p].op # "read") /\ ReadFails(p)
  BY <1>2, ReadFailsStep
<1>3. CASE \E c \in Commands, op \in Mutations : Mutate(c, op)
  BY <1>3, MutateStep
<1>4. CASE Spoil \/ Repair
  BY <1>4, SpoilStep
<1> QED BY <1>1, <1>2, <1>3, <1>4 DEF Background

LEMMA IdleStep ==
  ASSUME CredentialsTypeOK, InvStores, UNCHANGED cvars
  PROVE  CredentialsTypeOK' /\ InvStores' /\ Grows
<1>1. UNCHANGED <<file, data, fresh, seen, call, clock, issued, breaks, live, dead, password, raced, hidden, clobbered>>
  BY DEF cvars, stamps, acks, races
<1>2. CredentialsTypeOK'  BY <1>1 DEF CredentialsTypeOK
<1>3. ASSUME NEW p \in Stores PROVE InvOwn(p)'
  <2>1. InvPast(p) /\ InvToken(p) /\ InvCall(p) /\ InvStamp(p)  BY StoreFacts DEF InvOwn
  <2>2. InvPast(p)' /\ InvStamp(p)'  BY <1>1, <2>1 DEF InvPast, Past, InvStamp
  <2>3. InvToken(p)'  BY <1>1, <2>1 DEF InvToken, Unwritten
  <2>4. InvCall(p)'  BY <1>1, <2>1 DEF InvCall, Writing, Removed
  <2> QED BY <2>2, <2>3, <2>4 DEF InvOwn
<1>4. InvClock' /\ Past(file.doc)' /\ ConfirmedStands'
  BY <1>1, StoreFacts DEF InvClock, Pending, Past, ConfirmedStands
<1>5. InvStores'  BY <1>1, <1>3, <1>4, StoreFacts DEF InvStores, InvOwn
<1>6. Grows
  <2>1. password <= password'  BY <1>1, StoreFacts
  <2> QED BY <1>1, <2>1 DEF Grows, At
<1> QED BY <1>2, <1>5, <1>6

\* What a client asked before a step of the stores, or of another client, is
\* answered as well after it.
LEMMA ClientKept ==
  ASSUME TypeOK, InvStores', CredentialsTypeOK', Grows, InvClients, NEW r \in Clients,
         req'[r] = req[r], session'[r] \in {session[r], NoSession}, reader' = r => reader = r
  PROVE  InvRequest(r)' /\ InvQuestion(r)'
<1>0. /\ InvRequest(r) /\ InvQuestion(r) /\ req[r] \in Requests /\ req[r].floor \in Nat
      /\ password \in Nat /\ password' \in Nat /\ file'.doc.admin \in Nat
  BY DEF InvClients, TypeOK, Requests, CredentialsTypeOK, Document
<1>1. InvRequest(r)'  BY <1>0 DEF InvRequest, Grows
<1>2. InvQuestion(r)'
  <2>1. SUFFICES ASSUME At(Server, "loaded")', reader' = r, ~clobbered', Server \notin hidden'
                 PROVE  /\ req[r].late => req[r].token \notin TokensOf(data'[Server])
                        /\ req[r].pc = "cookie" => req[r].floor <= data'[Server].admin
    BY DEF InvQuestion
  <2>2. CASE data'[Server] = file'.doc
    <3>1. ConfirmedStands'  BY DEF InvStores
    <3>2. /\ dead' \cap TokensOf(file'.doc) = {} /\ password' <= file'.doc.admin
      BY <2>1, <3>1 DEF ConfirmedStands
    <3>3. /\ req[r].late => req[r].token \in dead'
          /\ req[r].pc = "cookie" => req[r].floor <= password'
      BY <1>1, <2>1 DEF InvRequest
    <3> QED BY <1>0, <2>2, <3>2, <3>3
  <2>3. CASE At(Server, "loaded") /\ Server \notin hidden /\ data'[Server] = data[Server]
    <3>1. ~clobbered  BY <2>1 DEF Grows
    <3> QED BY <1>0, <2>1, <2>3, <3>1 DEF InvQuestion
  <2> QED BY <2>1, <2>2, <2>3 DEF Grows
<1> QED BY <1>1, <1>2

\* A step of client r alone, in which the server answers nothing.
LEMMA ClientMoves ==
  ASSUME TypeOK, InvStores', CredentialsTypeOK', Grows, InvClients, NEW r \in Clients,
         \A m \in Clients \ {r} : req'[m] = req[m],
         \A m \in Clients : session'[m] \in {session[m], NoSession} \/ m = r,
         \A m \in Clients \ {r} : reader' = m => reader = m,
         reader' # r \/ ~At(Server, "loaded")', InvRequest(r)'
  PROVE  InvClients'
<1>1. InvQuestion(r)'  BY DEF InvQuestion
<1>2. ASSUME NEW m \in Clients \ {r} PROVE InvRequest(m)' /\ InvQuestion(m)'  BY ClientKept
<1> QED BY <1>1, <1>2 DEF InvClients

LEMMA NothingLaw ==
  /\ Nothing \in Requests /\ Nothing.pc = "idle" /\ Nothing.late = FALSE
  /\ NoSession \in [created : 0 .. MaxClock, pw : 0 .. MaxClock]
BY DEF Nothing, Requests, NoSession

\* What a client that only changes its place, or is done, promises.
LEMMA RequestOver ==
  ASSUME req \in [Clients -> Requests], NEW r \in Clients, Over(r)
  PROVE  /\ req' \in [Clients -> Requests] /\ req'[r] = Nothing
         /\ \A m \in Clients \ {r} : req'[m] = req[m]
BY NothingLaw DEF Over

LEMMA RequestMoves ==
  ASSUME req \in [Clients -> Requests], NEW r \in Clients, NEW place, Becomes(r, place),
         place \in Asking \cup {"idle", "verify", "create", "sweep", "get", "in", "agentIn"}
  PROVE  /\ req' \in [Clients -> Requests] /\ req'[r].pc = place
         /\ req'[r].token = req[r].token /\ req'[r].guess = req[r].guess /\ req'[r].ver = req[r].ver
         /\ req'[r].late = req[r].late /\ req'[r].floor = req[r].floor /\ req'[r].blind = req[r].blind
         /\ \A m \in Clients \ {r} : req'[m] = req[m]
<1> DEFINE new == [req[r] EXCEPT !.pc = place]
<1>1. req' = [req EXCEPT ![r] = new]  BY DEF Becomes
<1>2. /\ new \in Requests /\ new.pc = place
      /\ new.token = req[r].token /\ new.guess = req[r].guess /\ new.ver = req[r].ver
      /\ new.late = req[r].late /\ new.floor = req[r].floor /\ new.blind = req[r].blind
  BY DEF Requests
<1> HIDE DEF new
<1> QED BY <1>1, <1>2

\* A step of client r that asks the stores nothing.
LEMMA QuietClient ==
  ASSUME IInv, NEW r \in Clients, UNCHANGED <<cvars, reader, bounds>>, req[r].pc \notin Asking,
         fails' \in Nat, session' \in [Clients -> [created : 0 .. MaxClock, pw : 0 .. MaxClock]],
         \A m \in Clients : session'[m] \in {session[m], NoSession} \/ m = r,
         req' \in [Clients -> Requests], \A m \in Clients \ {r} : req'[m] = req[m],
         InvRequest(r)'
  PROVE  IInv'
<1>0. TypeOK /\ InvStores /\ InvClients /\ CredentialsTypeOK  BY DEF IInv, TypeOK
<1>1. CredentialsTypeOK' /\ InvStores' /\ Grows  BY <1>0, IdleStep
<1>2. TypeOK'  BY <1>0, <1>1 DEF TypeOK, bounds
<1>3. reader' # r /\ \A m \in Clients \ {r} : reader' = m => reader = m
  BY <1>0 DEF InvClients, InvRequest
<1>4. InvClients'  BY <1>0, <1>1, <1>3, ClientMoves
<1> QED BY <1>1, <1>2, <1>4 DEF IInv

LEMMA ClientFacts ==
  ASSUME IInv, NEW r \in Clients
  PROVE  /\ req \in [Clients -> Requests] /\ req[r] \in Requests /\ InvRequest(r) /\ InvQuestion(r)
         /\ session \in [Clients -> [created : 0 .. MaxClock, pw : 0 .. MaxClock]] /\ fails \in Nat
         /\ clock \in 0 .. MaxClock /\ password \in 0 .. clock /\ issued \in 0 .. MaxTokens
         /\ dead \subseteq Tokens /\ MaxClock \in Nat /\ MaxTokens \in Nat
         /\ session[r].created \in Nat /\ req[r].ver \in Nat /\ req[r].floor \in Nat
BY DEF IInv, InvClients, TypeOK, CredentialsTypeOK, Requests

LEMMA ArriveStep ==
  ASSUME IInv, NEW r \in Clients, Login(r) \/ Visit(r) \/ Bear(r)
  PROVE  IInv'
<1>0. /\ req \in [Clients -> Requests] /\ req[r] \in Requests /\ InvRequest(r)
      /\ session \in [Clients -> [created : 0 .. MaxClock, pw : 0 .. MaxClock]] /\ fails \in Nat
      /\ clock \in 0 .. MaxClock /\ password \in 0 .. clock /\ issued \in 0 .. MaxTokens
      /\ MaxClock \in Nat /\ MaxTokens \in Nat
  BY ClientFacts
<1>1. req[r].pc = "idle" /\ UNCHANGED <<cvars, session, fails, reader, bounds>>
  BY DEF Login, Visit, Bear
<1>2. UNCHANGED <<dead, password, clobbered>>  BY <1>1 DEF cvars, acks, races
<1>3. ~req[r].late /\ reader # r /\ reader' # r  BY <1>0, <1>1 DEF InvRequest, Asking
<1>4. ASSUME NEW new \in Requests, req' = [req EXCEPT ![r] = new],
             new.pc \in Asking, new.late => new.token \in dead /\ new.pc = "agent",
             new.pc = "cookie" => new.floor <= password
      PROVE  IInv'
  <2>1. req' \in [Clients -> Requests] /\ req'[r] = new /\ \A m \in Clients \ {r} : req'[m] = req[m]
    BY <1>0, <1>4
  <2>2. InvRequest(r)'  BY <1>2, <1>3, <1>4, <2>1 DEF InvRequest, Asking
  <2> QED BY <1>0, <1>1, <2>1, <2>2, QuietClient DEF Asking
<1>5. CASE Login(r)
  <2>1. PICK guess \in 0 .. clock : req' = [req EXCEPT ![r].pc = "password", ![r].guess = guess]
    BY <1>5 DEF Login
  <2> DEFINE new == [req[r] EXCEPT !.pc = "password", !.guess = guess]
  <2>2. req' = [req EXCEPT ![r] = new]  BY <2>1
  <2>3. guess \in 0 .. MaxClock  BY <1>0
  <2>4. new \in Requests /\ new.pc = "password" /\ new.late = req[r].late  BY <1>0, <2>3 DEF Requests, Asking
  <2> HIDE DEF new
  <2> QED BY <1>3, <1>4, <2>2, <2>4 DEF Asking
<1>6. CASE Visit(r)
  <2> DEFINE new == [req[r] EXCEPT !.pc = "cookie", !.floor = password]
  <2>1. req' = [req EXCEPT ![r] = new]  BY <1>6 DEF Visit
  <2>2. password \in 0 .. MaxClock  BY <1>0
  <2>3. new \in Requests /\ new.pc = "cookie" /\ new.late = req[r].late /\ new.floor = password
    BY <1>0, <2>2 DEF Requests, Asking
  <2> HIDE DEF new
  <2>4. new.floor <= password  BY <1>0, <2>3
  <2>5. ~new.late /\ new.pc \in Asking /\ new \in Requests  BY <1>3, <2>3 DEF Asking
  <2> QED BY <1>4, <2>1, <2>4, <2>5
<1>7. CASE Bear(r)
  <2>1. PICK t \in 1 .. issued :
          req' = [req EXCEPT ![r].pc = "agent", ![r].token = t, ![r].late = t \in dead]
    BY <1>7 DEF Bear
  <2> DEFINE b == (t \in dead)
             new == [req[r] EXCEPT !.pc = "agent", !.token = t, !.late = b]
  <2>2. req' = [req EXCEPT ![r] = new]  BY <2>1
  <2>3. t \in Tokens /\ b \in BOOLEAN  BY <1>0
  <2>4. b => t \in dead  OBVIOUS
  <2> HIDE DEF b
  <2>5. new \in Requests /\ new.pc = "agent" /\ new.late = b /\ new.token = t
    BY <1>0, <2>3 DEF Requests, Asking
  <2> HIDE DEF new
  <2> QED BY <1>4, <2>2, <2>4, <2>5 DEF Asking
<1> QED BY <1>5, <1>6, <1>7

LEMMA SessionStep ==
  ASSUME IInv, NEW r \in Clients, Verify(r) \/ Create(r) \/ Sweep(r) \/ Get(r) \/ Logout(r) \/ Leave(r)
  PROVE  IInv'
<1>0. /\ req \in [Clients -> Requests] /\ req[r] \in Requests /\ InvRequest(r)
      /\ session \in [Clients -> [created : 0 .. MaxClock, pw : 0 .. MaxClock]] /\ fails \in Nat
      /\ clock \in 0 .. MaxClock /\ req[r].guess \in 0 .. MaxClock
      /\ session[r].created \in Nat /\ req[r].ver \in Nat
  BY ClientFacts DEF Requests
<1>1. /\ UNCHANGED <<cvars, reader, bounds>> /\ req[r].pc \notin Asking
      /\ req[r].pc \in {"verify", "create", "sweep", "get", "in", "agentIn"}
  BY DEF Verify, Create, Sweep, Get, Logout, Leave, Asking
<1>2. UNCHANGED <<dead, password, clobbered>>  BY <1>1 DEF cvars, acks, races
<1>3. reader' # r  BY <1>0, <1>1 DEF InvRequest
<1>4. fails' \in Nat
  BY <1>0 DEF Verify, Create, Sweep, Get, Logout, Leave
<1>5. /\ session' \in [Clients -> [created : 0 .. MaxClock, pw : 0 .. MaxClock]]
      /\ \A m \in Clients : session'[m] \in {session[m], NoSession} \/ m = r
  <2>1. CASE session' = session  BY <1>0, <2>1
  <2>2. CASE Create(r)  BY <1>0, <2>2 DEF Create
  <2>3. CASE Sweep(r)  BY <1>0, <2>3, NothingLaw DEF Sweep
  <2>4. CASE session' = [session EXCEPT ![r] = NoSession]  BY <1>0, <2>4, NothingLaw
  <2> QED BY <2>1, <2>2, <2>3, <2>4 DEF Verify, Get, Logout, Leave
<1>6. CASE Over(r)
  <2>1. /\ req' \in [Clients -> Requests] /\ req'[r] = Nothing /\ \A m \in Clients \ {r} : req'[m] = req[m]
    BY <1>0, <1>6, RequestOver
  <2>2. InvRequest(r)'  BY <1>3, <2>1, NothingLaw DEF InvRequest
  <2> QED BY <1>1, <1>4, <1>5, <2>1, <2>2, QuietClient
<1>7. CASE Verify(r) /\ Becomes(r, "create")
  <2>1. /\ req' \in [Clients -> Requests] /\ req'[r].pc = "create" /\ req'[r].late = req[r].late
        /\ \A m \in Clients \ {r} : req'[m] = req[m]
    BY <1>0, <1>7, RequestMoves
  <2>2. ~req[r].late  BY <1>0, <1>7 DEF InvRequest, Verify
  <2>3. InvRequest(r)'  BY <1>3, <2>1, <2>2 DEF InvRequest
  <2> QED BY <1>1, <1>4, <1>5, <2>1, <2>3, QuietClient
<1>8. CASE Sweep(r)
  <2>1. /\ req' \in [Clients -> Requests] /\ req'[r].pc = "get" /\ req'[r].late = req[r].late
        /\ req'[r].floor = req[r].floor /\ req'[r].ver = req[r].ver /\ req'[r].blind = req[r].blind
        /\ \A m \in Clients \ {r} : req'[m] = req[m]
    BY <1>0, <1>8, RequestMoves DEF Sweep
  <2>2. ~req[r].late /\ (clobbered \/ req[r].blind \/ req[r].floor <= req[r].ver)
    BY <1>0, <1>8 DEF InvRequest, Sweep
  <2>3. session'[r] = NoSession \/ req[r].ver <= session'[r].created
    BY <1>0, <1>8 DEF Sweep
  <2>4. InvRequest(r)'  BY <1>2, <1>3, <2>1, <2>2, <2>3 DEF InvRequest
  <2> QED BY <1>1, <1>4, <1>5, <2>1, <2>4, QuietClient
<1>9. CASE Get(r) /\ Becomes(r, "in")
  <2>1. /\ req' \in [Clients -> Requests] /\ req'[r].pc = "in" /\ req'[r].late = req[r].late
        /\ \A m \in Clients \ {r} : req'[m] = req[m]
    BY <1>0, <1>9, RequestMoves
  <2>2. ~req[r].late  BY <1>0, <1>9 DEF InvRequest, Get
  <2>3. InvRequest(r)'  BY <1>3, <2>1, <2>2 DEF InvRequest
  <2> QED BY <1>1, <1>4, <1>5, <2>1, <2>3, QuietClient
<1> QED BY <1>6, <1>7, <1>8, <1>9 DEF Verify, Create, Get, Logout, Leave

LEMMA AskStep ==
  ASSUME IInv, NEW r \in Clients, Ask(r)
  PROVE  IInv'
<1>0. TypeOK /\ InvStores /\ InvClients /\ CredentialsTypeOK  BY DEF IInv, TypeOK
<1>1. /\ Begin(Server, "read", NoToken) /\ reader' = r /\ req[r].pc \in Asking
      /\ UNCHANGED <<issued, session, fails, req, bounds>>
  BY DEF Ask
<1>2. CredentialsTypeOK' /\ InvStores' /\ Grows  BY <1>0, <1>1, BeginStep
<1>3. TypeOK'  BY <1>0, <1>1, <1>2 DEF TypeOK, bounds
<1>4. call'[Server].pc = "stat"  BY <1>0, <1>1, BeginLaw DEF CredentialsTypeOK
<1>5. InvRequest(r)'
  <2>1. InvRequest(r) /\ password \in Nat /\ password' \in Nat /\ req[r].floor \in Nat
    BY <1>0, <1>2 DEF InvClients, TypeOK, CredentialsTypeOK, Requests
  <2> QED BY <1>1, <1>2, <2>1 DEF InvRequest, Grows
<1>6. InvClients'  BY <1>0, <1>1, <1>2, <1>4, <1>5, ClientMoves DEF At
<1> QED BY <1>2, <1>3, <1>6 DEF IInv

\* The answer is given from a document that is not older than the question, or
\* the request is marked as one that was answered blindly.
LEMMA AnswerStep ==
  ASSUME IInv, NEW r \in Clients, Answer(r)
  PROVE  IInv'
<1>0. /\ TypeOK /\ InvStores /\ InvClients /\ CredentialsTypeOK
      /\ req \in [Clients -> Requests] /\ req[r] \in Requests /\ InvRequest(r) /\ InvQuestion(r)
      /\ data[Server] \in Document /\ call[Server].pc = "loaded" /\ reader = r
  BY ClientFacts DEF IInv, TypeOK, CredentialsTypeOK, Answer, At
<1>1. /\ Ends(Server) /\ reader' = Server
      /\ UNCHANGED <<file, data, fresh, seen, clock, issued, breaks, acks, races, session, fails, bounds>>
  BY DEF Answer, stamps
<1>2. CredentialsTypeOK' /\ InvStores' /\ Grows
  <2>1. seen' \subseteq Stores  BY <1>0, <1>1 DEF CredentialsTypeOK
  <2> QED BY <1>0, <1>1, <2>1, EndStep
<1>3. UNCHANGED <<dead, clobbered>> /\ reader' \notin Clients  BY <1>1 DEF acks, races
<1>4. ASSUME req' \in [Clients -> Requests], \A m \in Clients \ {r} : req'[m] = req[m], InvRequest(r)'
      PROVE  IInv'
  <2>1. TypeOK'  BY <1>0, <1>1, <1>2, <1>4 DEF TypeOK, bounds
  <2>2. InvClients'  BY <1>0, <1>1, <1>2, <1>3, <1>4, ClientMoves
  <2> QED BY <1>2, <2>1, <2>2 DEF IInv
<1>5. CASE Over(r)
  <2>1. /\ req' \in [Clients -> Requests] /\ req'[r] = Nothing /\ \A m \in Clients \ {r} : req'[m] = req[m]
    BY <1>0, <1>5, RequestOver
  <2>2. InvRequest(r)'  BY <1>3, <2>1, NothingLaw DEF InvRequest
  <2> QED BY <1>4, <2>1, <2>2
<1>6. CASE \E place \in {"agentIn", "api", "in"} : req[r].pc \in {"agent", "api"} /\ Becomes(r, place)
  <2>1. PICK place \in {"agentIn", "api", "in"} : Becomes(r, place)  BY <1>6
  <2>2. /\ req' \in [Clients -> Requests] /\ req'[r].pc = place /\ req'[r].late = req[r].late
        /\ req'[r].token = req[r].token /\ \A m \in Clients \ {r} : req'[m] = req[m]
    BY <1>0, <2>1, RequestMoves DEF Asking
  <2>3. InvRequest(r)'  BY <1>0, <1>3, <2>2 DEF InvRequest, Asking
  <2> QED BY <1>4, <2>2, <2>3
<1>7. CASE req[r].pc = "password" /\ req' = [req EXCEPT ![r].pc = "verify", ![r].ver = data[Server].admin]
  <2> DEFINE new == [req[r] EXCEPT !.pc = "verify", !.ver = data[Server].admin]
  <2>1. req' = [req EXCEPT ![r] = new]  BY <1>7
  <2>2. data[Server].admin \in 0 .. MaxClock  BY <1>0 DEF Document
  <2>3. new \in Requests /\ new.pc = "verify" /\ new.late = req[r].late  BY <1>0, <2>2 DEF Requests
  <2>4. ~req[r].late  BY <1>0, <1>7 DEF InvRequest
  <2> HIDE DEF new
  <2>5. req' \in [Clients -> Requests] /\ req'[r] = new /\ \A m \in Clients \ {r} : req'[m] = req[m]
    BY <1>0, <2>1, <2>3
  <2>6. InvRequest(r)'  BY <1>3, <2>3, <2>4, <2>5 DEF InvRequest
  <2> QED BY <1>4, <2>5, <2>6
<1>8. CASE /\ req[r].pc = "cookie"
           /\ req' = [req EXCEPT ![r].pc = "sweep", ![r].ver = data[Server].admin, ![r].blind = Server \in hidden]
  <2> DEFINE b == (Server \in hidden)
             new == [req[r] EXCEPT !.pc = "sweep", !.ver = data[Server].admin, !.blind = b]
  <2>1. req' = [req EXCEPT ![r] = new]  BY <1>8
  <2>2. data[Server].admin \in 0 .. MaxClock /\ b \in BOOLEAN  BY <1>0 DEF Document
  <2>3. clobbered \/ b \/ req[r].floor <= data[Server].admin  BY <1>0, <1>8 DEF InvQuestion, At
  <2>4. ~req[r].late  BY <1>0, <1>8 DEF InvRequest
  <2> HIDE DEF b
  <2>5. /\ new \in Requests /\ new.pc = "sweep" /\ new.late = req[r].late /\ new.floor = req[r].floor
        /\ new.ver = data[Server].admin /\ new.blind = b
    BY <1>0, <2>2 DEF Requests
  <2> HIDE DEF new
  <2>6. req' \in [Clients -> Requests] /\ req'[r] = new /\ \A m \in Clients \ {r} : req'[m] = req[m]
    BY <1>0, <2>1, <2>5
  <2>7. InvRequest(r)'  BY <1>3, <2>3, <2>4, <2>5, <2>6 DEF InvRequest
  <2> QED BY <1>4, <2>6, <2>7
<1> QED
  <2>1. CASE req[r].pc = "agent"
    <3>1. Becomes(r, IF req[r].token = data[Server].agent THEN "agentIn" ELSE "api")  BY <2>1 DEF Answer
    <3> QED BY <1>6, <2>1, <3>1
  <2>2. CASE req[r].pc = "api"
    <3>1. Becomes(r, "in") \/ Over(r)  BY <2>2 DEF Answer
    <3> QED BY <1>5, <1>6, <2>2, <3>1
  <2>3. CASE req[r].pc = "password"
    <3>1. req' = [req EXCEPT ![r].pc = "verify", ![r].ver = data[Server].admin]  BY <2>3 DEF Answer
    <3> QED BY <1>7, <2>3, <3>1
  <2>4. CASE req[r].pc = "cookie"
    <3>1. req' = [req EXCEPT ![r].pc = "sweep", ![r].ver = data[Server].admin, ![r].blind = Server \in hidden]
      BY <2>4 DEF Answer
    <3> QED BY <1>8, <2>4, <3>1
  <2> QED BY <1>0, <2>1, <2>2, <2>3, <2>4 DEF InvRequest, Asking

LEMMA NoAnswerStep ==
  ASSUME IInv, NEW r \in Clients, NoAnswer(r)
  PROVE  IInv'
<1>0. /\ TypeOK /\ InvStores /\ InvClients /\ CredentialsTypeOK
      /\ req \in [Clients -> Requests] /\ req[r] \in Requests /\ InvRequest(r) /\ fails \in Nat
  BY ClientFacts DEF IInv, TypeOK
<1>1. /\ ReadFails(Server) /\ reader' = Server /\ UNCHANGED <<session, bounds>>
      /\ fails' \in Nat
  BY <1>0 DEF NoAnswer
<1>2. CredentialsTypeOK' /\ InvStores' /\ Grows  BY <1>0, <1>1, ReadFailsStep
<1>3. UNCHANGED <<dead, clobbered>> /\ reader' \notin Clients  BY <1>1 DEF ReadFails, acks, races
<1>4. ASSUME req' \in [Clients -> Requests], \A m \in Clients \ {r} : req'[m] = req[m], InvRequest(r)'
      PROVE  IInv'
  <2>1. TypeOK'  BY <1>0, <1>1, <1>2, <1>4 DEF TypeOK, bounds
  <2>2. InvClients'  BY <1>0, <1>1, <1>2, <1>3, <1>4, ClientMoves
  <2> QED BY <1>2, <2>1, <2>2 DEF IInv
<1>5. CASE Over(r)
  <2>1. /\ req' \in [Clients -> Requests] /\ req'[r] = Nothing /\ \A m \in Clients \ {r} : req'[m] = req[m]
    BY <1>0, <1>5, RequestOver
  <2>2. InvRequest(r)'  BY <1>3, <2>1, NothingLaw DEF InvRequest
  <2> QED BY <1>4, <2>1, <2>2
<1>6. CASE req[r].pc = "agent" /\ Becomes(r, "api")
  <2>1. /\ req' \in [Clients -> Requests] /\ req'[r].pc = "api" /\ req'[r].late = req[r].late
        /\ req'[r].token = req[r].token /\ \A m \in Clients \ {r} : req'[m] = req[m]
    BY <1>0, <1>6, RequestMoves DEF Asking
  <2>2. InvRequest(r)'  BY <1>0, <1>3, <2>1 DEF InvRequest, Asking
  <2> QED BY <1>4, <2>1, <2>2
<1>7. CASE req[r].pc = "cookie" /\ req' = [req EXCEPT ![r].pc = "sweep", ![r].ver = 0, ![r].blind = TRUE]
  <2>0. PICK b \in BOOLEAN : b = TRUE  OBVIOUS
  <2> DEFINE new == [req[r] EXCEPT !.pc = "sweep", !.ver = 0, !.blind = b]
  <2>1. req' = [req EXCEPT ![r] = new]  BY <1>7, <2>0
  <2>2. ~req[r].late  BY <1>0, <1>7 DEF InvRequest
  <2>3. /\ new \in Requests /\ new.pc = "sweep" /\ new.late = req[r].late /\ new.blind = b
    <3>1. 0 \in 0 .. MaxClock  OBVIOUS
    <3> QED BY <1>0, <3>1 DEF Requests
  <2> HIDE DEF new
  <2>4. req' \in [Clients -> Requests] /\ req'[r] = new /\ \A m \in Clients \ {r} : req'[m] = req[m]
    BY <1>0, <2>1, <2>3
  <2>5. InvRequest(r)'  BY <1>3, <2>0, <2>2, <2>3, <2>4 DEF InvRequest
  <2> QED BY <1>4, <2>4, <2>5
<1> QED BY <1>5, <1>6, <1>7 DEF NoAnswer

LEMMA HandleStep ==
  ASSUME IInv, NEW r \in Clients, NEW op \in Mutations, Handle(r, op)
  PROVE  IInv'
<1>0. /\ TypeOK /\ InvStores /\ InvClients /\ CredentialsTypeOK
      /\ req \in [Clients -> Requests] /\ InvRequest(r)
  BY ClientFacts DEF IInv, TypeOK
<1>1. /\ Mutate(Server, op) /\ Over(r) /\ req[r].pc = "in" /\ UNCHANGED <<session, fails, reader, stops>>
      /\ edits < MaxEdits /\ edits' = edits + 1
  BY DEF Handle
<1>2. CredentialsTypeOK' /\ InvStores' /\ Grows  BY <1>0, <1>1, MutateStep
<1>3. /\ req' \in [Clients -> Requests] /\ req'[r] = Nothing /\ \A m \in Clients \ {r} : req'[m] = req[m]
  BY <1>0, <1>1, RequestOver
<1>4. TypeOK'
  <2>1. edits' \in 0 .. MaxEdits  BY <1>0, <1>1 DEF TypeOK
  <2> QED BY <1>0, <1>1, <1>2, <1>3, <2>1 DEF TypeOK
<1>5. reader' # r  BY <1>0, <1>1 DEF InvRequest, Asking
<1>6. InvRequest(r)'  BY <1>3, <1>5, NothingLaw DEF InvRequest
<1>7. InvClients'  BY <1>0, <1>1, <1>2, <1>3, <1>5, <1>6, ClientMoves
<1> QED BY <1>2, <1>4, <1>7 DEF IInv

LEMMA StopsStep ==
  ASSUME IInv, Stop
  PROVE  IInv'
<1>0. TypeOK /\ InvStores  BY DEF IInv
<1>1. CredentialsTypeOK' /\ InvStores' /\ Grows  BY <1>0, StopStep
<1>2. /\ session' = [b \in Clients |-> NoSession] /\ fails' = 0 /\ UNCHANGED edits
      /\ req' = [r \in Clients |-> Nothing] /\ reader' = Server /\ stops < MaxStops /\ stops' = stops + 1
  BY DEF Stop
<1>3. TypeOK'
  <2>1. stops' \in 0 .. MaxStops  BY <1>0, <1>2 DEF TypeOK
  <2> QED BY <1>0, <1>1, <1>2, <2>1, NothingLaw DEF TypeOK
<1>4. ASSUME NEW r \in Clients PROVE InvRequest(r)' /\ InvQuestion(r)'
  <2>1. req'[r] = Nothing /\ reader' # r  BY <1>2
  <2> QED BY <2>1, NothingLaw DEF InvRequest, InvQuestion
<1> QED BY <1>1, <1>3, <1>4 DEF IInv, InvClients

LEMMA ForgiveStep ==
  ASSUME IInv, Forgive \/ (Background /\ UNCHANGED svars) \/ UNCHANGED vars
  PROVE  IInv'
<1>0. TypeOK /\ InvStores /\ InvClients /\ CredentialsTypeOK /\ fails \in Nat  BY DEF IInv, TypeOK
<1>1. UNCHANGED cvars \/ Background  BY DEF Forgive, vars
<1>2. CredentialsTypeOK' /\ InvStores' /\ Grows  BY <1>0, <1>1, IdleStep, BackgroundStep
<1>3. UNCHANGED <<session, req, reader, edits, stops>> /\ fails' \in Nat
  BY <1>0 DEF Forgive, vars, svars, bounds
<1>4. TypeOK'  BY <1>0, <1>2, <1>3 DEF TypeOK
<1>5. ASSUME NEW r \in Clients PROVE InvRequest(r)' /\ InvQuestion(r)'
  <2>1. req'[r] = req[r] /\ session'[r] = session[r] /\ reader' = reader  BY <1>3
  <2> QED BY <1>0, <1>2, <2>1, ClientKept
<1> QED BY <1>2, <1>4, <1>5 DEF IInv, InvClients

-----------------------------------------------------------------------------
(* The specification.                                                      *)

LEMMA InitStep == Init => IInv
<1> SUFFICES ASSUME Init PROVE IInv  OBVIOUS
<1>1. /\ CredentialsInit /\ session = [b \in Clients |-> NoSession] /\ fails = 0 /\ edits = 0 /\ stops = 0
      /\ req = [r \in Clients |-> Nothing] /\ reader = Server
  BY DEF Init
<1>2. /\ data = [p \in Stores |-> Empty] /\ fresh = {} /\ seen = {}
      /\ call = [p \in Stores |-> Resting("off")]
      /\ dead = {} /\ breaks = 0 /\ raced = {} /\ hidden = {} /\ clobbered = FALSE
  BY <1>1 DEF CredentialsInit
<1>3. Resting("off") \in Calls /\ Resting("off").pc = "off" /\ Resting("off").op = "read" /\ Resting("off").next = Empty
  <2>1. "off" \in Places  BY DEF Places
  <2> QED BY <2>1, RestingLaw
<1>4. /\ file \in [doc : Document, exists : BOOLEAN, ok : BOOLEAN] /\ (~file.exists => file.doc = Empty)
      /\ clock \in 0 .. MaxClock /\ issued \in 0 .. MaxTokens /\ live \subseteq Tokens /\ password \in 0 .. clock
      /\ Past(file.doc) /\ live \subseteq TokensOf(file.doc) /\ password <= file.doc.admin
  <2>1. CASE /\ file = [doc |-> Empty, exists |-> FALSE, ok |-> TRUE]
             /\ clock = 0 /\ issued = 0 /\ live = {} /\ password = 0
    BY <2>1, EmptyLaw DEF Past
  <2>2. CASE file = Bootstrapped /\ clock = 1 /\ issued = 1 /\ live = {1} /\ password = 1
    <3> DEFINE doc == [admin |-> 1, api |-> {}, agent |-> 1]
    <3>1. doc \in Document /\ TokensOf(doc) = {1} /\ doc.admin = 1  BY DEF Document, TokensOf
    <3>2. file = [doc |-> doc, exists |-> TRUE, ok |-> TRUE]  BY <2>2 DEF Bootstrapped
    <3> HIDE DEF doc
    <3> QED BY <2>2, <3>1, <3>2 DEF Past
  <2> QED BY <1>1, <2>1, <2>2 DEF CredentialsInit
<1>5. CredentialsTypeOK
  <2>1. data \in [Stores -> Document]  BY <1>2, EmptyLaw
  <2>2. call \in [Stores -> Calls]  BY <1>2, <1>3
  <2>3. breaks \in 0 .. MaxBreaks  BY <1>2
  <2>4. clobbered \in BOOLEAN  BY <1>2
  <2>5. /\ fresh \subseteq Stores /\ seen \subseteq Stores /\ dead \subseteq Tokens
        /\ raced \subseteq Stores /\ hidden \subseteq Stores
    BY <1>2
  <2> QED BY <1>4, <2>1, <2>2, <2>3, <2>4, <2>5 DEF CredentialsTypeOK
<1>6. TypeOK  BY <1>1, <1>5, NothingLaw DEF TypeOK
<1>7. InvClock
  <2>1. Pending = {}  BY <1>2, <1>3 DEF Pending
  <2>2. Cardinality({}) = 0  BY FS_EmptySet
  <2> QED BY <1>4, <2>1, <2>2 DEF InvClock
<1>8. ConfirmedStands /\ dead \subseteq 1 .. issued  BY <1>2, <1>4 DEF ConfirmedStands
<1>9. ASSUME NEW p \in Stores PROVE InvPast(p) /\ InvToken(p) /\ InvCall(p) /\ InvStamp(p)
  <2>1. data[p] = Empty /\ call[p] = Resting("off")  BY <1>2
  <2>2. InvPast(p)  BY <1>3, <1>4, <2>1, EmptyLaw DEF InvPast, Past
  <2> QED BY <1>2, <1>3, <2>1, <2>2 DEF InvToken, Unwritten, InvCall, Writing, InvStamp
<1>10. ASSUME NEW r \in Clients PROVE InvRequest(r) /\ InvQuestion(r)
  <2>1. req[r] = Nothing /\ reader # r  BY <1>1
  <2> QED BY <2>1, NothingLaw DEF InvRequest, InvQuestion
<1> QED BY <1>4, <1>6, <1>7, <1>8, <1>9, <1>10 DEF IInv, InvStores, InvClients

LEMMA NextStep == IInv /\ [Next]_vars => IInv'
<1> SUFFICES ASSUME IInv, [Next]_vars PROVE IInv'  OBVIOUS
<1>1. CASE Background /\ UNCHANGED svars  BY <1>1, ForgiveStep
<1>2. CASE Forgive \/ UNCHANGED vars  BY <1>2, ForgiveStep
<1>3. CASE Stop  BY <1>3, StopsStep
<1>4. CASE \E r \in Clients : Client(r)
  <2>1. PICK r \in Clients : Client(r)  BY <1>4
  <2> QED
    BY <2>1, ArriveStep, AskStep, AnswerStep, NoAnswerStep, SessionStep, HandleStep DEF Client
<1> QED BY <1>1, <1>2, <1>3, <1>4 DEF Next

LEMMA Inductive == Spec => []IInv
BY InitStep, NextStep, PTL DEF Spec

\* A stamp in memory that is the file's means the file's document, for any number
\* of commands beside the controller: reloadLocked may skip the file only when it
\* would read what it has.
THEOREM StampMeansDocument == Spec => []Inv
<1>1. IInv => Inv
  BY DEF IInv, InvStores, InvStamp, Inv, FreshIsCurrent, TypeOK, CredentialsTypeOK
<1> QED BY Inductive, <1>1, PTL

\* What mutate told a caller stands: tokens that were issued are in the file,
\* revoked ones are not, and the password is not older than the last one set,
\* unless a write came between another's read and its write.
THEOREM ConfirmationsStand == Spec => []ConfirmedStands
<1>1. IInv => ConfirmedStands  BY DEF IInv, InvStores
<1> QED BY Inductive, <1>1, PTL

\* Who takes a step that changes a client's request.
LEMMA ByClient ==
  ASSUME IInv, [Next]_vars, NEW r \in Clients, req'[r].pc \in {"in", "agentIn"}
  PROVE  req'[r] = req[r] \/ Answer(r) \/ (Get(r) /\ session[r] # NoSession)
<1>0. req \in [Clients -> Requests] /\ Nothing.pc = "idle"  BY ClientFacts, NothingLaw
<1>1. CASE Stop  BY <1>0, <1>1 DEF Stop
<1>2. ASSUME NEW m \in Clients, Client(m), m # r PROVE req'[r] = req[r]
  <2>1. \A place : Becomes(m, place) => req'[r] = req[r]  BY <1>0, <1>2 DEF Becomes
  <2>2. Over(m) => req'[r] = req[r]  BY <1>0, <1>2 DEF Over
  <2>3. CASE Login(m) \/ Visit(m) \/ Bear(m)  BY <1>0, <1>2, <2>3 DEF Login, Visit, Bear
  <2>4. CASE Ask(m)  BY <2>4 DEF Ask
  <2>5. CASE NoAnswer(m)  BY <1>0, <1>2, <2>1, <2>2, <2>5 DEF NoAnswer
  <2>6. CASE Verify(m) \/ Create(m) \/ Sweep(m) \/ Get(m) \/ Logout(m) \/ Leave(m) \/ \E op \in Mutations : Handle(m, op)
    BY <2>1, <2>2, <2>6 DEF Verify, Create, Sweep, Get, Logout, Leave, Handle
  <2>7. CASE Answer(m)
    <3>1. req[m].pc \in Asking  BY <2>7, ClientFacts DEF Answer, InvRequest
    <3> QED BY <1>0, <1>2, <2>1, <2>2, <2>7, <3>1 DEF Answer, Asking
  <2> QED BY <1>2, <2>3, <2>4, <2>5, <2>6, <2>7 DEF Client
<1>3. CASE Client(r)
  <2>1. ~Over(r)  BY <1>0 DEF Over
  <2>2. \A place : Becomes(r, place) => req'[r].pc = place
    BY <1>0 DEF Becomes, Requests
  <2>3. CASE Login(r) \/ Visit(r) \/ Bear(r)
    <3>1. req[r] \in Requests  BY <1>0
    <3>2. CASE Login(r)  BY <1>0, <3>1, <3>2 DEF Login, Requests
    <3>3. CASE Visit(r)  BY <1>0, <3>1, <3>3 DEF Visit, Requests
    <3>4. CASE Bear(r)  BY <1>0, <3>1, <3>4 DEF Bear, Requests
    <3> QED BY <2>3, <3>2, <3>3, <3>4
  <2>4. CASE NoAnswer(r)
    BY <1>0, <2>1, <2>2, <2>4 DEF NoAnswer, Requests
  <2>5. CASE Verify(r) \/ Create(r) \/ Sweep(r) \/ Get(r) \/ Logout(r) \/ Leave(r) \/ \E op \in Mutations : Handle(r, op)
    BY <2>1, <2>2, <2>5 DEF Verify, Create, Sweep, Get, Logout, Leave, Handle
  <2>6. CASE Ask(r)  BY <2>6 DEF Ask
  <2> QED BY <1>3, <2>3, <2>4, <2>5, <2>6 DEF Client
<1>4. CASE (Background /\ UNCHANGED svars) \/ Forgive \/ UNCHANGED vars
  BY <1>4 DEF svars, vars, Forgive
<1> QED BY <1>1, <1>2, <1>3, <1>4 DEF Next

\* A request that came after its token was confirmed revoked gets no answer that
\* lets it in, unless an overlapping writer undid the revocation (clobbered) or
\* the controller's stamp hides it (hidden).
THEOREM RevokedStaysOut == Spec => RevokedIsRefused
<1>1. ASSUME IInv, [Next]_vars
      PROVE  \A m \in Clients :
               req[m].pc \notin {"in", "agentIn"} /\ req'[m].pc \in {"in", "agentIn"} /\ req[m].late =>
                 clobbered \/ Server \in hidden
  <2> SUFFICES ASSUME NEW m \in Clients, req[m].pc \notin {"in", "agentIn"},
                      req'[m].pc \in {"in", "agentIn"}, req[m].late
               PROVE  clobbered \/ Server \in hidden
    OBVIOUS
  <2>0. InvRequest(m) /\ InvQuestion(m) /\ req \in [Clients -> Requests] /\ dead \subseteq Tokens  BY <1>1, ClientFacts
  <2>1. req[m].token \in dead /\ req[m].pc \in {"agent", "api"}  BY <2>0 DEF InvRequest
  <2>2. Answer(m)  BY <1>1, <2>1, ByClient DEF Get
  <2>3. clobbered \/ Server \in hidden \/ req[m].token \notin TokensOf(data[Server])
    BY <2>0, <2>2 DEF InvQuestion, Answer
  <2>4. req[m].token # NoToken  BY <2>0, <2>1
  <2>5. CASE req[m].pc = "agent"
    <3>1. Becomes(m, IF req[m].token = data[Server].agent THEN "agentIn" ELSE "api")  BY <2>2, <2>5 DEF Answer
    <3>2. req[m].token = data[Server].agent  BY <2>0, <3>1 DEF Becomes, Requests
    <3> QED BY <2>3, <2>4, <3>2 DEF TokensOf
  <2>6. CASE req[m].pc = "api"
    <3>1. IF req[m].token \in data[Server].api THEN Becomes(m, "in") ELSE Over(m)  BY <2>2, <2>6 DEF Answer
    <3>2. ~Over(m)  BY <2>0, NothingLaw DEF Over
    <3> QED BY <2>3, <3>1, <3>2 DEF TokensOf
  <2> QED BY <2>1, <2>5, <2>6
<1> QED BY Inductive, <1>1, PTL DEF Spec, RevokedIsRefused

\* A session from an old password lets nobody in who comes after the new one was
\* confirmed, with the exceptions of SessionIsCurrent: a login under way at that
\* moment, a password undone (clobbered), and an answer given without the file's
\* document (blind).
THEOREM OldSessionStaysOut == Spec => SessionIsCurrent
<1>1. ASSUME IInv, [Next]_vars
      PROVE  \A b \in Clients :
               req[b].pc = "get" /\ req'[b].pc = "in" /\ session[b].pw = session[b].created =>
                 session[b].pw >= req[b].floor \/ clobbered \/ req[b].blind
  <2> SUFFICES ASSUME NEW b \in Clients, req[b].pc = "get", req'[b].pc = "in",
                      session[b].pw = session[b].created
               PROVE  session[b].pw >= req[b].floor \/ clobbered \/ req[b].blind
    OBVIOUS
  <2>0. /\ InvRequest(b) /\ req \in [Clients -> Requests]
        /\ session[b].created \in Nat /\ req[b].ver \in Nat /\ req[b].floor \in Nat
        /\ InvQuestion(b) /\ (reader = b => req[b].pc \in Asking)
    BY <1>1, ClientFacts DEF InvRequest
  <2>1. session[b] # NoSession
    BY <1>1, <2>0, ByClient DEF Answer, Asking
  <2> QED BY <2>0, <2>1 DEF InvRequest
<1> QED BY Inductive, <1>1, PTL DEF Spec, SessionIsCurrent
=============================================================================
