------------------------------ MODULE Sessions ------------------------------
(***************************************************************************)
(* Who may come in: logins, sessions and bearer tokens in the controller,  *)
(* while commands change the credential file under it.  An HTTP request    *)
(* asks the controller's AuthStore one question at a time; between two     *)
(* answers everything may change.                                          *)
(*                                                                         *)
(* A password is known by its number (0: never set), so a browser can try  *)
(* an old one, the new one, or one that is not in force yet.  CSRF and     *)
(* origin checks refuse a request or let it pass; they keep no state.      *)
(***************************************************************************)
EXTENDS Credentials

CONSTANTS
  Clients,     \* browsers, agents and automation, all of one address
  Limit,       \* loginFailureLimit
  MaxEdits,    \* bound on changes made through the API
  MaxStops     \* bound on stops of the controller

ASSUME SessionsAssumption == {Limit, MaxEdits, MaxStops} \subseteq Nat /\ Server \notin Clients

NoSession == [created |-> 0, pw |-> 0]

VARIABLES
  session,  \* session[r]: the session r's cookie names; created is 0 if it is gone
  fails,    \* failures of the address within the window
  req,      \* req[r]: the request of a client
  reader,   \* whose question the AuthStore answers; the server itself: nobody's
  edits, stops

bounds == <<edits, stops>>
svars == <<session, fails, req, reader, bounds>>
vars == <<cvars, svars>>

Asking == {"agent", "api", "password", "cookie"}
Requests == [pc : Asking \cup {"idle", "verify", "create", "sweep", "get", "in", "agentIn"},
             token : Tokens \cup {NoToken}, guess : 0 .. MaxClock, ver : 0 .. MaxClock,
             late : BOOLEAN, floor : 0 .. MaxClock, blind : BOOLEAN]
Nothing == [pc |-> "idle", token |-> NoToken, guess |-> 0, ver |-> 0,
            late |-> FALSE, floor |-> 0, blind |-> FALSE]

TypeOK ==
  /\ CredentialsTypeOK
  /\ session \in [Clients -> [created : 0 .. MaxClock, pw : 0 .. MaxClock]]
  /\ fails \in Nat /\ edits \in 0 .. MaxEdits /\ stops \in 0 .. MaxStops
  /\ req \in [Clients -> Requests] /\ reader \in Clients \cup {Server}

Init ==
  /\ CredentialsInit
  /\ session = [b \in Clients |-> NoSession] /\ fails = 0 /\ edits = 0 /\ stops = 0
  /\ req = [r \in Clients |-> Nothing] /\ reader = Server

Up == ~At(Server, "off") /\ call[Server].op # "open"
Becomes(r, pc) == req' = [req EXCEPT ![r].pc = pc]
Over(r) == req' = [req EXCEPT ![r] = Nothing]

-----------------------------------------------------------------------------
(* Requests arrive.                                                        *)

\* handleLogin, unless the limiter has had enough of this address.
Login(b) ==
  /\ Up /\ req[b].pc = "idle" /\ fails < Limit
  /\ \E guess \in 0 .. clock : req' = [req EXCEPT ![b].pc = "password", ![b].guess = guess]
  /\ UNCHANGED <<cvars, session, fails, reader, bounds>>

\* A request with a cookie, and one with a token.
Visit(b) ==
  /\ Up /\ req[b].pc = "idle"
  /\ req' = [req EXCEPT ![b].pc = "cookie", ![b].floor = password]
  /\ UNCHANGED <<cvars, session, fails, reader, bounds>>

Bear(m) ==
  /\ Up /\ req[m].pc = "idle"
  /\ \E t \in 1 .. issued :
       req' = [req EXCEPT ![m].pc = "agent", ![m].token = t, ![m].late = t \in dead]
  /\ UNCHANGED <<cvars, session, fails, reader, bounds>>

-----------------------------------------------------------------------------
(* One question to the AuthStore: VerifyAgentToken, VerifyAPIToken,        *)
(* VerifyPassword or AdminUpdatedAt.                                       *)

Ask(r) ==
  /\ At(Server, "idle") /\ req[r].pc \in Asking
  /\ Begin(Server, "read", NoToken) /\ reader' = r
  /\ UNCHANGED <<issued, session, fails, req, bounds>>

\* The callback of read, and the call returns.
Answer(r) ==
  /\ At(Server, "loaded") /\ call[Server].op = "read" /\ reader = r
  /\ LET doc == data[Server]
     IN  CASE req[r].pc = "agent"    -> Becomes(r, IF req[r].token = doc.agent THEN "agentIn" ELSE "api")
           [] req[r].pc = "api"      -> IF req[r].token \in doc.api THEN Becomes(r, "in") ELSE Over(r)
           [] req[r].pc = "password" -> req' = [req EXCEPT ![r].pc = "verify", ![r].ver = doc.admin]
           [] req[r].pc = "cookie"   -> req' = [req EXCEPT ![r].pc = "sweep", ![r].ver = doc.admin,
                                                           ![r].blind = Server \in hidden]
  /\ Ends(Server) /\ reader' = Server
  /\ UNCHANGED <<file, data, stamps, clock, issued, breaks, acks, races, session, fails, bounds>>

\* A file that cannot be read authenticates no token and counts as a failed
\* login, but it does not say how old a session may be.
NoAnswer(r) ==
  /\ ReadFails(Server) /\ call[Server].op = "read" /\ reader = r
  /\ \/ req[r].pc = "agent" /\ Becomes(r, "api") /\ UNCHANGED fails
     \/ req[r].pc = "api" /\ Over(r) /\ UNCHANGED fails
     \/ req[r].pc = "password" /\ Over(r) /\ fails' = fails + 1
     \/ req[r].pc = "cookie" /\ UNCHANGED fails
        /\ req' = [req EXCEPT ![r].pc = "sweep", ![r].ver = 0, ![r].blind = TRUE]
  /\ reader' = Server
  /\ UNCHANGED <<session, bounds>>

-----------------------------------------------------------------------------
(* Logins and sessions.                                                    *)

\* The password is hashed after the store was left: no credential yet, a
\* failure, or a success that forgives the earlier failures.
Verify(b) ==
  /\ req[b].pc = "verify"
  /\ \/ req[b].ver = 0 /\ Over(b) /\ UNCHANGED fails
     \/ req[b].ver # 0 /\ req[b].guess # req[b].ver /\ Over(b) /\ fails' = fails + 1
     \/ req[b].ver # 0 /\ req[b].guess = req[b].ver /\ Becomes(b, "create") /\ fails' = 0
  /\ UNCHANGED <<cvars, session, reader, bounds>>

\* sessions.Create: the session is as old as this step, not as the password.
Create(b) ==
  /\ req[b].pc = "create"
  /\ session' = [session EXCEPT ![b] = [created |-> clock, pw |-> req[b].guess]]
  /\ Over(b)
  /\ UNCHANGED <<cvars, fails, reader, bounds>>

\* Mutant: the sessions of the moment of the rotation, not those before it, go.
SweepEqual(b) ==
  /\ req[b].pc = "sweep"
  /\ session' = [x \in Clients |-> IF req[b].ver # 0 /\ session[x].created = req[b].ver
                                    THEN NoSession ELSE session[x]]
  /\ Becomes(b, "get")
  /\ UNCHANGED <<cvars, fails, reader, bounds>>

\* DeleteBefore, unless there is no credential to compare with.
Sweep(b) ==
  /\ req[b].pc = "sweep"
  /\ session' = [x \in Clients |-> IF session[x].created < req[b].ver
                                    THEN NoSession ELSE session[x]]
  /\ Becomes(b, "get")
  /\ UNCHANGED <<cvars, fails, reader, bounds>>

\* sessions.Get: gone, expired, or good.
Get(b) ==
  /\ req[b].pc = "get"
  /\ \/ session[b] # NoSession /\ Becomes(b, "in") /\ UNCHANGED session
     \/ session' = [session EXCEPT ![b] = NoSession] /\ Over(b)
  /\ UNCHANGED <<cvars, fails, reader, bounds>>

\* The handler of an authenticated admin request changes credentials, ...
Handle(r, op) ==
  /\ req[r].pc = "in" /\ op # "SetAdminPassword"
  /\ edits < MaxEdits /\ edits' = edits + 1
  /\ Mutate(Server, op) /\ Over(r)
  /\ UNCHANGED <<session, fails, reader, stops>>

\* ... ends the session, or does what other modules describe.
Logout(b) ==
  /\ req[b].pc = "in"
  /\ session' = [session EXCEPT ![b] = NoSession] /\ Over(b)
  /\ UNCHANGED <<cvars, fails, reader, bounds>>

Leave(r) ==
  /\ req[r].pc \in {"in", "agentIn"} /\ Over(r)
  /\ UNCHANGED <<cvars, session, fails, reader, bounds>>

\* A failure is older than loginFailureWindow.
Forgive == fails > 0 /\ fails' = fails - 1 /\ UNCHANGED <<cvars, session, req, reader, bounds>>

\* The controller stops: sessions, failures and requests are only in memory.
Stop ==
  /\ Up /\ stops < MaxStops /\ stops' = stops + 1
  /\ call' = [call EXCEPT ![Server] = Resting("off")]
  /\ data' = [data EXCEPT ![Server] = Empty]
  /\ fresh' = fresh \ {Server} /\ seen' = seen \ {Server} /\ hidden' = hidden \ {Server}
  /\ session' = [b \in Clients |-> NoSession] /\ fails' = 0
  /\ req' = [r \in Clients |-> Nothing] /\ reader' = Server
  /\ UNCHANGED <<file, clock, issued, breaks, acks, raced, clobbered, edits>>

-----------------------------------------------------------------------------
\* What changes the file or a store without a client.
Background ==
  \/ \E p \in Stores : NewAuthStore(p) \/ Stat(p) \/ ReadFile(p) \/ Change(p) \/ Write(p) \/ Restat(p)
  \/ \E p \in Stores : (p = Server => call[p].op # "read") /\ ReadFails(p)
  \/ \E c \in Commands, op \in Mutations : Mutate(c, op)
  \/ Spoil \/ Repair

Client(r) ==
  \/ Login(r) \/ Visit(r) \/ Bear(r) \/ Ask(r) \/ Answer(r) \/ NoAnswer(r)
  \/ Verify(r) \/ Create(r) \/ Sweep(r) \/ Get(r) \/ Logout(r) \/ Leave(r)
  \/ \E op \in Mutations : Handle(r, op)

Next ==
  \/ Background /\ UNCHANGED svars
  \/ \E r \in Clients : Client(r)
  \/ Forgive \/ Stop

Spec == Init /\ [][Next]_vars

-----------------------------------------------------------------------------
(* Properties                                                              *)

\* The types, and what every answer rests on: a stamp that is the file's means a
\* document that is the file's.
Inv == TypeOK /\ FreshIsCurrent

\* "A token revoked with the CLI" does not keep working: a request that came
\* after the revocation was confirmed is refused, by a running controller too,
\* and also when the file cannot be read.  Two cases are excepted: an overlapping
\* writer undid the revocation (clobbered), and the revocation came between a
\* write of the controller and the stat after it, which hides it (hidden).
RevokedIsRefused ==
  [][\A m \in Clients :
       req[m].pc \notin {"in", "agentIn"} /\ req'[m].pc \in {"in", "agentIn"} /\ req[m].late =>
         clobbered \/ Server \in hidden]_vars

\* "Sessions created before that are no longer trusted": a session from an old
\* password lets nobody in once the new one is confirmed.  Excepted are a login
\* that was under way while the password was set (its session is as young as the
\* new password), a new password that an overlapping writer undid (clobbered),
\* and a question that the controller answered without the file's document
\* (blind): the file could not be read, or its stamp hid the new one (hidden).
SessionIsCurrent ==
  [][\A b \in Clients :
       req[b].pc = "get" /\ req'[b].pc = "in" /\ session[b].pw = session[b].created =>
         session[b].pw >= req[b].floor \/ clobbered \/ req[b].blind]_vars
=============================================================================
