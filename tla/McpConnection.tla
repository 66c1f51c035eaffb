-------------------------- MODULE McpConnection --------------------------
(***************************************************************************)
(* One OAuth connection to an MCP server: McpOAuthService (authorization,  *)
(* callback, refresh), discovery and tool grants (McpServerService,        *)
(* McpGrantService) and McpConnectionTeardownService.                      *)
(*                                                                         *)
(* No transaction is open while the server or its authorization server is  *)
(* called: a flow copies the connection, calls out, and writes only if the *)
(* epoch and the ciphertext of the credentials are those it copied.  The   *)
(* paths that report a failure do not compare.  Any number of flows run    *)
(* side by side, and any of them may die.                                  *)
(*                                                                         *)
(* Every write of the credentials encrypts them anew, so a ciphertext is   *)
(* modelled by the number of the write.                                    *)
(***************************************************************************)
EXTENDS Naturals, FiniteSets

CONSTANTS
  Binding,    \* issuer, client and endpoints that a discovery of metadata finds
  Subject,    \* identities that a server may report
  None,       \* no binding, no subject, no principal
  MaxWrites,  \* bound: writes of credentials
  MaxFlows,   \* bound: starts, and discoveries, at the same time
  MaxRefreshes, \* bound: refreshes at the same time
  MaxEpoch    \* bound: a connection that is down is not torn down again after it

ASSUME NoneAssumption == None \notin Binding /\ None \notin Subject
ASSUME SizeAssumption == MaxWrites \in Nat \ {0} /\ MaxFlows \in Nat /\ MaxRefreshes \in Nat
                         /\ MaxEpoch \in Nat

VARIABLES
  conn,         \* the connection row with its decrypted credentials
  grant,        \* the grant of one tool to one expert
  starts,       \* authorizations that discover the metadata
  states,       \* OAuth states kept for the redirect, each taken once
  callbacks,    \* callbacks after their admission
  refreshes,    \* refreshes after their admission
  discoveries,  \* tool discoveries after their admission
  written       \* writes of credentials so far

vars == <<conn, grant, starts, states, callbacks, refreshes, discoveries, written>>
flows == <<starts, states, callbacks, refreshes, discoveries>>

(***************************************************************************)
(* cipher 0: no credentials.  The last four are history of the tokens that *)
(* were stored last: the binding they were obtained under, the callback    *)
(* that obtained the first of them, the write that stored them, and for    *)
(* those of a refresh the write that stored the ones they were given for.  *)
(***************************************************************************)
Tokens == [source : Binding \union {None}, auth : Nat, gen : Nat, parent : Nat]
Connection ==
  [status : {"connecting", "active", "degraded", "error", "disconnected", "revoked"},
   cipher : Nat, binding : Binding \union {None}, token : BOOLEAN,
   epoch : Nat, reauth : BOOLEAN, inventory : BOOLEAN,
   principal : {None} \union (Binding \X (Subject \union {None})), tokens : Tokens]

Down == {"disconnected", "revoked"}
Usable == conn.status \in {"active", "degraded"} /\ ~conn.reauth
Current_Kind(snap) == TRUE
Current(snap) == conn.epoch = snap.epoch /\ conn.cipher = snap.cipher

\* What a flow copies of the connection.
Snapshot == [epoch |-> conn.epoch, cipher |-> conn.cipher]

\* stale_grants_for_principal
Staled(g) == IF g.state \in {"none", "revoked"} THEN g ELSE [g EXCEPT !.state = "stale"]

\* Before a write that may change who the server takes us for.
Bump_Reset(changed) == IF changed THEN 0 ELSE conn.epoch
Bump(changed) == IF changed THEN conn.epoch + 1 ELSE conn.epoch
GrantsAfter(changed) == IF changed THEN Staled(grant) ELSE grant

\* The next write of the credentials.
Write == written < MaxWrites /\ written' = written + 1

\* An OAuth connection as it is created.
Init ==
  /\ conn = [status |-> "connecting", cipher |-> 1, binding |-> None, token |-> FALSE,
             epoch |-> 1, reauth |-> FALSE, inventory |-> FALSE, principal |-> None,
             tokens |-> [source |-> None, auth |-> 0, gen |-> 0, parent |-> 0]]
  /\ grant = [state |-> "none", epoch |-> 0, principal |-> None, auth |-> 0]
  /\ starts = {} /\ states = {} /\ callbacks = {} /\ refreshes = {} /\ discoveries = {}
  /\ written = 1

-----------------------------------------------------------------------------
\* start_authorization: admission, metadata, and the write that binds them.
BeginStart ==
  /\ Cardinality(starts) < MaxFlows
  /\ conn.status \notin Down /\ conn.cipher # 0
  /\ starts' = starts \union
       {[epoch |-> conn.epoch, cipher |-> conn.cipher, had |-> conn.principal # None]}
  /\ UNCHANGED <<conn, grant, states, callbacks, refreshes, discoveries, written>>

\* The metadata cannot be had; reported only if nothing has changed.
FailStart(s) ==
  /\ starts' = starts \ {s}
  /\ conn' = IF Current(s) /\ (s.had => conn.reauth)
             THEN [conn EXCEPT !.status = "error", !.reauth = TRUE]
             ELSE conn
  /\ UNCHANGED <<grant, states, callbacks, refreshes, discoveries, written>>

\* Old tokens stay in the credentials until the callback, so the connection
\* must be authorized again before it is used.
NeedsReauth_Asked(s, asked) == asked \/ conn.reauth
NeedsReauth(s, asked) == asked \/ s.had \/ conn.token \/ conn.reauth

PersistStart(s, binding, asked) ==
  LET changed == conn.binding # None /\ conn.binding # binding
      bound == [conn EXCEPT
                  !.status = "connecting", !.binding = binding, !.cipher = written + 1,
                  !.epoch = Bump(changed), !.principal = IF changed THEN None ELSE @,
                  !.reauth = NeedsReauth(s, asked)]
  IN  /\ Current(s)
      /\ Write
      /\ conn' = bound
      /\ grant' = GrantsAfter(changed)
      /\ starts' = starts \ {s}
      /\ states' \in {states, states \union
           {[epoch |-> bound.epoch, cipher |-> bound.cipher, binding |-> binding,
             reauth |-> bound.reauth]}}
      /\ UNCHANGED <<callbacks, refreshes, discoveries>>

\* The connection changed, or the request died.
EndStart(s) ==
  /\ starts' = starts \ {s}
  /\ UNCHANGED <<conn, grant, states, callbacks, refreshes, discoveries, written>>

-----------------------------------------------------------------------------
\* complete_callback takes the state and checks the connection; then it
\* exchanges the code.
Callback(st) ==
  /\ states' = states \ {st}
  /\ Current(st)
  /\ callbacks' = callbacks \union {st}
  /\ UNCHANGED <<conn, grant, starts, refreshes, discoveries, written>>

\* _mark_callback_failure looks at nothing but the kind of the connection.
Failed == [conn EXCEPT !.status = "error", !.reauth = TRUE]

\* The state is out of date, or the user or the issuer refused; reported in a
\* transaction of its own, so later than the state was taken.
RefuseCallback(st) ==
  /\ states' = states \ {st}
  /\ conn' \in {conn, Failed}
  /\ UNCHANGED <<grant, starts, callbacks, refreshes, discoveries, written>>

\* Without a subject: the callback knows only what it is bound to.
PersistCallback(c) ==
  LET who == <<c.binding, None>>
      changed == conn.principal # None /\ (conn.principal # who \/ c.reauth)
  IN  /\ Current(c)
      /\ Write
      /\ conn' = [conn EXCEPT
                    !.status = "active", !.reauth = FALSE, !.cipher = written + 1,
                    !.epoch = Bump(changed), !.principal = who,
                    !.token = TRUE,
                    !.tokens = [source |-> c.binding, auth |-> written + 1,
                                gen |-> written + 1, parent |-> 0]]
      /\ grant' = GrantsAfter(changed)
      /\ callbacks' = callbacks \ {c}
      /\ UNCHANGED <<starts, states, refreshes, discoveries>>

\* The code was refused, the connection has changed, or the request died.
FailCallback(c) ==
  /\ conn' \in {conn, Failed}
  /\ callbacks' = callbacks \ {c}
  /\ UNCHANGED <<grant, starts, states, refreshes, discoveries, written>>

-----------------------------------------------------------------------------
\* mark_reauthorization_required
MarkReauth ==
  conn' = [conn EXCEPT !.reauth = TRUE,
             !.status = IF @ = "active" THEN "degraded" ELSE @]

\* refresh_if_needed, when the token is about to expire; the token endpoint
\* may give a new refresh token for the old one or not, or refuse.
BeginRefresh ==
  /\ Cardinality(refreshes) < MaxRefreshes
  /\ conn.token /\ ~conn.reauth
  /\ refreshes' = refreshes \union
       {[epoch |-> conn.epoch, cipher |-> conn.cipher, given |-> conn.tokens]}
  /\ UNCHANGED <<conn, grant, starts, states, callbacks, discoveries, written>>

\* Nothing is written for a caller that finds other credentials.
MayPersist_Epoch(r) == conn.cipher # 0 /\ conn.epoch = r.epoch /\ ~conn.reauth
MayPersist(r) == Current(r) /\ ~conn.reauth

PersistRefresh(r) ==
  /\ MayPersist(r)
  /\ Write
  /\ conn' = [conn EXCEPT !.cipher = written + 1,
                 !.tokens = [r.given EXCEPT !.gen = written + 1, !.parent = r.given.gen]]
  /\ refreshes' = refreshes \ {r}
  /\ UNCHANGED <<grant, starts, states, callbacks, discoveries>>

\* The refresh was refused: reported whatever became of the connection since.
\* A refresh of the old tokens may have been refused after they were replaced.
FailRefresh(r) ==
  /\ MarkReauth
  /\ refreshes' = refreshes \ {r}
  /\ UNCHANGED <<grant, starts, states, callbacks, discoveries, written>>

\* The connection changed, the answer was lost, or the request died.
EndRefresh(r) ==
  /\ refreshes' = refreshes \ {r}
  /\ UNCHANGED <<conn, grant, starts, states, callbacks, discoveries, written>>

\* A tool call or a discovery is answered 401; it may have begun long ago.
Unauthorized ==
  /\ conn.tokens.auth # 0
  /\ MarkReauth
  /\ UNCHANGED <<grant, flows, written>>

-----------------------------------------------------------------------------
BeginDiscovery ==
  /\ Cardinality(discoveries) < MaxFlows
  /\ Usable /\ conn.cipher # 0
  /\ discoveries' = discoveries \union {Snapshot}
  /\ UNCHANGED <<conn, grant, starts, states, callbacks, refreshes, written>>

\* The server may say who we are; a new name is a new principal.  (An issuer or a
\* client that a discovery reports would be bound too; the client of src/ never
\* reports one.)
Import(d, subject, complete) ==
  LET who == <<conn.binding, subject>>
      changed == conn.principal # None /\ conn.principal # who
  IN  /\ Usable /\ Current(d)
      /\ Write
      /\ conn' = [conn EXCEPT
                    !.status = IF complete THEN "active" ELSE "degraded",
                    !.cipher = written + 1, !.epoch = Bump(changed), !.principal = who,
                    !.inventory = @ \/ complete]
      /\ grant' = GrantsAfter(changed)
      /\ discoveries' = discoveries \ {d}
      /\ UNCHANGED <<starts, states, callbacks, refreshes>>

EndDiscovery(d) ==
  /\ discoveries' = discoveries \ {d}
  /\ UNCHANGED <<conn, grant, starts, states, callbacks, refreshes, written>>

CreateGrant ==
  /\ Usable /\ conn.principal # None /\ conn.inventory
  /\ grant' = [state |-> "active", epoch |-> conn.epoch, principal |-> conn.principal,
               auth |-> conn.tokens.auth]
  /\ UNCHANGED <<conn, flows, written>>

RevokeGrant ==
  /\ grant.state \in {"active", "stale"}
  /\ grant' = [grant EXCEPT !.state = "revoked"]
  /\ UNCHANGED <<conn, flows, written>>

\* The server, its app or the workspace is removed, perhaps one after the other:
\* local secrets go first, then the tokens are revoked at the authorization
\* server if that can be done.
TearDown(target) ==
  /\ conn.cipher # 0 \/ conn.epoch < MaxEpoch
  /\ conn' = [conn EXCEPT
                !.status = target, !.cipher = 0, !.binding = None, !.token = FALSE,
                !.epoch = @ + 1, !.reauth = FALSE, !.principal = None]
  /\ grant' = IF grant.state = "none" THEN grant ELSE [grant EXCEPT !.state = "revoked"]
  /\ UNCHANGED <<flows, written>>

Next ==
  \/ BeginStart
  \/ \E s \in starts :
       \/ FailStart(s) \/ EndStart(s)
       \/ \E binding \in Binding, asked \in BOOLEAN : PersistStart(s, binding, asked)
  \/ \E st \in states : Callback(st) \/ RefuseCallback(st)
  \/ \E c \in callbacks : PersistCallback(c) \/ FailCallback(c)
  \/ BeginRefresh
  \/ \E r \in refreshes : PersistRefresh(r) \/ FailRefresh(r) \/ EndRefresh(r)
  \/ Unauthorized
  \/ BeginDiscovery
  \/ \E d \in discoveries :
       \/ EndDiscovery(d)
       \/ \E subject \in Subject \union {None}, complete \in BOOLEAN :
            Import(d, subject, complete)
  \/ CreateGrant \/ RevokeGrant
  \/ \E target \in Down : TearDown(target)

Spec == Init /\ [][Next]_vars

-----------------------------------------------------------------------------
\* The variables have their types, and no flow or grant holds a ciphertext or
\* an epoch that is yet to come.
TypeOK ==
  /\ conn \in Connection /\ conn.cipher <= written /\ grant.epoch <= conn.epoch
  /\ grant \in [state : {"none", "active", "stale", "revoked"}, epoch : Nat,
                principal : {None} \union (Binding \X (Subject \union {None})), auth : Nat]
  /\ starts \subseteq [epoch : 1 .. conn.epoch, cipher : 1 .. written, had : BOOLEAN]
  /\ states \union callbacks
       \subseteq [epoch : 1 .. conn.epoch, cipher : 1 .. written, binding : Binding, reauth : BOOLEAN]
  /\ refreshes \subseteq [epoch : 1 .. conn.epoch, cipher : 1 .. written, given : Tokens]
  /\ discoveries \subseteq [epoch : 1 .. conn.epoch, cipher : 1 .. written]
  /\ written \in 1 .. MaxWrites

\* A tool call is admitted (executor.py: _grant_current).
Effective ==
  /\ Usable /\ conn.inventory
  /\ grant.state = "active"
  /\ grant.epoch = conn.epoch /\ grant.principal = conn.principal

\* A connection is used only with tokens of the authority it is bound to, and a
\* grant only with the tokens of the authorization under which it was given:
\* whoever authorizes again, the expert's tools are approved again
\* (oauth.py: _persist_start and _persist_callback; executor.py: _grant_current).
AuthorizationMatches ==
  /\ Usable => conn.token /\ conn.tokens.source = conn.binding
  /\ Effective => grant.auth = conn.tokens.auth

\* After the server was removed nothing that was under way brings it back: no
\* credentials are stored, and no tool can be called (mcp/teardown.py).
StaysDown ==
  [][conn.cipher = 0 => conn'.cipher = 0 /\ ~Usable' /\ grant'.state # "active"]_vars

\* What a refresh stores was given for the tokens it replaces, so a concurrent
\* winner's are never lost, nor those of a later authorization (oauth.py:590,
\* and the comparison of the ciphertext in _persist_refresh).
WinnerKept ==
  [][/\ conn'.tokens.auth >= conn.tokens.auth
     /\ conn'.tokens.gen # conn.tokens.gen /\ conn'.tokens.auth = conn.tokens.auth
          => conn'.tokens.parent = conn.tokens.gen]_vars
=============================================================================
