------------------------ MODULE McpConnectionProofs ------------------------
(***************************************************************************)
(* Proofs about McpConnection for any number of bindings, subjects, flows  *)
(* and writes: grants and tokens belong to one authorization, a removed    *)
(* connection stays down, and a refresh never undoes another write.        *)
(*                                                                         *)
(* The argument: whatever the flows compare before they write, the only    *)
(* thing that matters is the ciphertext.  Every write of binding, tokens   *)
(* or principal takes a new one, so a flow that finds the ciphertext it    *)
(* copied also finds the binding, tokens and principal of that moment.     *)
(***************************************************************************)
EXTENDS McpConnection, TLAPS

\* A usable connection has tokens of its binding; one without credentials is
\* not usable and cannot be refreshed.
Secrets ==
  /\ Usable => conn.binding \in Binding /\ conn.token /\ conn.tokens.source = conn.binding
  /\ conn.cipher = 0 =>
       conn.status \notin {"active", "degraded"} /\ ~conn.token /\ grant.state # "active"
  /\ conn.tokens.auth <= written /\ conn.epoch # 0

\* A grant in force was given under the authorization of the stored tokens.
Granted ==
  /\ conn.principal = None => grant.state # "active"
  /\ grant.state = "active" => grant.auth = conn.tokens.auth

\* What a flow knows of the connection if it finds the ciphertext it copied.
Snapshots ==
  /\ \A s \in starts : s.cipher = conn.cipher => (s.had <=> conn.principal # None)
  /\ \A c \in states \union callbacks : c.cipher = conn.cipher =>
       c.binding = conn.binding /\ (~c.reauth => conn.principal = None)
  /\ \A r \in refreshes : r.cipher = conn.cipher => r.given = conn.tokens

Inv == TypeOK /\ Secrets /\ Granted /\ Snapshots

USE NoneAssumption, SizeAssumption

-----------------------------------------------------------------------------
LEMMA InitInv ==
  ASSUME Init
  PROVE  Inv
<1>1. TypeOK
  BY DEF Init, TypeOK, Connection, Tokens
<1>2. Secrets /\ Granted /\ Snapshots
  BY DEF Init, Secrets, Usable, Granted, Snapshots
<1> QED BY <1>1, <1>2 DEF Inv

\* A step that writes nothing but the status, only ever to make the connection
\* less usable, and begins no flow.
Marks ==
  /\ conn' \in Connection
  /\ \A f \in {"cipher", "binding", "token", "epoch", "principal", "tokens"} :
       conn'[f] = conn[f]
  /\ Usable' => Usable
  /\ conn'.status \in {"active", "degraded"} => conn.status \in {"active", "degraded"}
  /\ written' = written
  /\ starts' \subseteq starts /\ refreshes' \subseteq refreshes
  /\ discoveries' \subseteq discoveries
  /\ states' \union callbacks' \subseteq states \union callbacks
  /\ grant' = grant \/ grant' = [grant EXCEPT !.state = "revoked"]

LEMMA MarksInv ==
  ASSUME Inv, Marks
  PROVE  Inv'
<1>1. TypeOK'
  BY DEF Inv, TypeOK, Marks
<1>2. Secrets'
  BY DEF Inv, TypeOK, Secrets, Marks, Connection, Tokens
<1>3. Granted'
  BY DEF Inv, TypeOK, Granted, Marks, Connection, Tokens
<1>4. Snapshots'
  BY DEF Inv, TypeOK, Snapshots, Marks
<1> QED BY <1>1, <1>2, <1>3, <1>4 DEF Inv

-----------------------------------------------------------------------------
\* Failures, ends of flows and a revoked grant are such steps.
LEMMA FailedIsMark ==
  ASSUME TypeOK, conn' \in {conn, Failed} \/ MarkReauth
  PROVE  /\ conn' \in Connection
         /\ \A f \in {"cipher", "binding", "token", "epoch", "principal", "tokens"} :
              conn'[f] = conn[f]
         /\ Usable' => Usable
         /\ conn'.status \in {"active", "degraded"} => conn.status \in {"active", "degraded"}
<1>1. CASE conn' = conn
  BY <1>1 DEF TypeOK, Usable
<1>2. CASE conn' = Failed
  BY <1>2 DEF TypeOK, Connection, Failed, Usable
<1>3. CASE MarkReauth
  <2>1. conn.status \in {"connecting", "active", "degraded", "error", "disconnected", "revoked"}
    BY DEF TypeOK, Connection
  <2>2. conn' = [conn EXCEPT !.reauth = TRUE,
                   !.status = IF conn.status = "active" THEN "degraded" ELSE conn.status]
    BY <1>3 DEF MarkReauth
  <2>3. conn' \in Connection /\ conn'.reauth
    BY <2>1, <2>2 DEF TypeOK, Connection
  <2>4. \A f \in {"cipher", "binding", "token", "epoch", "principal", "tokens"} :
          conn'[f] = conn[f]
    BY <2>2 DEF TypeOK, Connection
  <2>5. conn'.status \in {"active", "degraded"} => conn.status \in {"active", "degraded"}
    BY <2>1, <2>2 DEF TypeOK, Connection
  <2> QED BY <2>3, <2>4, <2>5 DEF Usable
<1> QED BY <1>1, <1>2, <1>3

LEMMA MarkSteps ==
  ASSUME TypeOK,
         \/ \E s \in starts : FailStart(s) \/ EndStart(s)
         \/ \E st \in states : Callback(st) \/ RefuseCallback(st)
         \/ \E c \in callbacks : FailCallback(c)
         \/ \E r \in refreshes : FailRefresh(r) \/ EndRefresh(r)
         \/ Unauthorized
         \/ \E d \in discoveries : EndDiscovery(d)
         \/ RevokeGrant
  PROVE  Marks
<1>1. ASSUME NEW s \in starts, FailStart(s) PROVE Marks
  BY <1>1 DEF TypeOK, Connection, FailStart, Marks, Usable
<1>2. ASSUME NEW s \in starts, EndStart(s) PROVE Marks
  BY <1>2 DEF TypeOK, EndStart, Marks, Usable
<1>3. ASSUME NEW st \in states, Callback(st) PROVE Marks
  BY <1>3 DEF TypeOK, Callback, Marks, Usable
<1>4. ASSUME NEW st \in states, RefuseCallback(st) PROVE Marks
  BY <1>4, FailedIsMark DEF RefuseCallback, Marks
<1>5. ASSUME NEW c \in callbacks, FailCallback(c) PROVE Marks
  BY <1>5, FailedIsMark DEF FailCallback, Marks
<1>6. ASSUME NEW r \in refreshes, FailRefresh(r) PROVE Marks
  BY <1>6, FailedIsMark DEF FailRefresh, Marks
<1>7. ASSUME NEW r \in refreshes, EndRefresh(r) PROVE Marks
  BY <1>7 DEF TypeOK, EndRefresh, Marks, Usable
<1>8. CASE Unauthorized
  BY <1>8, FailedIsMark DEF Unauthorized, flows, Marks
<1>9. ASSUME NEW d \in discoveries, EndDiscovery(d) PROVE Marks
  BY <1>9 DEF TypeOK, EndDiscovery, Marks, Usable
<1>10. CASE RevokeGrant
  BY <1>10 DEF TypeOK, RevokeGrant, flows, Marks, Usable
<1> QED BY <1>1, <1>2, <1>3, <1>4, <1>5, <1>6, <1>7, <1>8, <1>9, <1>10

-----------------------------------------------------------------------------
\* A flow begins with a copy of the connection.
LEMMA BeginInv ==
  ASSUME Inv, BeginStart \/ BeginRefresh \/ BeginDiscovery
  PROVE  Inv'
<1>0. /\ TypeOK /\ conn.epoch \in Nat \ {0} /\ conn.cipher \in 0 .. written
      /\ conn.tokens \in Tokens /\ (conn.token => conn.cipher # 0)
  BY DEF Inv, TypeOK, Connection, Secrets
<1>1. TypeOK'
  <2>1. CASE BeginStart
    <3>1. [epoch |-> conn.epoch, cipher |-> conn.cipher, had |-> conn.principal # None]
            \in [epoch : 1 .. conn.epoch, cipher : 1 .. written, had : BOOLEAN]
      BY <1>0, <2>1 DEF BeginStart
    <3> QED BY <1>0, <2>1, <3>1 DEF TypeOK, BeginStart
  <2>2. CASE BeginRefresh
    <3>1. [epoch |-> conn.epoch, cipher |-> conn.cipher, given |-> conn.tokens]
            \in [epoch : 1 .. conn.epoch, cipher : 1 .. written, given : Tokens]
      BY <1>0, <2>2 DEF BeginRefresh
    <3> QED BY <1>0, <2>2, <3>1 DEF TypeOK, BeginRefresh
  <2>3. CASE BeginDiscovery
    <3>1. Snapshot \in [epoch : 1 .. conn.epoch, cipher : 1 .. written]
      BY <1>0, <2>3 DEF BeginDiscovery, Snapshot
    <3> QED BY <1>0, <2>3, <3>1 DEF TypeOK, BeginDiscovery
  <2> QED BY <2>1, <2>2, <2>3
<1>2. Secrets' /\ Granted'
  BY DEF Inv, Secrets, Granted, Usable, BeginStart, BeginRefresh, BeginDiscovery
<1>3. Snapshots'
  <2>1. CASE BeginStart
    <3> DEFINE copy == [epoch |-> conn.epoch, cipher |-> conn.cipher,
                        had |-> conn.principal # None]
    <3>1. copy.had <=> conn.principal # None
      OBVIOUS
    <3>2. starts' = starts \union {copy} /\ UNCHANGED <<conn, states, callbacks, refreshes>>
      BY <2>1 DEF BeginStart
    <3> HIDE DEF copy
    <3> QED BY <3>1, <3>2 DEF Inv, Snapshots
  <2>2. CASE BeginRefresh
    BY <2>2 DEF Inv, Snapshots, BeginRefresh
  <2>3. CASE BeginDiscovery
    BY <2>3 DEF Inv, Snapshots, BeginDiscovery
  <2> QED BY <2>1, <2>2, <2>3
<1> QED BY <1>1, <1>2, <1>3 DEF Inv

\* The grants after a write that may change the principal.
LEMMA Staling ==
  ASSUME TypeOK, NEW changed \in BOOLEAN
  PROVE  /\ GrantsAfter(changed) \in [state : {"none", "active", "stale", "revoked"},
              epoch : Nat, principal : {None} \union (Binding \X (Subject \union {None})),
              auth : Nat]
         /\ GrantsAfter(changed).epoch = grant.epoch
         /\ GrantsAfter(changed).auth = grant.auth
         /\ GrantsAfter(changed).state = "active" => ~changed /\ grant.state = "active"
         /\ Bump(changed) \in Nat /\ Bump(changed) >= conn.epoch
         /\ ~changed => Bump(changed) = conn.epoch
  BY DEF TypeOK, Connection, GrantsAfter, Staled, Bump

LEMMA PersistStartInv ==
  ASSUME Inv, NEW s \in starts, NEW binding \in Binding, NEW asked \in BOOLEAN,
         PersistStart(s, binding, asked)
  PROVE  Inv'
<1> DEFINE changed == conn.binding # None /\ conn.binding # binding
           fresh == [epoch |-> conn'.epoch, cipher |-> conn'.cipher, binding |-> binding,
                     reauth |-> conn'.reauth]
<1>0. TypeOK /\ changed \in BOOLEAN
  BY DEF Inv
<1>1. /\ Current(s) /\ written < MaxWrites /\ written' = written + 1
      /\ conn' = [conn EXCEPT
                    !.status = "connecting", !.binding = binding, !.cipher = written + 1,
                    !.epoch = Bump(changed), !.principal = IF changed THEN None ELSE @,
                    !.reauth = NeedsReauth(s, asked)]
      /\ grant' = GrantsAfter(changed)
      /\ starts' = starts \ {s}
      /\ UNCHANGED <<callbacks, refreshes, discoveries>>
  BY DEF PersistStart, Write
<1>2. states' = states \/ states' = states \union {fresh}
  BY <1>1 DEF PersistStart
<1> HIDE DEF changed
<1>3. /\ conn' \in Connection
      /\ conn'.cipher = written + 1 /\ conn'.epoch >= conn.epoch
      /\ conn'.tokens = conn.tokens /\ conn'.token = conn.token
      /\ conn'.status = "connecting" /\ conn'.binding = binding
      /\ conn'.principal = IF changed THEN None ELSE conn.principal
      /\ conn'.reauth = NeedsReauth(s, asked)
  <2>1. NeedsReauth(s, asked) \in BOOLEAN
    BY <1>0 DEF TypeOK, Connection, NeedsReauth
  <2>2. Bump(changed) \in Nat /\ Bump(changed) >= conn.epoch /\ written + 1 \in Nat
    BY <1>0, Staling DEF TypeOK
  <2> QED BY <1>0, <1>1, <2>1, <2>2 DEF TypeOK, Connection
<1>4. TypeOK'
  <2>1. fresh \in [epoch : 1 .. conn'.epoch, cipher : 1 .. written', binding : Binding,
                    reauth : BOOLEAN]
    <3>1. conn.epoch \in Nat \ {0} /\ written \in Nat /\ conn'.epoch \in Nat
          /\ conn'.reauth \in BOOLEAN
      BY <1>0, <1>3 DEF TypeOK, Connection
    <3>2. conn'.epoch \in 1 .. conn'.epoch /\ conn'.cipher \in 1 .. written'
      BY <1>1, <1>3, <3>1
    <3> QED BY <3>1, <3>2
  <2>2. states' \union callbacks' \subseteq
          [epoch : 1 .. conn'.epoch, cipher : 1 .. written', binding : Binding,
           reauth : BOOLEAN]
    BY <1>0, <1>1, <1>2, <1>3, <2>1 DEF TypeOK, Connection
  <2> QED BY <1>0, <1>1, <1>3, <2>2, Staling DEF TypeOK, Connection
<1>5. Secrets'
  <2>1. /\ conn.tokens.auth \in Nat /\ written \in Nat
        /\ conn.epoch \in Nat /\ conn'.epoch \in Nat
    BY <1>0, <1>3 DEF TypeOK, Connection, Tokens
  <2>2. conn'.cipher # 0 /\ conn'.tokens.auth <= written' /\ conn'.epoch # 0
    BY <1>1, <1>3, <2>1 DEF Inv, Secrets
  <2> QED BY <1>3, <2>2 DEF Secrets, Usable
<1>6. Granted'
  BY <1>0, <1>1, <1>3, Staling DEF Inv, Granted
<1>7. Snapshots'
  <2>1. ~conn'.reauth => conn'.principal = None
    BY <1>1, <1>3 DEF Inv, Snapshots, NeedsReauth, Current
  <2>2. \A f \in starts \union states \union callbacks \union refreshes : f.cipher # written + 1
    BY <1>0 DEF TypeOK
  <2> QED BY <1>1, <1>2, <1>3, <2>1, <2>2 DEF Snapshots
<1> QED BY <1>4, <1>5, <1>6, <1>7 DEF Inv

LEMMA PersistCallbackInv ==
  ASSUME Inv, NEW c \in callbacks, PersistCallback(c)
  PROVE  Inv'
<1> DEFINE who == <<c.binding, None>>
           changed == conn.principal # None /\ (conn.principal # who \/ c.reauth)
           tokens == [source |-> c.binding, auth |-> written + 1, gen |-> written + 1,
                      parent |-> 0]
<1>0. /\ TypeOK /\ changed \in BOOLEAN /\ c.binding \in Binding
      /\ c.cipher \in 1 .. written /\ c.epoch \in 1 .. conn.epoch
      /\ written \in Nat /\ conn.tokens \in Tokens /\ conn.epoch \in Nat
  BY DEF Inv, TypeOK, Connection
<1>1. /\ Current(c) /\ written < MaxWrites /\ written' = written + 1
      /\ conn' = [conn EXCEPT
                    !.status = "active", !.reauth = FALSE, !.cipher = written + 1,
                    !.epoch = Bump(changed), !.principal = who, !.token = TRUE,
                    !.tokens = tokens]
      /\ grant' = GrantsAfter(changed)
      /\ callbacks' = callbacks \ {c}
      /\ UNCHANGED <<starts, states, refreshes, discoveries>>
  BY DEF PersistCallback, Write
<1>2. who \in Binding \X (Subject \union {None}) /\ tokens \in Tokens
  BY <1>0 DEF Tokens
<1>3. tokens.auth = written + 1 /\ tokens.source = c.binding
  OBVIOUS
<1> HIDE DEF changed, who, tokens
<1>4. /\ conn' \in Connection
      /\ conn'.cipher = written + 1 /\ conn'.epoch >= conn.epoch
      /\ conn'.tokens = tokens /\ conn'.token /\ conn'.principal = who
      /\ conn'.status = "active" /\ conn'.binding = conn.binding
  <2>1. Bump(changed) \in Nat /\ Bump(changed) >= conn.epoch /\ written + 1 \in Nat
    BY <1>0, Staling
  <2> QED BY <1>0, <1>1, <1>2, <2>1 DEF TypeOK, Connection
<1>5. TypeOK'
  BY <1>0, <1>1, <1>4, Staling DEF TypeOK, Connection
<1>6. c.binding = conn.binding /\ (~c.reauth => conn.principal = None)
  BY <1>1 DEF Inv, Snapshots, Current
<1>7. grant'.state # "active"
  <2>1. CASE conn.principal = None
    BY <1>0, <1>1, <2>1, Staling DEF Inv, Granted
  <2>2. CASE conn.principal # None
    BY <1>0, <1>1, <1>6, <2>2, Staling DEF changed
  <2> QED BY <2>1, <2>2
<1>8. Secrets' /\ Granted'
  BY <1>0, <1>1, <1>3, <1>4, <1>6, <1>7 DEF Inv, Secrets, Granted, Usable
<1>9. Snapshots'
  <2>1. \A f \in starts \union states \union callbacks \union refreshes : f.cipher # written + 1
    BY <1>0 DEF TypeOK
  <2> QED BY <1>1, <1>4, <2>1 DEF Snapshots
<1> QED BY <1>5, <1>8, <1>9 DEF Inv

LEMMA PersistRefreshInv ==
  ASSUME Inv, NEW r \in refreshes, PersistRefresh(r)
  PROVE  Inv'
<1> DEFINE tokens == [r.given EXCEPT !.gen = written + 1, !.parent = r.given.gen]
<1>0. /\ TypeOK /\ written \in Nat /\ r.cipher \in 1 .. written
      /\ conn.tokens \in Tokens
  BY DEF Inv, TypeOK, Connection
<1>1. /\ Current(r) /\ written < MaxWrites /\ written' = written + 1
      /\ conn' = [conn EXCEPT !.cipher = written + 1, !.tokens = tokens]
      /\ refreshes' = refreshes \ {r}
      /\ UNCHANGED <<grant, starts, states, callbacks, discoveries>>
  BY DEF PersistRefresh, MayPersist, Write
<1>2. r.given = conn.tokens
  BY <1>1 DEF Inv, Snapshots, Current
<1>3. /\ tokens \in Tokens /\ tokens.auth = conn.tokens.auth
      /\ tokens.source = conn.tokens.source
  <2>1. tokens = [conn.tokens EXCEPT !.gen = written + 1, !.parent = conn.tokens.gen]
    BY <1>2
  <2>2. written + 1 \in Nat /\ conn.tokens.gen \in Nat
    BY <1>0 DEF Tokens
  <2> HIDE DEF tokens
  <2> QED BY <1>0, <2>1, <2>2 DEF Tokens
<1> HIDE DEF tokens
<1>4. /\ conn' \in Connection /\ conn'.cipher = written + 1 /\ conn'.tokens = tokens
      /\ \A f \in {"status", "binding", "token", "epoch", "reauth", "principal"} :
           conn'[f] = conn[f]
  <2>1. written + 1 \in Nat
    BY <1>0
  <2>2. conn' \in Connection /\ conn'.cipher = written + 1 /\ conn'.tokens = tokens
    BY <1>0, <1>1, <1>3, <2>1 DEF TypeOK, Connection
  <2>3. \A f \in {"status", "binding", "token", "epoch", "reauth", "principal"} :
          conn'[f] = conn[f]
    BY <1>0, <1>1 DEF TypeOK, Connection
  <2> QED BY <2>2, <2>3
<1>5. TypeOK'
  BY <1>0, <1>1, <1>4 DEF TypeOK
<1>6. Secrets'
  <2>1. conn.tokens.auth \in Nat /\ conn.tokens.auth <= written
    BY <1>0 DEF Tokens, Inv, Secrets
  <2>2. conn'.cipher # 0 /\ conn'.tokens.auth <= written' /\ conn'.epoch # 0
    BY <1>0, <1>1, <1>3, <1>4, <2>1 DEF Inv, Secrets
  <2> QED BY <1>3, <1>4, <2>2 DEF Inv, Secrets, Usable
<1>7. Granted'
  BY <1>1, <1>3, <1>4 DEF Inv, Granted
<1>8. Snapshots'
  <2>1. \A f \in starts \union states \union callbacks \union refreshes : f.cipher # written + 1
    BY <1>0 DEF TypeOK
  <2> QED BY <1>1, <1>4, <2>1 DEF Snapshots
<1> QED BY <1>5, <1>6, <1>7, <1>8 DEF Inv

LEMMA ImportInv ==
  ASSUME Inv, NEW d \in discoveries, NEW subject \in Subject \union {None},
         NEW complete \in BOOLEAN, Import(d, subject, complete)
  PROVE  Inv'
<1> DEFINE who == <<conn.binding, subject>>
           changed == conn.principal # None /\ conn.principal # who
<1>0. /\ TypeOK /\ changed \in BOOLEAN /\ written \in Nat /\ conn.epoch \in Nat
      /\ conn.tokens \in Tokens
  BY DEF Inv, TypeOK, Connection
<1>1. /\ Usable /\ Current(d) /\ written < MaxWrites /\ written' = written + 1
      /\ conn' = [conn EXCEPT
                    !.status = IF complete THEN "active" ELSE "degraded",
                    !.cipher = written + 1, !.epoch = Bump(changed), !.principal = who,
                    !.inventory = conn.inventory \/ complete]
      /\ grant' = GrantsAfter(changed)
      /\ discoveries' = discoveries \ {d}
      /\ UNCHANGED <<starts, states, callbacks, refreshes>>
  BY DEF Import, Write
<1>2. who \in Binding \X (Subject \union {None})
  BY <1>1 DEF Inv, Secrets
<1> HIDE DEF changed, who
<1>3. /\ conn' \in Connection
      /\ conn'.cipher = written + 1 /\ conn'.epoch >= conn.epoch /\ conn'.principal = who
      /\ \A f \in {"binding", "token", "reauth", "tokens"} : conn'[f] = conn[f]
  <2>1. Bump(changed) \in Nat /\ Bump(changed) >= conn.epoch /\ written + 1 \in Nat
    BY <1>0, Staling
  <2>2. (IF complete THEN "active" ELSE "degraded") \in {"active", "degraded"}
        /\ (conn.inventory \/ complete) \in BOOLEAN
    BY <1>0 DEF TypeOK, Connection
  <2> QED BY <1>0, <1>1, <1>2, <2>1, <2>2 DEF TypeOK, Connection
<1>4. TypeOK'
  BY <1>0, <1>1, <1>3, Staling DEF TypeOK, Connection
<1>5. Secrets'
  <2>1. conn.tokens.auth \in Nat /\ conn.tokens.auth <= written
    BY <1>0 DEF Tokens, Inv, Secrets
  <2>2. conn'.cipher # 0 /\ conn'.tokens.auth <= written' /\ conn'.epoch # 0
    BY <1>0, <1>1, <1>3, <2>1 DEF Inv, Secrets, Connection
  <2> QED BY <1>1, <1>3, <2>2 DEF Inv, Secrets, Usable
<1>6. Granted'
  <2>1. grant'.state = "active" => conn.principal = who /\ conn.principal # None
    BY <1>0, <1>1, Staling DEF Inv, Granted, changed
  <2> QED BY <1>0, <1>1, <1>3, <2>1, Staling DEF Inv, Granted
<1>7. Snapshots'
  <2>1. \A f \in starts \union states \union callbacks \union refreshes : f.cipher # written + 1
    BY <1>0 DEF TypeOK
  <2> QED BY <1>1, <1>3, <2>1 DEF Snapshots
<1> QED BY <1>4, <1>5, <1>6, <1>7 DEF Inv

LEMMA CreateGrantInv ==
  ASSUME Inv, CreateGrant
  PROVE  Inv'
<1>0. TypeOK /\ conn.epoch \in Nat /\ conn.tokens.auth \in Nat
  BY DEF Inv, TypeOK, Connection, Tokens
<1>1. TypeOK'
  BY <1>0 DEF CreateGrant, flows, TypeOK, Connection
<1>2. Secrets' /\ Granted' /\ Snapshots'
  BY DEF Inv, CreateGrant, flows, Secrets, Granted, Snapshots, Usable
<1> QED BY <1>1, <1>2 DEF Inv

LEMMA TearDownInv ==
  ASSUME Inv, NEW target \in Down, TearDown(target)
  PROVE  Inv'
<1>0. TypeOK /\ conn.epoch \in Nat /\ conn.tokens \in Tokens /\ written \in Nat \ {0}
  BY DEF Inv, TypeOK, Connection
<1>1. /\ conn' \in Connection
      /\ conn'.cipher = 0 /\ conn'.epoch = conn.epoch + 1 /\ conn'.tokens = conn.tokens
      /\ conn'.status = target /\ ~conn'.token /\ conn'.principal = None
  <2>1. conn' = [conn EXCEPT
                   !.status = target, !.cipher = 0, !.binding = None, !.token = FALSE,
                   !.epoch = conn.epoch + 1, !.reauth = FALSE, !.principal = None]
    BY <1>0 DEF TearDown, TypeOK, Connection
  <2>2. conn' \in Connection
    <3> DEFINE B == Binding \union {None}
               R == {None} \union (Binding \X (Subject \union {None}))
    <3>1. conn \in [status : {"connecting", "active", "degraded", "error", "disconnected", "revoked"},
                    cipher : Nat, binding : B, token : BOOLEAN, epoch : Nat,
                    reauth : BOOLEAN, inventory : BOOLEAN, principal : R, tokens : Tokens]
      BY <1>0 DEF TypeOK, Connection
    <3>2. None \in B /\ None \in R
      OBVIOUS
    <3>3. conn.epoch + 1 \in Nat
      BY <1>0
    <3> HIDE DEF B, R
    <3>4. conn' \in [status : {"connecting", "active", "degraded", "error", "disconnected", "revoked"},
                    cipher : Nat, binding : B, token : BOOLEAN, epoch : Nat,
                    reauth : BOOLEAN, inventory : BOOLEAN, principal : R, tokens : Tokens]
      BY <2>1, <3>1, <3>2, <3>3 DEF Down
    <3> QED BY <3>4 DEF Connection, B, R
  <2> QED BY <1>0, <2>1, <2>2 DEF TypeOK, Connection
<1>2. /\ grant'.state # "active" /\ grant'.epoch = grant.epoch
      /\ grant' \in [state : {"none", "active", "stale", "revoked"}, epoch : Nat,
              principal : {None} \union (Binding \X (Subject \union {None})), auth : Nat]
  BY <1>0 DEF TearDown, TypeOK
<1>3. UNCHANGED flows /\ written' = written
  BY DEF TearDown
<1>4. TypeOK'
  BY <1>0, <1>1, <1>2, <1>3 DEF TypeOK, Connection, flows
<1>5. Secrets'
  <2>1. conn'.epoch # 0 /\ conn'.tokens.auth <= written'
    BY <1>0, <1>1, <1>3 DEF Inv, Secrets
  <2> QED BY <1>1, <1>2, <2>1 DEF Secrets, Usable, Down
<1>6. Granted'
  BY <1>2 DEF Granted
<1>7. Snapshots'
  <2>1. \A f \in starts \union states \union callbacks \union refreshes : f.cipher # 0
    BY <1>0 DEF TypeOK
  <2> QED BY <1>1, <1>3, <2>1 DEF Snapshots, flows
<1> QED BY <1>4, <1>5, <1>6, <1>7 DEF Inv

-----------------------------------------------------------------------------
LEMMA StepInv ==
  ASSUME Inv, [Next]_vars
  PROVE  Inv'
<1>1. CASE BeginStart \/ BeginRefresh \/ BeginDiscovery
  BY <1>1, BeginInv
<1>2. ASSUME NEW s \in starts, NEW binding \in Binding, NEW asked \in BOOLEAN,
             PersistStart(s, binding, asked)
      PROVE  Inv'
  BY <1>2, PersistStartInv
<1>3. ASSUME NEW c \in callbacks, PersistCallback(c) PROVE Inv'
  BY <1>3, PersistCallbackInv
<1>4. ASSUME NEW r \in refreshes, PersistRefresh(r) PROVE Inv'
  BY <1>4, PersistRefreshInv
<1>5. ASSUME NEW d \in discoveries, NEW subject \in Subject \union {None},
             NEW complete \in BOOLEAN, Import(d, subject, complete)
      PROVE  Inv'
  BY <1>5, ImportInv
<1>6. CASE CreateGrant
  BY <1>6, CreateGrantInv
<1>7. ASSUME NEW target \in Down, TearDown(target) PROVE Inv'
  BY <1>7, TearDownInv
<1>8. CASE \/ \E s \in starts : FailStart(s) \/ EndStart(s)
           \/ \E st \in states : Callback(st) \/ RefuseCallback(st)
           \/ \E c \in callbacks : FailCallback(c)
           \/ \E r \in refreshes : FailRefresh(r) \/ EndRefresh(r)
           \/ Unauthorized
           \/ \E d \in discoveries : EndDiscovery(d)
           \/ RevokeGrant
  BY <1>8, MarkSteps, MarksInv DEF Inv
<1>9. CASE UNCHANGED vars
  BY <1>9 DEF vars, Inv, TypeOK, Secrets, Granted, Snapshots, Usable
<1> QED BY <1>1, <1>2, <1>3, <1>4, <1>5, <1>6, <1>7, <1>8, <1>9 DEF Next

LEMMA AlwaysInv == Spec => []Inv
<1>1. Init => Inv
  BY InitInv
<1>2. Inv /\ [Next]_vars => Inv'
  BY StepInv
<1> QED BY <1>1, <1>2, PTL DEF Spec

\* The variables have their types: epochs, ciphertexts and flows are those of
\* the connection, for any number of bindings, flows and writes.
THEOREM TypeCorrect == Spec => []TypeOK
<1>1. Inv => TypeOK
  BY DEF Inv
<1> QED BY <1>1, AlwaysInv, PTL

\* A usable connection has the tokens of the authority it is bound to, and a
\* grant admits only under the authorization it was given for (oauth.py:
\* _persist_start, _persist_callback; executor.py: _grant_current).
THEOREM GrantsMatchTokens == Spec => []AuthorizationMatches
<1>1. Inv => AuthorizationMatches
  BY DEF Inv, Secrets, Granted, AuthorizationMatches, Effective
<1> QED BY <1>1, AlwaysInv, PTL

-----------------------------------------------------------------------------
\* What no step does to credentials: it does not bring them back, and it does
\* not replace tokens by older ones, or by those given for other ones.
Kept ==
  /\ conn.cipher = 0 => conn'.cipher = 0
  /\ conn'.tokens.auth >= conn.tokens.auth
  /\ conn'.tokens.gen # conn.tokens.gen /\ conn'.tokens.auth = conn.tokens.auth
       => conn'.tokens.parent = conn.tokens.gen

LEMMA SameTokens ==
  ASSUME Inv, conn'.tokens = conn.tokens, conn.cipher = 0 => conn'.cipher = 0
  PROVE  Kept
<1>1. conn.tokens.auth \in Nat
  BY DEF Inv, TypeOK, Connection, Tokens
<1> QED BY <1>1 DEF Kept

LEMMA StepKept ==
  ASSUME Inv, Next
  PROVE  Kept
<1>0. /\ TypeOK /\ conn.tokens \in Tokens /\ written \in Nat
      /\ conn.tokens.auth \in Nat /\ conn.tokens.auth <= written
      /\ \A f \in starts \union callbacks \union refreshes \union discoveries : f.cipher # 0
  BY DEF Inv, TypeOK, Connection, Tokens, Secrets
<1>1. CASE BeginStart \/ BeginRefresh \/ BeginDiscovery \/ CreateGrant
  BY <1>1, SameTokens DEF BeginStart, BeginRefresh, BeginDiscovery, CreateGrant
<1>2. ASSUME NEW s \in starts, NEW binding \in Binding, NEW asked \in BOOLEAN,
             PersistStart(s, binding, asked)
      PROVE  Kept
  <2>1. conn'.tokens = conn.tokens
    BY <1>0, <1>2 DEF PersistStart, TypeOK, Connection
  <2>2. conn.cipher # 0
    BY <1>0, <1>2 DEF PersistStart, Current
  <2> QED BY <2>1, <2>2, SameTokens
<1>3. ASSUME NEW c \in callbacks, PersistCallback(c) PROVE Kept
  <2>1. conn'.tokens.auth = written + 1
    BY <1>0, <1>3 DEF PersistCallback, TypeOK, Connection
  <2>2. conn.cipher # 0
    BY <1>0, <1>3 DEF PersistCallback, Current
  <2> QED BY <1>0, <2>1, <2>2 DEF Kept
<1>4. ASSUME NEW r \in refreshes, PersistRefresh(r) PROVE Kept
  <2>1. conn.cipher # 0 /\ r.given = conn.tokens
    BY <1>0, <1>4 DEF PersistRefresh, MayPersist, Current, Inv, Snapshots
  <2>2. conn'.tokens = [conn.tokens EXCEPT !.gen = written + 1, !.parent = conn.tokens.gen]
    BY <1>0, <1>4, <2>1 DEF PersistRefresh, TypeOK, Connection
  <2>3. conn'.tokens.auth = conn.tokens.auth /\ conn'.tokens.parent = conn.tokens.gen
    BY <1>0, <2>2 DEF Tokens
  <2> QED BY <1>0, <2>1, <2>3 DEF Kept
<1>5. ASSUME NEW d \in discoveries, NEW subject \in Subject \union {None},
             NEW complete \in BOOLEAN, Import(d, subject, complete)
      PROVE  Kept
  <2>1. conn'.tokens = conn.tokens
    BY <1>0, <1>5 DEF Import, TypeOK, Connection
  <2>2. conn.cipher # 0
    BY <1>0, <1>5 DEF Import, Current
  <2> QED BY <2>1, <2>2, SameTokens
<1>6. ASSUME NEW target \in Down, TearDown(target) PROVE Kept
  <2>1. conn'.tokens = conn.tokens /\ conn'.cipher = 0
    BY <1>0, <1>6 DEF TearDown, TypeOK, Connection
  <2> QED BY <2>1, SameTokens
<1>7. CASE \/ \E s \in starts : FailStart(s) \/ EndStart(s)
           \/ \E st \in states : Callback(st) \/ RefuseCallback(st)
           \/ \E c \in callbacks : FailCallback(c)
           \/ \E r \in refreshes : FailRefresh(r) \/ EndRefresh(r)
           \/ Unauthorized
           \/ \E d \in discoveries : EndDiscovery(d)
           \/ RevokeGrant
  <2>1. Marks
    BY <1>0, <1>7, MarkSteps
  <2>2. conn' = conn \/ (conn'.tokens = conn.tokens /\ conn'.cipher = conn.cipher)
    BY <2>1 DEF Marks, Connection
  <2> QED BY <2>2, SameTokens
<1> QED BY <1>1, <1>2, <1>3, <1>4, <1>5, <1>6, <1>7 DEF Next

\* A removed connection stays removed, whatever was under way (teardown.py).
THEOREM RemovedStaysDown == Spec => StaysDown
<1>1. Inv /\ Inv' /\ [Next]_vars =>
        [conn.cipher = 0 => conn'.cipher = 0 /\ ~Usable' /\ grant'.state # "active"]_vars
  BY StepKept DEF Inv, Secrets, Usable, Kept
<1> QED BY <1>1, AlwaysInv, PTL DEF Spec, StaysDown

\* A refresh stores only tokens that were given for the ones it replaces, and no
\* step brings those of an earlier authorization back (oauth.py:
\* _persist_refresh).
THEOREM WinnersAreKept == Spec => WinnerKept
<1>1. Inv /\ [Next]_vars =>
        [/\ conn'.tokens.auth >= conn.tokens.auth
         /\ conn'.tokens.gen # conn.tokens.gen /\ conn'.tokens.auth = conn.tokens.auth
              => conn'.tokens.parent = conn.tokens.gen]_vars
  BY StepKept DEF Kept
<1> QED BY <1>1, AlwaysInv, PTL DEF Spec, WinnerKept
=============================================================================
