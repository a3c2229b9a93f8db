---------------------------- MODULE ServerProofs ----------------------------
(***************************************************************************)
(* Proofs about the parts of the server that are checked together          *)
(* (MCServer): the MCP sessions keep their principals, the revenue is      *)
(* exact and the rows of the attempts table tell the truth.                *)
(***************************************************************************)
EXTENDS MCServer, LedgerProofs, FiniteSetTheorems, SequenceTheorems, TLAPS

-----------------------------------------------------------------------------
(* The MCP sessions (McpSessions).                                         *)

(* A session that admits anybody was initialized, and its principals are   *)
(* those of its opener or nobody.                                          *)
SessionsBound ==
  \A s \in Session :
    /\ authContext[s] \in {Nobody, opener[s]}
    /\ sessionPrincipals[s] # Unset =>
         /\ s \in transports /\ stage[s] = "initialized"
         /\ sessionPrincipals[s] = authContext[s]
         /\ marketplaceSessionPrincipals[s] \in {Nobody, opener[s]}

(* A call that was admitted presented the account of its session, and the  *)
(* credential the session was bound to, if it was bound to one.            *)
CallsBound ==
  \A c \in Call :
    calls[c] # NoCall =>
      /\ stage[calls[c].session] # "unused"
      /\ calls[c].bound \in {Nobody, calls[c].caller}
      /\ calls[c].bound # Nobody => opener[calls[c].session] = calls[c].bound
      /\ authContext[calls[c].session] \in {Nobody, calls[c].caller}
      /\ calls[c].bound # Nobody => calls[c].market \in {Nobody, calls[c].bound}
      /\ calls[c].credit \in {Nobody, calls[c].caller}

SessionInv == SessionTypeOK /\ SessionsBound /\ CallsBound

LEMMA SessionInvInit == SessionInit => SessionInv
  BY SessionAssumption
  DEF SessionInit, SessionInv, SessionTypeOK, SessionsBound, CallsBound,
      Principal

LEMMA SessionInvImplies ==
  SessionInv => SessionTypeOK /\ SessionsKeepPrincipals
  BY DEF SessionInv, SessionsBound, CallsBound, SessionsKeepPrincipals,
         sessionAuthorizationMatches, resolveCreditPrincipal

LEMMA InitializeKeeps ==
  ASSUME SessionInv, NEW s \in Session, NEW token \in Principal,
         Initialize(s, token)
  PROVE  SessionInv'
<1> USE DEF SessionInv
<1>1. /\ stage[s] = "unused"
      /\ opener' = [opener EXCEPT ![s] = token]
      /\ authContext' = [authContext EXCEPT ![s] = resolveCreditPrincipal(token)]
      /\ stage' = [stage EXCEPT ![s] = "connecting"]
      /\ UNCHANGED <<credentials, sessionMaps, calls, restarts>>
  BY DEF Initialize
<1>2. resolveCreditPrincipal(token) \in {Nobody, token} /\ Nobody \in Principal
  BY DEF resolveCreditPrincipal, Principal
<1>3. SessionTypeOK'
  BY <1>1, <1>2 DEF SessionTypeOK, credentials, sessionMaps
<1>4. /\ opener'[s] = token /\ authContext'[s] \in {Nobody, token}
      /\ stage'[s] = "connecting"
      /\ \A r \in Session : r # s =>
           /\ opener'[r] = opener[r] /\ authContext'[r] = authContext[r]
           /\ stage'[r] = stage[r]
  BY <1>1, <1>2 DEF SessionTypeOK
<1>5. SessionsBound'
  BY <1>1, <1>4 DEF SessionsBound, credentials, sessionMaps
<1>6. CallsBound'
  <2>1. \A c \in Call : calls[c] # NoCall => calls[c].session \in Session
    BY DEF SessionTypeOK, ToolCall
  <2> QED  BY <1>1, <1>4, <2>1 DEF CallsBound, credentials
<1> QED  BY <1>3, <1>5, <1>6

LEMMA SessionInitializedKeeps ==
  ASSUME SessionInv, NEW s \in Session, SessionInitialized(s)
  PROVE  SessionInv'
<1> USE DEF SessionInv
<1>1. /\ stage[s] = "connecting"
      /\ stage' = [stage EXCEPT ![s] = "initialized"]
      /\ transports' = transports \cup {s}
      /\ UNCHANGED <<credentials, opener, authContext, calls, restarts>>
  BY DEF SessionInitialized
<1>2. /\ marketplacePrincipal(opener[s]) \in {Nobody, opener[s]}
      /\ {opener[s], authContext[s], Nobody} \subseteq Principal
  BY SessionAssumption DEF marketplacePrincipal, Principal, SessionTypeOK
<1>3. /\ sessionPrincipals'[s] \in {authContext[s], sessionPrincipals[s]}
      /\ sessionPrincipals'[s] # Unset =>
           \/ sessionPrincipals[s] # Unset
           \/ marketplaceSessionPrincipals'[s] = marketplacePrincipal(opener[s])
      /\ \A r \in Session : r # s =>
           /\ sessionPrincipals'[r] = sessionPrincipals[r]
           /\ marketplaceSessionPrincipals'[r] = marketplaceSessionPrincipals[r]
      /\ sessionPrincipals' \in [Session -> Principal \cup {Unset}]
      /\ marketplaceSessionPrincipals' \in [Session -> Principal \cup {Unset}]
  <2>1. CASE UNCHANGED <<sessionPrincipals, marketplaceSessionPrincipals>>
    BY <2>1 DEF SessionTypeOK
  <2>2. CASE /\ marketplaceSessionPrincipals' =
                  [marketplaceSessionPrincipals EXCEPT
                     ![s] = marketplacePrincipal(opener[s])]
             /\ sessionPrincipals' = [sessionPrincipals EXCEPT ![s] = authContext[s]]
    BY <1>2, <2>2 DEF SessionTypeOK
  <2> QED  BY <2>1, <2>2 DEF SessionInitialized
<1>4. sessionPrincipals[s] = Unset
  BY <1>1 DEF SessionsBound
<1>5. /\ stage'[s] = "initialized"
      /\ \A r \in Session : r # s => stage'[r] = stage[r]
  BY <1>1 DEF SessionTypeOK
<1>6. SessionTypeOK'
  BY <1>1, <1>3 DEF SessionTypeOK, credentials
<1>7. SessionsBound'
  BY <1>1, <1>2, <1>3, <1>4, <1>5 DEF SessionsBound, credentials
<1>8. CallsBound'
  <2>1. \A c \in Call : calls[c] # NoCall => calls[c].session \in Session
    BY DEF SessionTypeOK, ToolCall
  <2> QED  BY <1>1, <1>5, <2>1 DEF CallsBound, credentials
<1> QED  BY <1>6, <1>7, <1>8

(* The request must match the session, so its caller is the opener or the  *)
(* session is bound to nobody.                                             *)
LEMMA CallToolKeeps ==
  ASSUME SessionInv, NEW c \in Call, NEW s \in Session, NEW token \in Principal,
         CallTool(c, s, token)
  PROVE  SessionInv'
<1> USE DEF SessionInv
<1> DEFINE call == [session |-> s, caller |-> token,
                    bound |-> marketplaceSessionPrincipals[s], ran |-> FALSE,
                    market |-> Nobody, credit |-> Nobody]
<1>1. /\ sessionAuthorizationMatches(s, token)
      /\ calls' = [calls EXCEPT ![c] = call]
      /\ UNCHANGED <<credentials, serverOf, sessionMaps, restarts>>
  BY DEF CallTool
<1>2. /\ stage[s] # "unused"
      /\ marketplaceSessionPrincipals[s] \in {Nobody, token}
      /\ marketplaceSessionPrincipals[s] # Nobody =>
           opener[s] = marketplaceSessionPrincipals[s]
      /\ authContext[s] \in {Nobody, token}
  BY <1>1 DEF SessionsBound, sessionAuthorizationMatches,
              marketplacePrincipal, resolveCreditPrincipal
<1>3. /\ call \in ToolCall /\ call.session = s /\ call.caller = token
      /\ call.bound = marketplaceSessionPrincipals[s]
      /\ call.market = Nobody /\ call.credit = Nobody
  BY <1>2 DEF ToolCall, Principal
<1> HIDE DEF call
<1>4. /\ calls'[c] = call
      /\ \A d \in Call : d # c => calls'[d] = calls[d]
      /\ calls' \in [Call -> ToolCall \cup {NoCall}]
  BY <1>1, <1>3 DEF SessionTypeOK
<1>5. SessionTypeOK' /\ SessionsBound'
  BY <1>1, <1>4
  DEF SessionTypeOK, SessionsBound, credentials, serverOf, sessionMaps
<1>6. CallsBound'
  BY <1>1, <1>2, <1>3, <1>4 DEF CallsBound, credentials, serverOf
<1> QED  BY <1>5, <1>6

Ran(t, market, credit) ==
  [t EXCEPT !.ran = TRUE, !.market = market, !.credit = credit]

LEMMA RanCall ==
  ASSUME NEW t \in ToolCall, NEW market \in Principal, NEW credit \in Principal
  PROVE  /\ Ran(t, market, credit) \in ToolCall
         /\ Ran(t, market, credit).session = t.session
         /\ Ran(t, market, credit).caller = t.caller
         /\ Ran(t, market, credit).bound = t.bound
         /\ Ran(t, market, credit).market = market
         /\ Ran(t, market, credit).credit = credit
  BY DEF ToolCall, Ran

LEMMA RunToolKeeps ==
  ASSUME SessionInv, NEW c \in Call, RunTool(c)
  PROVE  SessionInv'
<1> DEFINE s == calls[c].session
           call == Ran(calls[c], marketActor(s), creditActor(s))
<1>1. calls[c] \in ToolCall /\ s \in Session /\ calls[c] # NoCall
  BY DEF RunTool, SessionInv, SessionTypeOK, ToolCall
<1>2. /\ opener[s] \in Principal /\ authContext[s] \in Principal
      /\ Nobody \in Principal
  BY <1>1 DEF SessionInv, SessionTypeOK, Principal
<1>3. /\ calls' = [calls EXCEPT ![c] = call]
      /\ UNCHANGED <<credentials, serverOf, sessionMaps, restarts>>
  BY <1>1 DEF RunTool, SessionInv, SessionTypeOK, Ran
<1>4. /\ calls[c].bound # Nobody => marketActor(s) \in {Nobody, calls[c].bound}
      /\ creditActor(s) \in {Nobody, calls[c].caller}
      /\ marketActor(s) \in Principal /\ creditActor(s) \in Principal
  BY <1>1, <1>2 DEF SessionInv, CallsBound, marketActor, marketplacePrincipal,
                    creditActor
<1>5. /\ call \in ToolCall /\ call.session = s /\ call.caller = calls[c].caller
      /\ call.bound = calls[c].bound
      /\ call.market = marketActor(s) /\ call.credit = creditActor(s)
  BY <1>1, <1>4, RanCall
<1> HIDE DEF call, s
<1> USE DEF SessionInv
<1>7. /\ calls'[c] = call
      /\ \A d \in Call : d # c => calls'[d] = calls[d]
      /\ calls' \in [Call -> ToolCall \cup {NoCall}]
  BY <1>3, <1>5 DEF SessionTypeOK
<1>8. SessionTypeOK' /\ SessionsBound'
  BY <1>3, <1>7
  DEF SessionTypeOK, SessionsBound, credentials, serverOf, sessionMaps
<1>9. CallsBound'
  BY <1>1, <1>3, <1>4, <1>5, <1>7 DEF CallsBound, credentials, serverOf, s
<1> QED  BY <1>8, <1>9

LEMMA ForgetKeeps ==
  ASSUME SessionInv, NEW S \in SUBSET Session, Forget(S),
         UNCHANGED <<credentials, opener, authContext>>,
         restarts' \in 0 .. MaxRestart,
         stage' \in [Session -> {"unused", "connecting", "initialized"}],
         \A s \in Session : stage[s] # "unused" => stage'[s] # "unused",
         \A s \in Session \ S : stage'[s] = stage[s],
         \A c \in Call : calls'[c] \in {calls[c], NoCall},
         calls' \in [Call -> ToolCall \cup {NoCall}]
  PROVE  SessionInv'
<1> USE DEF SessionInv
<1>1. /\ transports' = transports \ S
      /\ sessionPrincipals' =
           [s \in Session |-> IF s \in S THEN Unset ELSE sessionPrincipals[s]]
      /\ marketplaceSessionPrincipals' =
           [s \in Session |-> IF s \in S THEN Unset
                              ELSE marketplaceSessionPrincipals[s]]
  BY DEF Forget
<1>2. SessionTypeOK'
  BY <1>1 DEF SessionTypeOK, credentials
<1>3. SessionsBound'
  BY <1>1 DEF SessionsBound, credentials
<1>4. CallsBound'
  <2>1. \A c \in Call : calls[c] # NoCall => calls[c].session \in Session
    BY DEF SessionTypeOK, ToolCall
  <2> QED  BY <2>1 DEF CallsBound, credentials
<1> QED  BY <1>2, <1>3, <1>4

LEMMA DeleteKeeps ==
  ASSUME SessionInv, NEW s \in Session, NEW token \in Principal, Delete(s, token)
  PROVE  SessionInv'
<1>1. /\ Forget({s}) /\ {s} \in SUBSET Session
      /\ UNCHANGED <<credentials, serverOf, calls, restarts>>
  BY DEF Delete
<1> QED
  BY <1>1, ForgetKeeps DEF serverOf, SessionInv, SessionTypeOK

LEMMA RestartKeeps ==
  ASSUME SessionInv, Restart
  PROVE  SessionInv'
<1>1. /\ Forget(Session) /\ Session \in SUBSET Session
      /\ UNCHANGED <<credentials, opener, authContext>>
      /\ restarts < MaxRestart /\ restarts' = restarts + 1
      /\ stage' = [s \in Session |-> IF stage[s] = "unused" THEN "unused"
                                     ELSE "initialized"]
      /\ calls' = [c \in Call |-> IF calls[c] # NoCall /\ ~calls[c].ran
                                  THEN NoCall ELSE calls[c]]
  BY DEF Restart
<1>2. restarts' \in 0 .. MaxRestart
  <2>1. restarts \in 0 .. MaxRestart /\ MaxRestart \in Nat
    BY SessionAssumption DEF SessionInv, SessionTypeOK
  <2> QED  BY <1>1, <2>1
<1>3. calls' \in [Call -> ToolCall \cup {NoCall}]
  BY <1>1 DEF SessionInv, SessionTypeOK
<1> QED  BY <1>1, <1>2, <1>3, ForgetKeeps

LEMMA SessionInvNext == SessionInv /\ [SessionNext]_sessionVars => SessionInv'
<1> SUFFICES ASSUME SessionInv, [SessionNext]_sessionVars PROVE SessionInv'
  OBVIOUS
<1>1. CASE UNCHANGED sessionVars
  BY <1>1 DEF sessionVars, credentials, serverOf, sessionMaps, SessionInv,
              SessionTypeOK, SessionsBound, CallsBound
<1>2. CASE EditAccounts
  BY <1>2 DEF EditAccounts, serverOf, sessionMaps, SessionInv, SessionTypeOK,
              SessionsBound, CallsBound
<1>3. CASE \E token \in Token : Grant(token) \/ Revoke(token)
  BY <1>3 DEF Grant, Revoke, serverOf, sessionMaps, SessionInv, SessionTypeOK,
              SessionsBound, CallsBound
<1> QED
  BY <1>1, <1>2, <1>3, SessionInitializedKeeps, InitializeKeeps, DeleteKeeps,
     CallToolKeeps, RunToolKeeps, RestartKeeps DEF SessionNext

(* Whatever the operator grants and revokes meanwhile, a session bound to  *)
(* a marketplace credential serves its holder alone, a credit account is   *)
(* used only for a caller who presented its token, and a session that      *)
(* failed half way or was closed admits nobody                             *)
(* (sessionAuthorizationMatches, onsessioninitialized, forgetMcpSession).  *)
THEOREM SessionsSafe ==
  SessionSpec => [](SessionTypeOK /\ SessionsKeepPrincipals)
<1>1. SessionSpec => []SessionInv
  BY SessionInvInit, SessionInvNext, PTL DEF SessionSpec
<1> QED  BY <1>1, SessionInvImplies, PTL

-----------------------------------------------------------------------------
(* The paid routes and the revenue funnel (RevenueFunnel).                 *)

Busy == {"entering", "verify", "settle", "reconcile", "execute", "ended"}

(* What is known of a request: a request in the map carries a key and an   *)
(* authorization, one past verify has reserved it, one that ended well is  *)
(* fulfilled, and an attempt that says settled has used it.                *)
RequestsSound ==
  \A r \in Request :
    /\ r \in open <=> pc[r] \in Busy
    /\ r \in open => want[r] \in Wanted
    /\ r \notin open => attempt[r] = Blank
    /\ reply[r] # 0 => pc[r] = "done"
    /\ pc[r] \in {"settle", "reconcile", "execute"} =>
         payment[KeyOf(r)] = ReplayKeyFor(r)
    /\ outcome[r] # "none" =>
         pc[r] \in {"ended", "done", "lost"} /\ want[r] \in Wanted
    /\ outcome[r] \in {"first", "duplicate"} =>
         phase[KeyOf(r)] = "fulfilled" /\ payment[KeyOf(r)] = ReplayKeyFor(r)
    /\ attempt[r].settlement = "ok" => NonceOf[ReplayKeyFor(r)] \in used

(* A row of a successful execution is about a request that had a key.      *)
RowsKeyed ==
  \A i \in DOMAIN rows :
    rows[i].class = "SUCCESSFUL_PAID_EXECUTION" =>
      want[rows[i].request] \in Wanted

FunnelInv ==
  /\ FunnelTypeOK /\ LedgerInv /\ RequestsSound
  /\ RevenueIsExact /\ RowsTellTruth /\ RowsKeyed

-----------------------------------------------------------------------------
(* Operators of the funnel.                                                *)

LEMMA BlankAttempt ==
  Blank \in Attempt /\ Blank.settlement = "none"
  BY DEF Blank, Attempt, Stage

LEMMA EmptyExact ==
  EmptyFunnel \in Funnel /\ Exact(EmptyFunnel)
  BY DEF EmptyFunnel, Funnel, Exact

(* A lifecycle event changes the attempt of its request, if it is open.    *)
LEMMA NoteFacts ==
  ASSUME NEW a \in [Request -> Attempt], open \subseteq Request, NEW r,
         NEW event \in {"verification", "settlement", "receipt"},
         NEW result \in Stage, NEW kind \in Failure \cup {"none"}
  PROVE  /\ Note(a, r, event, result, kind) \in [Request -> Attempt]
         /\ \A q \in Request :
              q \notin open => Note(a, r, event, result, kind)[q] = a[q]
         /\ \A q \in Request :
              \/ Note(a, r, event, result, kind)[q].settlement = a[q].settlement
              \/ /\ q = r /\ event = "settlement"
                 /\ Note(a, r, event, result, kind)[q].settlement = result
<1>1. CASE r \notin open
  BY <1>1 DEF Note
<1>2. CASE r \in open
  <2>1. Note(a, r, event, result, kind) =
          [[a EXCEPT ![r][event] = result]
             EXCEPT ![r].failure = IF result = "failed" THEN kind ELSE @]
    BY <1>2 DEF Note
  <2>2. Note(a, r, event, result, kind) \in [Request -> Attempt]
    BY <1>2 DEF Note, Attempt
  <2>3. \A q \in Request : q # r =>
          Note(a, r, event, result, kind)[q] = a[q]
    BY <2>1
  <2>4. Note(a, r, event, result, kind)[r].settlement
          = IF event = "settlement" THEN result ELSE a[r].settlement
    BY <1>2 DEF Note, Attempt
  <2> QED  BY <1>2, <2>2, <2>3, <2>4
<1> QED  BY <1>1, <1>2

(* Consuming the events makes an exact funnel complete.                    *)
LEMMA ConsumeFacts ==
  ASSUME NEW f \in Funnel, Exact(f)
  PROVE  /\ Consume(f) \in Funnel /\ Exact(Consume(f))
         /\ Revenue \subseteq Consume(f).consumed
<1> DEFINE counts == [k \in Key |-> IF k \in Revenue \ f.consumed
                                    THEN f.counted[k] + 1 ELSE f.counted[k]]
           g == [consumed |-> f.consumed \cup Revenue, counted |-> counts]
<1>1. /\ f.consumed \subseteq Revenue /\ Revenue \subseteq Key
      /\ f.counted \in [Key -> Nat] /\ f.consumed \subseteq Key
      /\ \A k \in Key : f.counted[k] = IF k \in f.consumed THEN 1 ELSE 0
  BY DEF Exact, Funnel, Revenue
<1>2. /\ counts \in [Key -> Nat]
      /\ \A k \in Key : counts[k] = IF k \in f.consumed \cup Revenue THEN 1 ELSE 0
  BY <1>1
<1>3. Consume(f) = g
  BY DEF Consume
<1> HIDE DEF counts
<1>4. g \in Funnel /\ g.consumed = f.consumed \cup Revenue /\ g.counted = counts
  BY <1>1, <1>2 DEF Funnel
<1>5. Exact(g)
  BY <1>1, <1>2, <1>4 DEF Exact
<1> QED  BY <1>1, <1>3, <1>4, <1>5

(* Revenue only grows, and a purchase that is fulfilled is revenue from    *)
(* then on or never.                                                       *)
LEMMA RevenueGrows ==
  ASSUME LedgerInv, LedgerKeeps
  PROVE  /\ Revenue \subseteq Revenue'
         /\ \A k \in Key : phase[k] = "fulfilled" /\ k \in Revenue' => k \in Revenue
  BY FunnelAssumption, LedgerAssumption
  DEF LedgerInv, LedgerKeeps, Revenue, Phases

(* The row of an attempt, and the table with it.                           *)
RowOf(r, class) ==
  [request |-> r, class |-> class, settlement |-> attempt[r].settlement,
   receipt |-> attempt[r].receipt]
WithRow(r, class) == Append(rows, RowOf(r, class))

(* A row is added, and perhaps the oldest ones are dropped.                *)
LEMMA InsertFacts ==
  ASSUME FunnelTypeOK, NEW r \in Request, NEW class \in Class, NEW S,
         Insert(r, class, S)
  PROVE  /\ RowOf(r, class) \in Row
         /\ rows' \in Seq(Row) /\ writes' \in 0 .. PruneEvery - 1
         /\ \E d \in Nat : \A i \in DOMAIN rows' :
              /\ i + d \in DOMAIN WithRow(r, class)
              /\ rows'[i] = WithRow(r, class)[i + d]
<1> DEFINE row == RowOf(r, class)
           all == WithRow(r, class)
<1>1. row \in Row
  BY DEF RowOf, FunnelTypeOK, Row, Attempt
<1>2. rows \in Seq(Row) /\ writes \in 0 .. PruneEvery - 1
  BY DEF FunnelTypeOK
<1>3. /\ all \in Seq(Row) /\ Len(all) = Len(rows) + 1 /\ Len(rows) \in Nat
      /\ \A i \in 1 .. Len(rows) : all[i] = rows[i]
      /\ DOMAIN rows = 1 .. Len(rows) /\ DOMAIN all = 1 .. Len(all)
  BY <1>1, <1>2 DEF WithRow
<1>4. CASE "row" \in S
  <2>1. rows' = rows /\ writes' = writes
    BY <1>4 DEF Insert, tableVars
  <2>2. \A i \in DOMAIN rows' : i + 0 \in DOMAIN all /\ rows'[i] = all[i + 0]
    BY <1>3, <2>1
  <2> QED  BY <1>1, <1>2, <2>1, <2>2
<1>5. CASE "row" \notin S
  <2>1. /\ writes' = (writes + 1) % PruneEvery
        /\ rows' = IF writes' = 0 THEN Newest(all) ELSE all
    BY <1>5 DEF Insert, RowOf, WithRow
  <2>2. writes' \in 0 .. PruneEvery - 1
    BY <1>2, <2>1, FunnelAssumption
  <2>3. CASE writes' # 0
    <3>1. rows' = all
      BY <2>1, <2>3
    <3>2. \A i \in DOMAIN rows' : i + 0 \in DOMAIN all /\ rows'[i] = all[i + 0]
      BY <1>3, <3>1
    <3> QED  BY <1>1, <1>3, <2>2, <3>1, <3>2
  <2>4. CASE writes' = 0
    <3> DEFINE m == IF Len(all) > MaxRows THEN Len(all) - MaxRows + 1 ELSE 1
    <3>1. m \in 1 .. Len(all) + 1 /\ m \in Nat
      BY <1>3, FunnelAssumption
    <3>2. rows' = SubSeq(all, m, Len(all))
      BY <2>1, <2>4 DEF Newest
    <3> HIDE DEF m
    <3>3. /\ rows' \in Seq(Row) /\ DOMAIN rows' = 1 .. Len(all) - m + 1
          /\ \A i \in 1 .. Len(all) - m + 1 : rows'[i] = all[i + (m - 1)]
      BY <1>3, <3>1, <3>2
    <3>4. /\ m - 1 \in Nat
          /\ \A i \in DOMAIN rows' : i + (m - 1) \in DOMAIN all
      BY <1>3, <3>1, <3>3
    <3> QED  BY <1>1, <2>2, <3>3, <3>4
  <2> QED  BY <2>3, <2>4
<1> QED  BY <1>4, <1>5

-----------------------------------------------------------------------------
(* Kinds of steps.                                                         *)

LEMMA FunnelInvInit == FunnelInit => FunnelInv
<1> SUFFICES ASSUME FunnelInit PROVE FunnelInv
  OBVIOUS
<1> USE DEF FunnelInit
<1>1. LedgerInv /\ LedgerInit
  BY LedgerInvInit
<1>2. FunnelTypeOK
  <2>1. <<>> \in Seq(Row) /\ 0 \in 0 .. PruneEvery - 1 /\ 0 \in 0 .. MaxFault
    BY FunnelAssumption
  <2> QED
    BY <1>1, <2>1, BlankAttempt, EmptyExact DEF FunnelTypeOK, LedgerInv, Phases
<1>3. RequestsSound
  BY BlankAttempt DEF RequestsSound, Busy
<1>4. RevenueIsExact
  BY EmptyExact DEF RevenueIsExact
<1>5. RowsTellTruth /\ RowsKeyed
  BY DEF RowsTellTruth, RowsKeyed
<1> QED  BY <1>1, <1>2, <1>3, <1>4, <1>5 DEF FunnelInv

(* The server comes and goes and saves, while no request moves.            *)
LEMMA ServerMoves ==
  ASSUME FunnelInv, UNCHANGED <<ledgerVars, callVars, origin, tableVars>>,
         server' \in {"down", "starting", "up"}, saveDue' \in BOOLEAN,
         faults' \in 0 .. MaxFault,
         mem' \in Funnel, Exact(mem'),
         snapshot' \in Funnel \cup {NoSnapshot},
         snapshot' # NoSnapshot => Exact(snapshot'),
         \/ server # "down" /\ mem' = mem
         \/ Revenue \subseteq mem'.consumed
  PROVE  FunnelInv'
<1> USE DEF ledgerVars, callVars, tableVars
<1>1. FunnelTypeOK'
  BY DEF FunnelInv, FunnelTypeOK
<1>2. LedgerInv' /\ RequestsSound' /\ RowsTellTruth' /\ RowsKeyed'
  BY DEF FunnelInv, LedgerInv, RequestsSound, KeyOf, ReplayKeyFor, RowsTellTruth,
         RowsKeyed
<1>3. RevenueIsExact'
  <2>1. Revenue' = Revenue /\ \A f : Exact(f)' <=> Exact(f)
    BY DEF Revenue, Exact
  <2> QED  BY <2>1 DEF FunnelInv, RevenueIsExact, Exact, Revenue, KeyOf
<1> QED  BY <1>1, <1>2, <1>3 DEF FunnelInv

LEMMA RowsOfRequests ==
  ASSUME FunnelInv, NEW i \in DOMAIN rows
  PROVE  rows[i] \in Row /\ rows[i].request \in Request
<1>1. rows \in Seq(Row)
  BY DEF FunnelInv, FunnelTypeOK
<1>2. rows[i] \in Row
  BY <1>1
<1> QED  BY <1>2 DEF Row

(* What a step of the ledger leaves true of every request and every row.   *)
LEMMA LedgerMoves ==
  ASSUME FunnelInv, [LedgerNext]_ledgerVars
  PROVE  /\ LedgerInv'
         /\ \A f : Exact(f) => Exact(f)'
         /\ \A q \in Request :
              /\ pc[q] \in {"settle", "reconcile", "execute"} =>
                   payment'[KeyOf(q)] = ReplayKeyFor(q)
              /\ outcome[q] \in {"first", "duplicate"} =>
                   /\ phase[KeyOf(q)] = "fulfilled"
                   /\ phase'[KeyOf(q)] = "fulfilled"
                   /\ payment'[KeyOf(q)] = ReplayKeyFor(q)
                   /\ KeyOf(q) \in Revenue' => KeyOf(q) \in Revenue
              /\ attempt[q].settlement = "ok" => NonceOf[ReplayKeyFor(q)] \in used'
         /\ \A i \in DOMAIN rows :
              /\ rows[i].settlement = "ok" => NonceOf[ReplayKeyFor(rows[i].request)] \in used'
              /\ rows[i].class = "SUCCESSFUL_PAID_EXECUTION" =>
                   /\ phase'[KeyOf(rows[i].request)] = "fulfilled"
                   /\ NonceOf[ReplayKeyFor(rows[i].request)] \in used'
<1>1. LedgerInv' /\ LedgerKeeps
  BY LedgerStep DEF FunnelInv
<1>2. /\ Revenue \subseteq Revenue'
      /\ \A k \in Key : phase[k] = "fulfilled" /\ k \in Revenue' => k \in Revenue
  BY <1>1, RevenueGrows DEF FunnelInv
<1>3. \A f : Exact(f) => Exact(f)'
  BY <1>2 DEF Exact
<1>4. ASSUME NEW q \in Request, want[q] \in Wanted, payment[KeyOf(q)] = ReplayKeyFor(q)
      PROVE  KeyOf(q) \in Key /\ payment'[KeyOf(q)] = ReplayKeyFor(q)
  <2>1. KeyOf(q) \in Key /\ ReplayKeyFor(q) # Nothing
    BY <1>4, LedgerAssumption DEF Wanted, KeyOf, ReplayKeyFor
  <2> QED  BY <1>1, <1>4, <2>1 DEF LedgerKeeps
<1>5. ASSUME NEW q \in Request, pc[q] \in {"settle", "reconcile", "execute"}
      PROVE  payment'[KeyOf(q)] = ReplayKeyFor(q)
  BY <1>4, <1>5 DEF FunnelInv, RequestsSound, Busy
<1>6. ASSUME NEW q \in Request, outcome[q] \in {"first", "duplicate"}
      PROVE  /\ phase[KeyOf(q)] = "fulfilled" /\ phase'[KeyOf(q)] = "fulfilled"
             /\ payment'[KeyOf(q)] = ReplayKeyFor(q)
             /\ KeyOf(q) \in Revenue' => KeyOf(q) \in Revenue
  <2>1. /\ want[q] \in Wanted /\ phase[KeyOf(q)] = "fulfilled"
        /\ payment[KeyOf(q)] = ReplayKeyFor(q)
    BY <1>6 DEF FunnelInv, RequestsSound
  <2>2. KeyOf(q) \in Key /\ payment'[KeyOf(q)] = ReplayKeyFor(q)
    BY <1>4, <2>1
  <2> QED  BY <1>1, <1>2, <2>1, <2>2 DEF LedgerKeeps
<1>7. \A q \in Request : attempt[q].settlement = "ok" => NonceOf[ReplayKeyFor(q)] \in used'
  BY <1>1 DEF FunnelInv, RequestsSound, LedgerKeeps
<1>8. ASSUME NEW i \in DOMAIN rows
      PROVE  /\ rows[i].settlement = "ok" => NonceOf[ReplayKeyFor(rows[i].request)] \in used'
             /\ rows[i].class = "SUCCESSFUL_PAID_EXECUTION" =>
                  /\ phase'[KeyOf(rows[i].request)] = "fulfilled"
                  /\ NonceOf[ReplayKeyFor(rows[i].request)] \in used'
  <2> DEFINE q == rows[i].request
  <2>1. rows[i].settlement = "ok" => NonceOf[ReplayKeyFor(q)] \in used'
    BY <1>1, <1>8 DEF FunnelInv, RowsTellTruth, LedgerKeeps
  <2>2. ASSUME rows[i].class = "SUCCESSFUL_PAID_EXECUTION"
        PROVE  phase'[KeyOf(q)] = "fulfilled" /\ NonceOf[ReplayKeyFor(q)] \in used'
    <3>1. KeyOf(q) \in Key
      BY <1>8, <2>2 DEF FunnelInv, RowsKeyed, KeyOf, Wanted
    <3>2. phase[KeyOf(q)] = "fulfilled" /\ NonceOf[ReplayKeyFor(q)] \in used
      BY <1>8, <2>2 DEF FunnelInv, RowsTellTruth
    <3> QED  BY <1>1, <3>1, <3>2 DEF LedgerKeeps
  <2> QED  BY <2>1, <2>2
<1> QED  BY <1>1, <1>3, <1>5, <1>6, <1>7, <1>8

(* A step of the engine for r: the ledger may move, r goes on or ends.     *)
LEMMA EngineMoves ==
  ASSUME FunnelInv, NEW r \in Request, r \in open,
         NEW at \in Busy, pc' = [pc EXCEPT ![r] = at],
         [LedgerNext]_ledgerVars, UNCHANGED engineKeeps,
         at \in {"settle", "reconcile", "execute"} =>
           payment'[KeyOf(r)] = ReplayKeyFor(r),
         \/ UNCHANGED outcome /\ outcome[r] = "none"
         \/ /\ at = "ended"
            /\ \E how \in Error \cup {"first", "duplicate"} :
                 /\ outcome' = [outcome EXCEPT ![r] = how]
                 /\ how \in {"first", "duplicate"} =>
                      /\ phase'[KeyOf(r)] = "fulfilled"
                      /\ payment'[KeyOf(r)] = ReplayKeyFor(r)
                 /\ how = "first" => phase[KeyOf(r)] # "fulfilled",
         attempt' \in [Request -> Attempt],
         \A q \in Request : q \notin open => attempt'[q] = attempt[q],
         \A q \in Request : attempt'[q].settlement = "ok" =>
           attempt[q].settlement = "ok" \/ (q = r /\ NonceOf[ReplayKeyFor(r)] \in used'),
         origin' \in [Key -> Request \cup {Nothing}],
         faults' \in 0 .. MaxFault
  PROVE  FunnelInv'
<1> USE DEF engineKeeps
<1>1. /\ UNCHANGED serverVars /\ want' = want /\ open' = open /\ reply' = reply
      /\ UNCHANGED tableVars
  OBVIOUS
<1>2. /\ pc'[r] = at /\ \A q \in Request : q # r => pc'[q] = pc[q]
      /\ pc[r] \in Busy /\ want[r] \in Wanted
      /\ pc' \in [Request -> {"new", "entering", "verify", "settle", "reconcile",
                              "execute", "ended", "done", "lost"}]
  BY DEF FunnelInv, FunnelTypeOK, RequestsSound, Busy
<1>3. /\ outcome' \in [Request -> Error \cup {"none", "first", "duplicate"}]
      /\ \A q \in Request : q # r => outcome'[q] = outcome[q]
      /\ outcome'[r] # "none" => at = "ended"
      /\ outcome'[r] \in {"first", "duplicate"} =>
           /\ phase'[KeyOf(r)] = "fulfilled"
           /\ payment'[KeyOf(r)] = ReplayKeyFor(r)
      /\ outcome'[r] = "first" => phase[KeyOf(r)] # "fulfilled"
  <2>1. outcome \in [Request -> Error \cup {"none", "first", "duplicate"}]
    BY DEF FunnelInv, FunnelTypeOK
  <2>2. CASE UNCHANGED outcome /\ outcome[r] = "none"
    BY <2>1, <2>2
  <2>3. CASE ~(UNCHANGED outcome /\ outcome[r] = "none")
    <3>1. PICK how \in Error \cup {"first", "duplicate"} :
            /\ at = "ended" /\ outcome' = [outcome EXCEPT ![r] = how]
            /\ how \in {"first", "duplicate"} =>
                 /\ phase'[KeyOf(r)] = "fulfilled"
                 /\ payment'[KeyOf(r)] = ReplayKeyFor(r)
            /\ how = "first" => phase[KeyOf(r)] # "fulfilled"
      BY <2>3
    <3>2. outcome'[r] = how
      BY <2>1, <3>1
    <3> QED  BY <2>1, <3>1, <3>2
  <2> QED  BY <2>2, <2>3
<1>4. LedgerInv' /\ \A f : Exact(f) => Exact(f)'
  BY LedgerMoves
<1>5. FunnelTypeOK'
  BY <1>1, <1>2, <1>3, <1>4
  DEF FunnelInv, FunnelTypeOK, LedgerInv, Phases, serverVars, tableVars
<1>6. /\ \A q \in Request : KeyOf(q)' = KeyOf(q) /\ ReplayKeyFor(q)' = ReplayKeyFor(q)
      /\ (Revenue)' = {k \in Key : phase'[k] = "fulfilled" /\ payment'[k] \in Mainnet}
  BY <1>1 DEF KeyOf, ReplayKeyFor, Revenue
<1>7. RequestsSound'
  <2> SUFFICES ASSUME NEW q \in Request
      PROVE  /\ q \in open <=> pc'[q] \in Busy
             /\ q \in open => want[q] \in Wanted
             /\ q \notin open => attempt'[q] = Blank
             /\ reply[q] # 0 => pc'[q] = "done"
             /\ pc'[q] \in {"settle", "reconcile", "execute"} =>
                  payment'[KeyOf(q)] = ReplayKeyFor(q)
             /\ outcome'[q] # "none" =>
                  pc'[q] \in {"ended", "done", "lost"} /\ want[q] \in Wanted
             /\ outcome'[q] \in {"first", "duplicate"} =>
                  phase'[KeyOf(q)] = "fulfilled" /\ payment'[KeyOf(q)] = ReplayKeyFor(q)
             /\ attempt'[q].settlement = "ok" => NonceOf[ReplayKeyFor(q)] \in used'
    BY <1>1, <1>6 DEF RequestsSound, Blank
  <2>1. /\ pc'[q] \in {"settle", "reconcile", "execute"} =>
             payment'[KeyOf(q)] = ReplayKeyFor(q)
        /\ outcome'[q] \in {"first", "duplicate"} =>
             phase'[KeyOf(q)] = "fulfilled" /\ payment'[KeyOf(q)] = ReplayKeyFor(q)
        /\ attempt'[q].settlement = "ok" => NonceOf[ReplayKeyFor(q)] \in used'
    BY <1>2, <1>3, LedgerMoves
  <2> QED  BY <1>2, <1>3, <2>1 DEF FunnelInv, RequestsSound, Busy
<1>8. RevenueIsExact'
  <2>1. Exact(mem)' /\ (snapshot' # NoSnapshot => Exact(snapshot)')
    BY <1>1, <1>4 DEF FunnelInv, RevenueIsExact, serverVars, Exact
  <2>2. ASSUME NEW q \in Request, server # "down", reply[q] = 200,
               outcome'[q] \in {"first", "duplicate"}, KeyOf(q) \in Revenue'
        PROVE  KeyOf(q) \in mem.consumed
    <3>1. q # r /\ outcome'[q] = outcome[q]
      BY <1>2, <1>3, <2>2 DEF FunnelInv, RequestsSound, Busy
    <3>2. KeyOf(q) \in Revenue
      BY <2>2, <3>1, LedgerMoves
    <3> QED  BY <2>2, <3>1, <3>2 DEF FunnelInv, RevenueIsExact
  <2> QED  BY <1>1, <1>6, <2>1, <2>2 DEF RevenueIsExact, serverVars
<1>9. RowsTellTruth'
  <2>1. open = {q \in Request : pc'[q] \notin {"new", "done", "lost"}}
    BY <1>2 DEF FunnelInv, RowsTellTruth, Busy
  <2>2. ASSUME NEW i \in DOMAIN rows
        PROVE  pc'[rows[i].request] = "done"
    BY <1>2, <2>2, RowsOfRequests DEF FunnelInv, RowsTellTruth, Busy
  <2>3. \A i \in DOMAIN rows :
          /\ KeyOf(rows[i].request)' = KeyOf(rows[i].request)
          /\ ReplayKeyFor(rows[i].request)' = ReplayKeyFor(rows[i].request)
    BY <1>1 DEF KeyOf, ReplayKeyFor, tableVars
  <2>4. \A i, j \in DOMAIN rows : rows[i].request = rows[j].request => i = j
    BY DEF FunnelInv, RowsTellTruth
  <2>5. ASSUME NEW p \in Request, NEW q \in Request,
               outcome'[p] = "first", outcome'[q] = "first", KeyOf(p) = KeyOf(q)
        PROVE  p = q
    <3>1. \A s \in Request : outcome[s] = "first" => phase[KeyOf(s)] = "fulfilled"
      BY DEF FunnelInv, RequestsSound
    <3> QED  BY <1>3, <2>5, <3>1 DEF FunnelInv, RowsTellTruth
  <2>6. rows' = rows /\ open' = open
    BY <1>1 DEF tableVars
  <2> QED  BY <1>6, <2>1, <2>2, <2>3, <2>4, <2>5, <2>6, LedgerMoves DEF RowsTellTruth
<1>10. RowsKeyed'
  BY <1>1 DEF FunnelInv, RowsKeyed, tableVars
<1> QED  BY <1>4, <1>5, <1>7, <1>8, <1>9, <1>10 DEF FunnelInv

(* Only the ledger moves: the chain uses an authorization, or startup      *)
(* recovery finalizes a purchase.                                          *)
LEMMA LedgerOnly ==
  ASSUME FunnelInv, [LedgerNext]_ledgerVars,
         UNCHANGED <<serverVars, callVars, origin, tableVars, faults>>
  PROVE  FunnelInv'
<1> USE DEF serverVars, callVars, tableVars
<1>1. LedgerInv' /\ \A f : Exact(f) => Exact(f)'
  BY LedgerMoves
<1>2. FunnelTypeOK'
  BY <1>1 DEF FunnelInv, FunnelTypeOK, LedgerInv, Phases
<1>3. \A q \in Request : KeyOf(q)' = KeyOf(q) /\ ReplayKeyFor(q)' = ReplayKeyFor(q)
  BY DEF KeyOf, ReplayKeyFor
<1>4. RequestsSound'
  <2>1. \A q \in Request :
          /\ q \in open <=> pc[q] \in Busy
          /\ q \in open => want[q] \in Wanted
          /\ q \notin open => attempt[q] = Blank
          /\ reply[q] # 0 => pc[q] = "done"
          /\ outcome[q] # "none" =>
               pc[q] \in {"ended", "done", "lost"} /\ want[q] \in Wanted
    BY DEF FunnelInv, RequestsSound
  <2> QED  BY <1>3, <2>1, LedgerMoves DEF RequestsSound, Blank, Busy
<1>5. RevenueIsExact'
  <2>1. Exact(mem)' /\ (snapshot' # NoSnapshot => Exact(snapshot)')
    BY <1>1 DEF FunnelInv, RevenueIsExact, Exact
  <2>2. ASSUME NEW q \in Request, server # "down", reply[q] = 200,
               outcome[q] \in {"first", "duplicate"}, KeyOf(q) \in Revenue'
        PROVE  KeyOf(q) \in mem.consumed
    <3>1. KeyOf(q) \in Revenue
      BY <2>2, LedgerMoves
    <3> QED  BY <2>2, <3>1 DEF FunnelInv, RevenueIsExact
  <2> QED  BY <1>3, <2>1, <2>2 DEF RevenueIsExact
<1>6. RowsTellTruth'
  <2>1. /\ open = {q \in Request : pc[q] \notin {"new", "done", "lost"}}
        /\ \A i, j \in DOMAIN rows : rows[i].request = rows[j].request => i = j
        /\ \A i \in DOMAIN rows : pc[rows[i].request] = "done"
        /\ \A p, q \in Request :
             outcome[p] = "first" /\ outcome[q] = "first" /\ KeyOf(p) = KeyOf(q)
               => p = q
    BY DEF FunnelInv, RowsTellTruth
  <2>2. \A i \in DOMAIN rows :
          /\ KeyOf(rows[i].request)' = KeyOf(rows[i].request)
          /\ ReplayKeyFor(rows[i].request)' = ReplayKeyFor(rows[i].request)
    BY DEF KeyOf, ReplayKeyFor
  <2> QED  BY <1>3, <2>1, <2>2, LedgerMoves DEF RowsTellTruth
<1>7. RowsKeyed'
  BY DEF FunnelInv, RowsKeyed
<1> QED  BY <1>1, <1>2, <1>4, <1>5, <1>6, <1>7 DEF FunnelInv

(* A well-formed paid request enters the map with a key of its own.        *)
LEMMA BeginKeeps ==
  ASSUME FunnelInv, NEW r \in Request, NEW k \in Key, NEW n \in ReplayKey,
         Begin(r, k, n)
  PROVE  FunnelInv'
<1> DEFINE w == [key |-> k, replayKey |-> n]
<1>1. /\ pc[r] = "new" /\ r \notin open /\ outcome[r] = "none" /\ reply[r] = 0
      /\ attempt[r] = Blank
  BY DEF FunnelInv, RequestsSound, Begin, New, Busy
<1>2. /\ open' = open \cup {r} /\ want' = [want EXCEPT ![r] = w]
      /\ pc' = [pc EXCEPT ![r] = "entering"]
      /\ UNCHANGED <<ledgerVars, serverVars, attempt, outcome, reply, origin,
                     tableVars, faults>>
  BY DEF Begin
<1>3. w \in Wanted
  BY DEF Wanted
<1> HIDE DEF w
<1>4. /\ pc'[r] = "entering" /\ want'[r] = w
      /\ \A q \in Request : q # r => pc'[q] = pc[q] /\ want'[q] = want[q]
      /\ want' \in [Request -> Wanted \cup {Nothing}]
      /\ pc' \in [Request -> {"new", "entering", "verify", "settle", "reconcile",
                              "execute", "ended", "done", "lost"}]
  BY <1>2, <1>3 DEF FunnelInv, FunnelTypeOK
<1>5. \A q \in Request : q # r => KeyOf(q)' = KeyOf(q) /\ ReplayKeyFor(q)' = ReplayKeyFor(q)
  BY <1>4 DEF KeyOf, ReplayKeyFor
<1>6. FunnelTypeOK'
  BY <1>2, <1>4 DEF FunnelInv, FunnelTypeOK, ledgerVars, serverVars, tableVars
<1>7. LedgerInv'
  BY <1>2 DEF FunnelInv, LedgerInv, ledgerVars
<1>8. RequestsSound'
  <2>1. ASSUME NEW q \in Request
        PROVE  /\ q \in open' <=> pc'[q] \in Busy
               /\ q \in open' => want'[q] \in Wanted
               /\ q \notin open' => attempt[q] = Blank
               /\ reply[q] # 0 => pc'[q] = "done"
               /\ pc'[q] \in {"settle", "reconcile", "execute"} =>
                    payment[KeyOf(q)'] = ReplayKeyFor(q)'
               /\ outcome[q] # "none" =>
                    pc'[q] \in {"ended", "done", "lost"} /\ want'[q] \in Wanted
               /\ outcome[q] \in {"first", "duplicate"} =>
                    /\ phase[KeyOf(q)'] = "fulfilled"
                    /\ payment[KeyOf(q)'] = ReplayKeyFor(q)'
               /\ attempt[q].settlement = "ok" => NonceOf[ReplayKeyFor(q)'] \in used
    <3>1. CASE q = r
      BY <1>1, <1>2, <1>3, <1>4, <3>1, BlankAttempt DEF Busy
    <3>2. CASE q # r
      BY <1>2, <1>4, <1>5, <3>2 DEF FunnelInv, RequestsSound
    <3> QED  BY <3>1, <3>2
  <2> QED  BY <1>2, <2>1 DEF RequestsSound, ledgerVars, Blank
<1>9. RevenueIsExact'
  <2>1. Exact(mem)' /\ (snapshot' # NoSnapshot => Exact(snapshot)')
        /\ (Revenue)' = Revenue
    BY <1>2 DEF FunnelInv, RevenueIsExact, serverVars, ledgerVars, Exact, Revenue
  <2> QED
    BY <1>1, <1>2, <1>5, <2>1 DEF FunnelInv, RevenueIsExact, serverVars
<1>10. \A i \in DOMAIN rows :
         /\ rows[i].request # r /\ rows[i].request \in Request
         /\ pc'[rows[i].request] = "done"
         /\ want'[rows[i].request] = want[rows[i].request]
  BY <1>1, <1>4, RowsOfRequests DEF FunnelInv, RowsTellTruth
<1>11. RowsTellTruth'
  <2>1. open' = {q \in Request : pc'[q] \notin {"new", "done", "lost"}}
    BY <1>2, <1>4 DEF FunnelInv, RowsTellTruth
  <2>2. rows' = rows /\ used' = used /\ phase' = phase /\ outcome' = outcome
    BY <1>2 DEF tableVars, ledgerVars
  <2>3. \A i \in DOMAIN rows :
          /\ KeyOf(rows[i].request)' = KeyOf(rows[i].request)
          /\ ReplayKeyFor(rows[i].request)' = ReplayKeyFor(rows[i].request)
    BY <1>10, <2>2 DEF KeyOf, ReplayKeyFor
  <2>4. \A p, q \in Request :
          outcome[p] = "first" /\ outcome[q] = "first" /\ KeyOf(p)' = KeyOf(q)'
            => p = q
    BY <1>1, <1>5 DEF FunnelInv, RowsTellTruth
  <2> QED
    BY <1>10, <2>1, <2>2, <2>3, <2>4 DEF FunnelInv, RowsTellTruth
<1>12. RowsKeyed'
  BY <1>2, <1>10 DEF FunnelInv, RowsKeyed, tableVars
<1> QED
  BY <1>6, <1>7, <1>8, <1>9, <1>11, <1>12 DEF FunnelInv

(* An attempt is closed with a row and an answer: the class says success   *)
(* only of the first fulfilment, and an answer with a result is given      *)
(* after the events were consumed.                                         *)
LEMMA FinalizeKeeps ==
  ASSUME FunnelInv, NEW r \in Request, pc[r] \in {"new", "ended"},
         NEW class \in Class,
         NEW status \in {200, 400, 402, 404, 502, 503}, NEW S,
         Finalize(r, class, status, S),
         class = "SUCCESSFUL_PAID_EXECUTION" => outcome[r] = "first",
         UNCHANGED <<ledgerVars, server, want, outcome, origin>>,
         faults' \in 0 .. MaxFault,
         mem' \in Funnel, Exact(mem'),
         snapshot' \in Funnel \cup {NoSnapshot},
         snapshot' # NoSnapshot => Exact(snapshot'),
         \/ mem' = mem /\ outcome[r] \notin {"first", "duplicate"}
         \/ Revenue \subseteq mem'.consumed
  PROVE  FunnelInv'
<1> DEFINE row == RowOf(r, class)
           all == WithRow(r, class)
<1>1. /\ pc' = [pc EXCEPT ![r] = "done"]
      /\ open' = open \ {r}
      /\ attempt' = [attempt EXCEPT ![r] = Blank]
      /\ reply' = [reply EXCEPT ![r] = status]
      /\ Insert(r, class, S) /\ saveDue' = TRUE
  BY DEF Finalize
<1>2. /\ row \in Row /\ rows' \in Seq(Row) /\ writes' \in 0 .. PruneEvery - 1
      /\ \E d \in Nat : \A i \in DOMAIN rows' :
           i + d \in DOMAIN all /\ rows'[i] = all[i + d]
  BY <1>1, InsertFacts DEF FunnelInv
<1>3. /\ row.request = r /\ row.class = class
      /\ row.settlement = attempt[r].settlement
  BY DEF RowOf
<1>4. PICK d \in Nat : \A i \in DOMAIN rows' :
        i + d \in DOMAIN all /\ rows'[i] = all[i + d]
  BY <1>2
<1>5. /\ DOMAIN all = 1 .. Len(rows) + 1 /\ DOMAIN rows = 1 .. Len(rows)
      /\ Len(rows) \in Nat /\ all[Len(rows) + 1] = row
      /\ \A i \in DOMAIN rows : all[i] = rows[i]
  BY <1>2 DEF FunnelInv, FunnelTypeOK, WithRow
(* A row of the new table is an old one or the new one, in their order.    *)
<1>6. \A i \in DOMAIN rows' :
        /\ i \in Nat
        /\ \/ i + d \in DOMAIN rows /\ rows'[i] = rows[i + d]
           \/ i + d = Len(rows) + 1 /\ rows'[i] = row
  <2>1. \A i \in DOMAIN rows' : i \in Nat
    BY <1>2
  <2> QED  BY <1>4, <1>5, <2>1
<1>7. /\ pc'[r] = "done" /\ attempt'[r] = Blank /\ reply'[r] = status
      /\ \A q \in Request : q # r => /\ pc'[q] = pc[q] /\ reply'[q] = reply[q]
                                     /\ attempt'[q] = attempt[q]
      /\ pc' \in [Request -> {"new", "entering", "verify", "settle", "reconcile",
                              "execute", "ended", "done", "lost"}]
      /\ reply' \in [Request -> {0, 200, 400, 402, 404, 502, 503}]
      /\ attempt' \in [Request -> Attempt]
  BY <1>1, BlankAttempt DEF FunnelInv, FunnelTypeOK
<1>8. /\ pc[r] = "new" => outcome[r] = "none" /\ attempt[r] = Blank
      /\ outcome[r] = "first" =>
           /\ phase[KeyOf(r)] = "fulfilled" /\ payment[KeyOf(r)] = ReplayKeyFor(r)
           /\ want[r] \in Wanted
      /\ attempt[r].settlement = "ok" => NonceOf[ReplayKeyFor(r)] \in used
  BY DEF FunnelInv, RequestsSound, Busy
<1>9. /\ \A q \in Request : KeyOf(q)' = KeyOf(q) /\ ReplayKeyFor(q)' = ReplayKeyFor(q)
      /\ (Revenue)' = Revenue /\ \A f : Exact(f) => Exact(f)'
  BY DEF KeyOf, ReplayKeyFor, Revenue, Exact, ledgerVars
<1>10. FunnelTypeOK'
  BY <1>1, <1>2, <1>7 DEF FunnelInv, FunnelTypeOK, ledgerVars
<1>11. LedgerInv'
  BY DEF FunnelInv, LedgerInv, ledgerVars
<1>12. RequestsSound'
  <2>1. ASSUME NEW q \in Request
        PROVE  /\ q \in open' <=> pc'[q] \in Busy
               /\ q \in open' => want[q] \in Wanted
               /\ q \notin open' => attempt'[q] = Blank
               /\ reply'[q] # 0 => pc'[q] = "done"
               /\ pc'[q] \in {"settle", "reconcile", "execute"} =>
                    payment[KeyOf(q)] = ReplayKeyFor(q)
               /\ outcome[q] # "none" =>
                    pc'[q] \in {"ended", "done", "lost"} /\ want[q] \in Wanted
               /\ outcome[q] \in {"first", "duplicate"} =>
                    phase[KeyOf(q)] = "fulfilled" /\ payment[KeyOf(q)] = ReplayKeyFor(q)
               /\ attempt'[q].settlement = "ok" => NonceOf[ReplayKeyFor(q)] \in used
    <3>1. CASE q = r
      BY <1>1, <1>7, <3>1, BlankAttempt DEF FunnelInv, RequestsSound, Busy
    <3>2. CASE q # r
      BY <1>1, <1>7, <3>2 DEF FunnelInv, RequestsSound
    <3> QED  BY <3>1, <3>2
  <2> QED  BY <1>9, <2>1 DEF RequestsSound, ledgerVars, Blank
<1>13. RevenueIsExact'
  <2>1. (Exact(mem))' /\ (snapshot' # NoSnapshot => (Exact(snapshot))')
    BY <1>9 DEF Exact
  <2>2. ASSUME NEW q \in Request, server # "down", reply'[q] = 200,
               outcome[q] \in {"first", "duplicate"}, KeyOf(q) \in Revenue
        PROVE  KeyOf(q) \in mem'.consumed
    <3>1. CASE Revenue \subseteq mem'.consumed
      BY <2>2, <3>1
    <3>2. CASE mem' = mem /\ outcome[r] \notin {"first", "duplicate"}
      BY <1>7, <2>2, <3>2 DEF FunnelInv, RevenueIsExact
    <3> QED  BY <3>1, <3>2
  <2> QED  BY <1>9, <2>1, <2>2 DEF RevenueIsExact
<1>14. \A i \in DOMAIN rows :
         rows[i].request \in Request /\ rows[i].request # r
  BY RowsOfRequests DEF FunnelInv, RowsTellTruth
<1>15. ASSUME NEW i \in DOMAIN rows'
       PROVE  /\ pc'[rows'[i].request] = "done"
              /\ rows'[i].settlement = "ok" => NonceOf[ReplayKeyFor(rows'[i].request)] \in used
              /\ rows'[i].class = "SUCCESSFUL_PAID_EXECUTION" =>
                   /\ want[rows'[i].request] \in Wanted
                   /\ phase[KeyOf(rows'[i].request)] = "fulfilled"
                   /\ NonceOf[ReplayKeyFor(rows'[i].request)] \in used
  <2>1. CASE i + d \in DOMAIN rows /\ rows'[i] = rows[i + d]
    BY <1>7, <1>14, <2>1 DEF FunnelInv, RowsTellTruth, RowsKeyed
  <2>2. CASE rows'[i] = row
    <3>1. class = "SUCCESSFUL_PAID_EXECUTION" => NonceOf[ReplayKeyFor(r)] \in used
      BY <1>8 DEF FunnelInv, LedgerInv, KeyOf, Wanted
    <3> QED  BY <1>3, <1>7, <1>8, <2>2, <3>1
  <2> QED  BY <1>6, <2>1, <2>2
<1>16. ASSUME NEW i \in DOMAIN rows', NEW j \in DOMAIN rows',
              rows'[i].request = rows'[j].request
       PROVE  i = j
  <2>1. i + d = j + d
    BY <1>3, <1>6, <1>14, <1>16 DEF FunnelInv, RowsTellTruth
  <2> QED  BY <1>6, <2>1
<1>17. RowsTellTruth' /\ RowsKeyed'
  <2>1. open' = {q \in Request : pc'[q] \notin {"new", "done", "lost"}}
    BY <1>1, <1>7 DEF FunnelInv, RowsTellTruth
  <2>2. \A i \in DOMAIN rows' :
          /\ KeyOf(rows[i].request)' = KeyOf(rows'[i].request)
          /\ ReplayKeyFor(rows[i].request)' = ReplayKeyFor(rows'[i].request)
    BY DEF KeyOf, ReplayKeyFor
  <2>3. \A p, q \in Request :
          outcome[p] = "first" /\ outcome[q] = "first" /\ KeyOf(p) = KeyOf(q)
            => p = q
    BY DEF FunnelInv, RowsTellTruth
  <2> QED
    BY <1>9, <1>15, <1>16, <2>1, <2>2, <2>3 DEF RowsTellTruth, RowsKeyed, ledgerVars
<1> QED  BY <1>10, <1>11, <1>12, <1>13, <1>17 DEF FunnelInv

(* The process stops: memory is lost, the table and the ledger stay.       *)
LEMMA GoneKeeps ==
  ASSUME FunnelInv, Gone, faults' \in 0 .. MaxFault,
         snapshot' \in {snapshot, mem}
  PROVE  FunnelInv'
<1>1. /\ server' = "down" /\ mem' = EmptyFunnel /\ saveDue' = FALSE
      /\ open' = {} /\ attempt' = [q \in Request |-> Blank] /\ writes' = 0
      /\ pc' = [q \in Request |->
                  IF pc[q] \in {"new", "done"} THEN pc[q] ELSE "lost"]
      /\ UNCHANGED <<ledgerVars, want, outcome, reply, origin, rows>>
  BY DEF Gone
<1>2. /\ \A q \in Request : KeyOf(q)' = KeyOf(q) /\ ReplayKeyFor(q)' = ReplayKeyFor(q)
      /\ \A f : Exact(f) => Exact(f)'
  BY <1>1 DEF KeyOf, ReplayKeyFor, Revenue, Exact, ledgerVars
<1>3. FunnelTypeOK'
  <2>1. 0 \in 0 .. PruneEvery - 1
    BY FunnelAssumption
  <2>2. snapshot' \in Funnel \cup {NoSnapshot}
    BY DEF FunnelInv, FunnelTypeOK
  <2> QED
    BY <1>1, <2>1, <2>2, BlankAttempt, EmptyExact
    DEF FunnelInv, FunnelTypeOK, ledgerVars
<1>4. LedgerInv'
  BY <1>1 DEF FunnelInv, LedgerInv, ledgerVars
<1>5. RequestsSound'
  <2>1. \A q \in Request :
          /\ pc'[q] \in {"new", "done", "lost"}
          /\ reply[q] # 0 => pc'[q] = "done"
          /\ outcome[q] # "none" =>
               pc'[q] \in {"ended", "done", "lost"} /\ want[q] \in Wanted
          /\ outcome[q] \in {"first", "duplicate"} =>
               phase[KeyOf(q)] = "fulfilled" /\ payment[KeyOf(q)] = ReplayKeyFor(q)
          /\ attempt'[q].settlement = "none"
    BY <1>1, BlankAttempt DEF FunnelInv, RequestsSound
  <2> QED
    BY <1>1, <1>2, <2>1 DEF RequestsSound, Busy, Blank, ledgerVars
<1>6. RevenueIsExact'
  <2>1. (Exact(mem))' /\ (snapshot' # NoSnapshot => (Exact(snapshot))')
    BY <1>1, <1>2, EmptyExact DEF FunnelInv, RevenueIsExact, Exact
  <2> QED  BY <1>1, <2>1 DEF RevenueIsExact
<1>7. RowsTellTruth'
  <2>1. open' = {q \in Request : pc'[q] \notin {"new", "done", "lost"}}
    BY <1>1
  <2>2. \A i \in DOMAIN rows : pc'[rows[i].request] = "done"
    BY <1>1, RowsOfRequests DEF FunnelInv, RowsTellTruth
  <2>3. \A i \in DOMAIN rows :
          /\ KeyOf(rows[i].request)' = KeyOf(rows[i].request)
          /\ ReplayKeyFor(rows[i].request)' = ReplayKeyFor(rows[i].request)
    BY <1>1 DEF KeyOf, ReplayKeyFor
  <2> QED
    BY <1>1, <1>2, <2>1, <2>2, <2>3 DEF FunnelInv, RowsTellTruth, ledgerVars
<1>8. RowsKeyed'
  BY <1>1 DEF FunnelInv, RowsKeyed
<1> QED  BY <1>3, <1>4, <1>5, <1>6, <1>7, <1>8 DEF FunnelInv

LEMMA BreaksFacts ==
  ASSUME FunnelInv, NEW S \in SUBSET {"save", "row", "load", "process", "read"},
         Breaks(S)
  PROVE  faults' \in 0 .. MaxFault
<1>1. IsFiniteSet({"save", "row", "load", "process", "read"})
  <2> DEFINE A == {"save"} \cup {"row"}
             B == A \cup {"load"}
             C == B \cup {"process"}
  <2>1. IsFiniteSet({"save"})
    BY FS_Singleton
  <2>2. IsFiniteSet(A)
    BY <2>1, FS_AddElement
  <2> HIDE DEF A
  <2>3. IsFiniteSet(B)
    BY <2>2, FS_AddElement
  <2> HIDE DEF B
  <2>4. IsFiniteSet(C)
    BY <2>3, FS_AddElement
  <2> HIDE DEF C
  <2>5. IsFiniteSet(C \cup {"read"})
    BY <2>4, FS_AddElement
  <2>6. C \cup {"read"} = {"save", "row", "load", "process", "read"}
    BY DEF A, B, C
  <2> QED  BY <2>5, <2>6
<1>2. Cardinality(S) \in Nat
  BY <1>1, FS_Subset, FS_CardinalityType
<1>3. faults \in Nat /\ MaxFault \in Nat
  BY FunnelAssumption DEF FunnelInv, FunnelTypeOK
<1> QED  BY <1>2, <1>3 DEF Breaks

-----------------------------------------------------------------------------
(* The steps of the paid routes.                                           *)

(* Where a request in the engine is.                                       *)
LEMMA InProgress ==
  ASSUME FunnelInv, NEW r \in Request, pc[r] \in Busy
  PROVE  /\ r \in open /\ want[r] \in Wanted /\ KeyOf(r) \in Key
         /\ ReplayKeyFor(r) \in ReplayKey /\ ReplayKeyFor(r) # Nothing
         /\ pc[r] # "ended" => outcome[r] = "none"
         /\ pc[r] \in {"settle", "reconcile", "execute"} =>
              payment[KeyOf(r)] = ReplayKeyFor(r)
         /\ attempt \in [Request -> Attempt] /\ open \subseteq Request
         /\ origin \in [Key -> Request \cup {Nothing}]
         /\ faults \in 0 .. MaxFault
<1>1. r \in open /\ want[r] \in Wanted
  BY DEF FunnelInv, RequestsSound
<1>2. KeyOf(r) \in Key /\ ReplayKeyFor(r) \in ReplayKey /\ ReplayKeyFor(r) # Nothing
  BY <1>1, LedgerAssumption DEF KeyOf, ReplayKeyFor, Wanted
<1>3. pc[r] # "ended" => outcome[r] = "none"
  BY DEF FunnelInv, RequestsSound, Busy
<1> QED  BY <1>1, <1>2, <1>3 DEF FunnelInv, RequestsSound, FunnelTypeOK

(* An event that says nothing of a settlement, or that nobody listens to.  *)
NotesNoSettlement ==
  /\ attempt' \in [Request -> Attempt]
  /\ \A q \in Request : q \notin open => attempt'[q] = attempt[q]
  /\ \A q \in Request :
       attempt'[q].settlement = "ok" => attempt[q].settlement = "ok"

LEMMA EmitFacts ==
  ASSUME FunnelInv, NEW r,
         NEW event \in {"verification", "settlement", "receipt"},
         NEW result \in {"attempted", "ok", "failed"},
         NEW kind \in Failure \cup {"none"},
         event = "settlement" => result # "ok",
         Emit(r, event, result, kind)
  PROVE  NotesNoSettlement
<1>1. attempt \in [Request -> Attempt] /\ open \subseteq Request
      /\ result \in Stage
  BY DEF FunnelInv, FunnelTypeOK, Stage
<1>2. attempt' = Note(attempt, r, event, result, kind)
  BY DEF Emit
<1>3. /\ attempt' \in [Request -> Attempt]
      /\ \A q \in Request : q \notin open => attempt'[q] = attempt[q]
      /\ \A q \in Request :
           \/ attempt'[q].settlement = attempt[q].settlement
           \/ q = r /\ event = "settlement" /\ attempt'[q].settlement = result
  BY <1>1, <1>2, NoteFacts
<1> QED  BY <1>3 DEF NotesNoSettlement

LEMMA NoEvent ==
  ASSUME FunnelInv, UNCHANGED attempt
  PROVE  NotesNoSettlement
  BY DEF NotesNoSettlement, FunnelInv, FunnelTypeOK

(* A request ends with an error.                                           *)
LEMMA EndKeeps ==
  ASSUME FunnelInv, NEW r \in Request, pc[r] \in Busy \ {"ended"},
         NEW e \in Error, End(r, e), NotesNoSettlement,
         UNCHANGED <<ledgerVars, engineKeeps, origin, faults>>
  PROVE  FunnelInv'
<1>1. e \notin {"first", "duplicate"}
  BY DEF Error, Malformed
<1>2. /\ pc' = [pc EXCEPT ![r] = "ended"] /\ outcome' = [outcome EXCEPT ![r] = e]
      /\ "ended" \in Busy /\ [LedgerNext]_ledgerVars
      /\ origin' \in [Key -> Request \cup {Nothing}] /\ faults' \in 0 .. MaxFault
  BY InProgress DEF End, Busy
<1> QED  BY <1>1, <1>2, InProgress, EngineMoves DEF NotesNoSettlement

(* A request goes on.                                                      *)
LEMMA GotoKeeps ==
  ASSUME FunnelInv, NEW r \in Request, pc[r] \in Busy \ {"ended"},
         NEW at \in Busy, Goto(r, at), NotesNoSettlement,
         at \in {"settle", "reconcile", "execute"} =>
           payment'[KeyOf(r)] = ReplayKeyFor(r),
         [LedgerNext]_ledgerVars, UNCHANGED <<engineKeeps, faults>>,
         origin' \in [Key -> Request \cup {Nothing}]
  PROVE  FunnelInv'
<1>1. /\ pc' = [pc EXCEPT ![r] = at] /\ UNCHANGED outcome
      /\ faults' \in 0 .. MaxFault
  BY InProgress DEF Goto
<1> QED  BY <1>1, InProgress, EngineMoves DEF NotesNoSettlement

LEMMA EnterKeeps ==
  ASSUME FunnelInv, NEW r \in Request, Enter(r)
  PROVE  FunnelInv'
<1> DEFINE k == KeyOf(r)
           n == ReplayKeyFor(r)
           taken == \E j \in Key : payment[j] = n
<1>1. /\ pc[r] = "entering" /\ pc[r] \in Busy \ {"ended"}
      /\ UNCHANGED <<ledgerVars, engineKeeps, origin, faults>>
  BY DEF Enter, Busy
<1>2. /\ [LedgerNext]_ledgerVars /\ payment' = payment
      /\ origin' \in [Key -> Request \cup {Nothing}]
  BY <1>1, InProgress DEF ledgerVars
<1>3. CASE \E e \in Error : End(r, e) /\ UNCHANGED attempt
  BY <1>1, <1>3, NoEvent, EndKeeps
<1>4. CASE /\ Goto(r, "verify")
           /\ Emit(r, "verification", "attempted", "none")
  BY <1>1, <1>2, <1>4, EmitFacts, GotoKeeps DEF Busy
<1>5. CASE /\ payment[k] = n /\ UNCHANGED attempt
           /\ Goto(r, "reconcile") \/ Goto(r, "execute")
  BY <1>1, <1>2, <1>5, NoEvent, GotoKeeps DEF Busy
<1>6. CASE /\ payment[k] = n /\ UNCHANGED attempt
           /\ phase[k] = "fulfilled" /\ End(r, "duplicate")
  <2>1. /\ pc' = [pc EXCEPT ![r] = "ended"]
        /\ outcome' = [outcome EXCEPT ![r] = "duplicate"]
        /\ phase'[k] = "fulfilled" /\ payment'[k] = n
        /\ "ended" \in Busy /\ faults' \in 0 .. MaxFault
    BY <1>1, <1>6, InProgress DEF End, Busy, ledgerVars
  <2>2. NotesNoSettlement
    BY <1>6, NoEvent
  <2>3. \E how \in Error \cup {"first", "duplicate"} :
          /\ outcome' = [outcome EXCEPT ![r] = how]
          /\ how \in {"first", "duplicate"} =>
               phase'[k] = "fulfilled" /\ payment'[k] = n
          /\ how = "first" => phase[k] # "fulfilled"
    <3> WITNESS "duplicate" \in Error \cup {"first", "duplicate"}
    <3> QED  BY <2>1
  <2> QED
    BY <1>1, <1>2, <2>1, <2>2, <2>3, InProgress, EngineMoves
    DEF NotesNoSettlement
<1>7. \/ \E e \in Error : End(r, e) /\ UNCHANGED attempt
      \/ /\ Goto(r, "verify")
         /\ Emit(r, "verification", "attempted", "none")
      \/ /\ payment[k] = n /\ UNCHANGED attempt
         /\ Goto(r, "reconcile") \/ Goto(r, "execute")
      \/ /\ payment[k] = n /\ UNCHANGED attempt
         /\ phase[k] = "fulfilled" /\ End(r, "duplicate")
  BY DEF Enter, Unprepared, Error
<1> QED  BY <1>3, <1>4, <1>5, <1>6, <1>7

LEMMA VerifiedKeeps ==
  ASSUME FunnelInv, NEW r \in Request, Verified(r)
  PROVE  FunnelInv'
<1>1. /\ pc[r] = "verify" /\ pc[r] \in Busy \ {"ended"}
      /\ UNCHANGED <<engineKeeps, faults>>
  BY DEF Verified, Busy
<1>2. CASE /\ Reserve(KeyOf(r), ReplayKeyFor(r))
           /\ origin' = [origin EXCEPT ![KeyOf(r)] = r]
           /\ attempt' = Note(Note(attempt, r, "verification", "ok", "none"),
                              r, "settlement", "attempted", "none")
           /\ Goto(r, "settle")
  <2>1. [LedgerNext]_ledgerVars
    BY <1>1, <1>2, InProgress DEF LedgerNext
  <2>2. payment'[KeyOf(r)] = ReplayKeyFor(r)
    BY <1>1, <1>2, InProgress DEF Reserve, FunnelInv, FunnelTypeOK
  <2>3. origin' \in [Key -> Request \cup {Nothing}]
    BY <1>1, <1>2, InProgress
  <2>4. /\ attempt \in [Request -> Attempt] /\ open \subseteq Request
        /\ "ok" \in Stage /\ "attempted" \in Stage
        /\ "none" \in Failure \cup {"none"}
        /\ "verification" \in {"verification", "settlement", "receipt"}
        /\ "settlement" \in {"verification", "settlement", "receipt"}
    BY <1>1, InProgress DEF Stage
  <2>5. PICK b : b = Note(attempt, r, "verification", "ok", "none")
    OBVIOUS
  <2>6. attempt' = Note(b, r, "settlement", "attempted", "none")
    BY <1>2, <2>5
  <2>7. /\ attempt' \in [Request -> Attempt]
        /\ \A q \in Request : attempt'[q].settlement = "ok" =>
             attempt[q].settlement = "ok"
    <3>1. b \in [Request -> Attempt]
      BY ONLY <2>4, <2>5, NoteFacts
    <3>2. \A q \in Request : b[q].settlement = attempt[q].settlement
      BY ONLY <2>4, <2>5, NoteFacts
    <3>3. attempt' \in [Request -> Attempt]
      BY ONLY <2>4, <2>6, <3>1, NoteFacts
    <3>4. \A q \in Request : \/ attempt'[q].settlement = b[q].settlement
                             \/ attempt'[q].settlement = "attempted"
      BY ONLY <2>4, <2>6, <3>1, NoteFacts
    <3> QED  BY <3>2, <3>3, <3>4
  <2>8. \A q \in Request : q \notin open => attempt'[q] = attempt[q]
    <3>1. r \in open
      BY <1>1, InProgress
    <3>2. \A q \in Request : q # r => b[q] = attempt[q]
      BY <2>4, <2>5, <3>1 DEF Note
    <3>3. b \in [Request -> Attempt]
      BY ONLY <2>4, <2>5, NoteFacts
    <3>4. \A q \in Request : q # r => attempt'[q] = b[q]
      BY <2>6, <3>1, <3>3 DEF Note
    <3> QED  BY <3>1, <3>2, <3>4
  <2>9. NotesNoSettlement
    BY <2>7, <2>8 DEF NotesNoSettlement
  <2> QED  BY <1>1, <1>2, <2>1, <2>2, <2>3, <2>9, GotoKeeps DEF Busy
<1>3. CASE \E e \in Error, kind \in Failure :
             /\ End(r, e) /\ Emit(r, "verification", "failed", kind)
             /\ UNCHANGED <<ledgerVars, origin>>
  BY <1>1, <1>3, EmitFacts, EndKeeps
<1>4. \/ /\ Reserve(KeyOf(r), ReplayKeyFor(r))
         /\ origin' = [origin EXCEPT ![KeyOf(r)] = r]
         /\ attempt' = Note(Note(attempt, r, "verification", "ok", "none"),
                            r, "settlement", "attempted", "none")
         /\ Goto(r, "settle")
      \/ \E e \in Error, kind \in Failure :
           /\ End(r, e) /\ Emit(r, "verification", "failed", kind)
           /\ UNCHANGED <<ledgerVars, origin>>
  BY DEF Verified, Error, Failure
<1> QED  BY <1>2, <1>3, <1>4

LEMMA SettledKeeps ==
  ASSUME FunnelInv, NEW r \in Request, Settled(r)
  PROVE  FunnelInv'
<1>1. /\ pc[r] = "settle" /\ pc[r] \in Busy \ {"ended"}
      /\ UNCHANGED <<engineKeeps, origin, faults>>
  BY DEF Settled, Busy
<1>2. CASE /\ Pay(KeyOf(r)) /\ Goto(r, "execute")
           /\ Emit(r, "settlement", "ok", "none")
  <2>1. [LedgerNext]_ledgerVars
    BY <1>1, <1>2, InProgress DEF LedgerNext
  <2>2. payment'[KeyOf(r)] = ReplayKeyFor(r) /\ NonceOf[ReplayKeyFor(r)] \in used'
    BY <1>1, <1>2, InProgress DEF Pay
  <2>3. /\ attempt \in [Request -> Attempt] /\ open \subseteq Request
        /\ "ok" \in Stage
    BY <1>1, InProgress DEF Stage
  <2>4. attempt' = Note(attempt, r, "settlement", "ok", "none")
    BY <1>2 DEF Emit
  <2>5. /\ attempt' \in [Request -> Attempt]
        /\ \A q \in Request : q \notin open => attempt'[q] = attempt[q]
        /\ \A q \in Request : \/ attempt'[q].settlement = attempt[q].settlement
                              \/ q = r
    BY <2>3, <2>4, NoteFacts
  <2>6. \A q \in Request : attempt'[q].settlement = "ok" =>
          attempt[q].settlement = "ok" \/ (q = r /\ NonceOf[ReplayKeyFor(r)] \in used')
    BY <2>2, <2>5
  <2>7. /\ pc' = [pc EXCEPT ![r] = "execute"] /\ UNCHANGED outcome
        /\ "execute" \in Busy /\ faults' \in 0 .. MaxFault
        /\ origin' \in [Key -> Request \cup {Nothing}]
    BY <1>1, <1>2, InProgress DEF Goto, Busy
  <2> QED
    BY <1>1, <2>1, <2>2, <2>5, <2>6, <2>7, InProgress, EngineMoves
<1>3. CASE \E e \in Error, kind \in Failure :
             /\ End(r, e) /\ Emit(r, "settlement", "failed", kind)
             /\ UNCHANGED ledgerVars
  BY <1>1, <1>3, EmitFacts, EndKeeps
<1>4. \/ /\ Pay(KeyOf(r)) /\ Goto(r, "execute")
         /\ Emit(r, "settlement", "ok", "none")
      \/ \E e \in Error, kind \in Failure :
           /\ End(r, e) /\ Emit(r, "settlement", "failed", kind)
           /\ UNCHANGED ledgerVars
  BY DEF Settled, Error, Failure
<1> QED  BY <1>2, <1>3, <1>4

LEMMA ReconciledKeeps ==
  ASSUME FunnelInv, NEW r \in Request, Reconciled(r)
  PROVE  FunnelInv'
<1>1. /\ pc[r] = "reconcile" /\ pc[r] \in Busy \ {"ended"}
      /\ UNCHANGED <<engineKeeps, attempt, origin, faults>>
  BY DEF Reconciled, Busy
<1>2. NotesNoSettlement
  BY <1>1, NoEvent
<1>3. CASE Pay(KeyOf(r)) /\ Goto(r, "execute")
  <2>1. [LedgerNext]_ledgerVars /\ payment'[KeyOf(r)] = ReplayKeyFor(r)
    BY <1>1, <1>3, InProgress DEF LedgerNext, Pay
  <2> QED  BY <1>1, <1>2, <1>3, <2>1, InProgress, GotoKeeps DEF Busy
<1>4. CASE End(r, "unresolved") /\ UNCHANGED ledgerVars
  BY <1>1, <1>2, <1>4, EndKeeps DEF Error
<1> QED  BY <1>3, <1>4 DEF Reconciled

LEMMA ExecutedKeeps ==
  ASSUME FunnelInv, NEW r \in Request, Executed(r)
  PROVE  FunnelInv'
<1> DEFINE first == origin[KeyOf(r)]
<1>1. /\ pc[r] = "execute" /\ pc[r] \in Busy \ {"ended"}
      /\ UNCHANGED <<engineKeeps, origin, faults>>
  BY DEF Executed, Busy
<1>2. CASE /\ \E a \in Answer : Fulfil(KeyOf(r), a)
           /\ Emit(first, "receipt", "ok", "none")
           /\ End(r, "first")
  <2>1. [LedgerNext]_ledgerVars
    BY <1>1, <1>2, InProgress DEF LedgerNext
  <2>2. /\ phase[KeyOf(r)] # "fulfilled" /\ phase'[KeyOf(r)] = "fulfilled"
        /\ payment'[KeyOf(r)] = ReplayKeyFor(r)
    BY <1>1, <1>2, InProgress DEF Fulfil, FunnelInv, FunnelTypeOK
  <2>3. NotesNoSettlement
    BY <1>2, EmitFacts
  <2>4. /\ pc' = [pc EXCEPT ![r] = "ended"]
        /\ outcome' = [outcome EXCEPT ![r] = "first"]
        /\ "ended" \in Busy /\ faults' \in 0 .. MaxFault
        /\ origin' \in [Key -> Request \cup {Nothing}]
    BY <1>1, <1>2, InProgress DEF End, Busy
  <2>5. \E how \in Error \cup {"first", "duplicate"} :
          /\ outcome' = [outcome EXCEPT ![r] = how]
          /\ how \in {"first", "duplicate"} =>
               phase'[KeyOf(r)] = "fulfilled" /\ payment'[KeyOf(r)] = ReplayKeyFor(r)
          /\ how = "first" => phase[KeyOf(r)] # "fulfilled"
    <3> WITNESS "first" \in Error \cup {"first", "duplicate"}
    <3> QED  BY <2>2, <2>4
  <2> QED
    BY <1>1, <2>1, <2>2, <2>3, <2>4, <2>5, InProgress, EngineMoves
    DEF NotesNoSettlement
<1>3. CASE /\ End(r, "unwritten") /\ UNCHANGED ledgerVars
           /\ Emit(first, "receipt", "failed", "RECEIPT_FAILURE")
  BY <1>1, <1>3, EmitFacts, EndKeeps DEF Error, Failure
<1>4. CASE End(r, "execution unknown") /\ UNCHANGED <<ledgerVars, attempt>>
  BY <1>1, <1>4, NoEvent, EndKeeps DEF Error
<1> QED  BY <1>2, <1>3, <1>4 DEF Executed

LEMMA EventsUnreadableKeeps ==
  ASSUME FunnelInv, NEW r \in Request, EventsUnreadable(r)
  PROVE  FunnelInv'
<1>1. /\ pc[r] = "ended" /\ outcome[r] \in {"first", "duplicate"}
      /\ End(r, "unreadable") /\ faults' \in 0 .. MaxFault
      /\ UNCHANGED <<ledgerVars, serverVars, want, attempt, open, reply, origin,
                     tableVars>>
  BY BreaksFacts DEF EventsUnreadable
<1>2. /\ pc' = [pc EXCEPT ![r] = "ended"]
      /\ outcome' = [outcome EXCEPT ![r] = "unreadable"]
  BY <1>1 DEF End
<1>3. /\ pc[r] \in Busy /\ "ended" \in Busy /\ [LedgerNext]_ledgerVars
      /\ UNCHANGED engineKeeps
  BY <1>1 DEF Busy, engineKeeps
<1>4. origin' \in [Key -> Request \cup {Nothing}]
  BY <1>1, <1>3, InProgress
<1>5. \E how \in Error \cup {"first", "duplicate"} :
        /\ outcome' = [outcome EXCEPT ![r] = how]
        /\ how \in {"first", "duplicate"} =>
             phase'[KeyOf(r)] = "fulfilled" /\ payment'[KeyOf(r)] = ReplayKeyFor(r)
        /\ how = "first" => phase[KeyOf(r)] # "fulfilled"
  <2>1. "unreadable" \in Error \cup {"first", "duplicate"}
    BY DEF Error
  <2> QED  BY <1>2, <2>1
<1> QED
  BY <1>1, <1>2, <1>3, <1>4, <1>5, NoEvent, InProgress, EngineMoves
  DEF NotesNoSettlement

(* An attempt that ends before the engine is called.                       *)
LEMMA AtOnceKeeps ==
  ASSUME FunnelInv, NEW r \in Request,
         NEW class \in Class \ {"SUCCESSFUL_PAID_EXECUTION"},
         NEW status \in {200, 400, 402, 404, 502, 503},
         AtOnce(r, class, status)
  PROVE  FunnelInv'
<1>1. PICK S \in SUBSET {"row"} : Breaks(S) /\ Finalize(r, class, status, S)
  BY DEF AtOnce
<1>2. /\ pc[r] = "new"
      /\ UNCHANGED <<ledgerVars, server, mem, snapshot, want, outcome, origin>>
  BY DEF AtOnce, New
<1>3. faults' \in 0 .. MaxFault
  BY <1>1, BreaksFacts
<1>4. /\ mem' \in Funnel /\ Exact(mem') /\ mem' = mem
      /\ snapshot' \in Funnel \cup {NoSnapshot}
      /\ snapshot' # NoSnapshot => Exact(snapshot')
      /\ outcome[r] \notin {"first", "duplicate"}
  BY <1>2 DEF FunnelInv, FunnelTypeOK, RevenueIsExact, RequestsSound
<1> QED  BY <1>1, <1>2, <1>3, <1>4, FinalizeKeeps

LEMMA FailWithKeeps ==
  ASSUME FunnelInv, NEW r \in Request,
         NEW status \in {200, 400, 402, 404, 502, 503},
         FailWith(r, status)
  PROVE  FunnelInv'
<1> DEFINE class == IF attempt[r].failure # "none" THEN attempt[r].failure
                    ELSE ClassOf(outcome[r])
<1>1. PICK S \in SUBSET {"row"} : Breaks(S) /\ Finalize(r, class, status, S)
  BY DEF FailWith
<1>2. /\ pc[r] = "ended" /\ outcome[r] \in Error
      /\ UNCHANGED <<ledgerVars, server, mem, snapshot, want, outcome, origin>>
  BY DEF FailWith
<1>3. class \in Class /\ class # "SUCCESSFUL_PAID_EXECUTION"
  <2>1. attempt[r].failure \in Failure \cup {"none"}
    BY DEF FunnelInv, FunnelTypeOK, Attempt
  <2>2. /\ ClassOf(outcome[r]) \in Class
        /\ ClassOf(outcome[r]) # "SUCCESSFUL_PAID_EXECUTION"
    BY <1>2 DEF ClassOf, Error, Malformed, Class, Failure, Refusal
  <2> QED  BY <2>1, <2>2 DEF Class, Failure
<1> HIDE DEF class
<1>4. faults' \in 0 .. MaxFault
  BY <1>1, BreaksFacts
<1>5. /\ mem' \in Funnel /\ Exact(mem') /\ mem' = mem
      /\ snapshot' \in Funnel \cup {NoSnapshot}
      /\ snapshot' # NoSnapshot => Exact(snapshot')
      /\ outcome[r] \notin {"first", "duplicate"}
  BY <1>2 DEF FunnelInv, FunnelTypeOK, RevenueIsExact, Error, Malformed
<1> QED  BY <1>1, <1>2, <1>3, <1>4, <1>5, FinalizeKeeps

(* Consuming before the answer is what makes the revenue complete.         *)
LEMMA AnswerWithKeeps ==
  ASSUME FunnelInv, NEW r \in Request, NEW S \in SUBSET {"save", "row"},
         AnswerWith(r, S, 200)
  PROVE  FunnelInv'
<1> DEFINE class == IF outcome[r] = "duplicate"
                    THEN "REPLAY_OR_IDEMPOTENCY_CONFLICT"
                    ELSE "SUCCESSFUL_PAID_EXECUTION"
<1>1. /\ pc[r] = "ended" /\ outcome[r] \in {"first", "duplicate"}
      /\ Breaks(S) /\ mem' = Consume(mem) /\ SaveIfChanged(mem, S)
      /\ Finalize(r, class, 200, S)
      /\ UNCHANGED <<ledgerVars, server, want, outcome, origin>>
  BY DEF AnswerWith
<1>2. /\ class \in Class
      /\ class = "SUCCESSFUL_PAID_EXECUTION" => outcome[r] = "first"
  BY <1>1 DEF Class
<1> HIDE DEF class
<1>3. faults' \in 0 .. MaxFault
  BY <1>1, BreaksFacts
<1>4. /\ mem \in Funnel /\ Exact(mem) /\ snapshot \in Funnel \cup {NoSnapshot}
      /\ snapshot # NoSnapshot => Exact(snapshot)
  BY DEF FunnelInv, FunnelTypeOK, RevenueIsExact
<1>5. /\ mem' \in Funnel /\ Exact(mem') /\ Revenue \subseteq mem'.consumed
      /\ snapshot' \in {snapshot, mem'}
  BY <1>1, <1>4, ConsumeFacts DEF SaveIfChanged
<1> QED  BY <1>1, <1>2, <1>3, <1>4, <1>5, FinalizeKeeps

LEMMA StartKeeps ==
  ASSUME FunnelInv, Start
  PROVE  FunnelInv'
<1>1. PICK S \in SUBSET {"load", "save"} : Breaks(S) /\ Load(S)
  BY DEF Start
<1>2. /\ server' = "starting"
      /\ UNCHANGED <<ledgerVars, saveDue, callVars, origin, tableVars>>
  BY DEF Start
<1>3. faults' \in 0 .. MaxFault /\ saveDue' \in BOOLEAN
  BY <1>1, <1>2, BreaksFacts DEF FunnelInv, FunnelTypeOK
<1>4. /\ Loaded(S) \in Funnel /\ Exact(Loaded(S))
      /\ snapshot \in Funnel \cup {NoSnapshot}
      /\ snapshot # NoSnapshot => Exact(snapshot)
  BY EmptyExact DEF Loaded, FunnelInv, FunnelTypeOK, RevenueIsExact
<1>5. /\ mem' \in Funnel /\ Exact(mem') /\ Revenue \subseteq mem'.consumed
      /\ snapshot' \in {snapshot, mem'}
  BY <1>1, <1>4, ConsumeFacts DEF Load, SaveIfChanged
<1> QED  BY <1>2, <1>3, <1>4, <1>5, ServerMoves

LEMMA SaverKeeps ==
  ASSUME FunnelInv, Visit \/ TimedSave \/ Listen
  PROVE  FunnelInv'
<1>1. /\ server # "down" /\ mem' = mem /\ snapshot' \in {snapshot, mem}
      /\ server' \in {"down", "starting", "up"} /\ saveDue' \in BOOLEAN
      /\ UNCHANGED <<ledgerVars, callVars, origin, tableVars>>
  BY DEF Visit, TimedSave, Listen, FunnelInv, FunnelTypeOK
<1>2. faults' \in 0 .. MaxFault
  BY BreaksFacts DEF Visit, TimedSave, Listen, FunnelInv, FunnelTypeOK
<1>3. /\ mem \in Funnel /\ Exact(mem) /\ snapshot \in Funnel \cup {NoSnapshot}
      /\ snapshot # NoSnapshot => Exact(snapshot)
  BY DEF FunnelInv, FunnelTypeOK, RevenueIsExact
<1> QED  BY <1>1, <1>2, <1>3, ServerMoves

LEMMA StopKeeps ==
  ASSUME FunnelInv, Crash \/ Terminate
  PROVE  FunnelInv'
<1>1. Gone /\ snapshot' \in {snapshot, mem}
  BY DEF Crash, Terminate
<1>2. faults' \in 0 .. MaxFault
  <2>1. PICK S \in SUBSET {"save", "process"} : Breaks(S)
    BY DEF Crash, Terminate
  <2> QED  BY <2>1, BreaksFacts
<1> QED  BY <1>1, <1>2, GoneKeeps

LEMMA LedgerAloneKeeps ==
  ASSUME FunnelInv,
         \/ \E n \in Nonce : ChainUses(n)
         \/ \E k \in Key : Recover(k)
  PROVE  FunnelInv'
  BY LedgerOnly DEF ChainUses, Recover, LedgerNext

LEMMA FunnelInvNext == FunnelInv /\ [FunnelNext]_funnelVars => FunnelInv'
<1> SUFFICES ASSUME FunnelInv, [FunnelNext]_funnelVars PROVE FunnelInv'
  OBVIOUS
<1>1. CASE UNCHANGED funnelVars
  BY <1>1, LedgerOnly DEF funnelVars
<1>2. ASSUME NEW r \in Request,
             Challenge(r) \/ NativeChallenge(r) \/ Refuse(r) \/ NativeRefuse(r)
      PROVE  FunnelInv'
  <2>1. \E class \in Class \ {"SUCCESSFUL_PAID_EXECUTION"},
           status \in {200, 400, 402, 404, 502, 503} : AtOnce(r, class, status)
    BY <1>2 DEF Challenge, NativeChallenge, Refuse, NativeRefuse, RefusedAs,
                Refusal, Class
  <2> QED  BY <2>1, AtOnceKeeps
<1>3. ASSUME NEW r \in Request,
             ReturnResult(r) \/ NativeReturnResult(r)
      PROVE  FunnelInv'
  BY <1>3, AnswerWithKeeps DEF ReturnResult, NativeReturnResult
<1>4. ASSUME NEW r \in Request, Fail(r) \/ NativeFail(r)
      PROVE  FunnelInv'
  <2>1. \E status \in {200, 400, 402, 404, 502, 503} : FailWith(r, status)
    BY <1>4 DEF Fail, NativeFail
  <2> QED  BY <2>1, FailWithKeeps
<1>5. ASSUME NEW r \in Request,
             \/ Enter(r) \/ Verified(r) \/ Settled(r) \/ Reconciled(r)
             \/ Executed(r) \/ EventsUnreadable(r)
      PROVE  FunnelInv'
  BY <1>5, EnterKeeps, VerifiedKeeps, SettledKeeps, ReconciledKeeps,
     ExecutedKeeps, EventsUnreadableKeeps
<1> QED
  BY <1>1, <1>2, <1>3, <1>4, <1>5, BeginKeeps, StartKeeps, SaverKeeps,
     StopKeeps, LedgerAloneKeeps DEF FunnelNext, Step

(* Revenue is exact and the attempts table tells the truth, whatever       *)
(* requests come, and across crashes, lost snapshots and failed saves      *)
(* (ckConsumeDurableRevenueEvents, ckSavePersistentFunnelNow,              *)
(* ckFinalizePaymentAttempt).                                              *)
THEOREM FunnelSafe ==
  FunnelSpec => [](FunnelTypeOK /\ RevenueIsExact /\ RowsTellTruth)
<1>1. FunnelSpec => []FunnelInv
  BY FunnelInvInit, FunnelInvNext, PTL DEF FunnelSpec
<1>2. FunnelInv => FunnelTypeOK /\ RevenueIsExact /\ RowsTellTruth
  BY DEF FunnelInv
<1> QED  BY <1>1, <1>2, PTL

-----------------------------------------------------------------------------
(* The two parts together (MCServer).                                      *)

LEMMA ServerParts ==
  /\ ServerInit => FunnelInit /\ SessionInit
  /\ [ServerNext]_vars =>
       /\ [FunnelNext]_funnelVars
       /\ [SessionNext]_sessionVars
  BY DEF ServerInit, ServerNext, vars

(* What the run of the server checks: all variables have their types, the  *)
(* revenue is exact, the rows tell the truth and the sessions keep their   *)
(* principals.                                                             *)
THEOREM ServerSafe ==
  ServerSpec =>
    [](TypeOK /\ RevenueIsExact /\ RowsTellTruth /\ SessionsKeepPrincipals)
<1>1. ServerInit => FunnelInv /\ SessionInv
  BY ServerParts, FunnelInvInit, SessionInvInit
<1>2. FunnelInv /\ SessionInv /\ [ServerNext]_vars => FunnelInv' /\ SessionInv'
  BY ServerParts, FunnelInvNext, SessionInvNext
<1>3. FunnelInv /\ SessionInv =>
        TypeOK /\ RevenueIsExact /\ RowsTellTruth /\ SessionsKeepPrincipals
  BY SessionInvImplies DEF FunnelInv, TypeOK, SessionInv
<1> QED  BY <1>1, <1>2, <1>3, PTL DEF ServerSpec

=============================================================================
