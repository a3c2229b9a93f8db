--------------------------- MODULE RevenueFunnel ---------------------------
(***************************************************************************)
(* The paid routes of the server (server-runtime.mjs): the HTTP route      *)
(* /api/x402/:capability and the native MCP tools, the payment attempt     *)
(* each request opens, and the revenue funnel: counters in memory, one     *)
(* snapshot row and a table of attempts in SQLite.                         *)
(*                                                                         *)
(* The paid engine is taken as the ledger of purchases it implements       *)
(* (PurchaseLedger, refined by Gate1B): its file is durable, a revenue     *)
(* event exists for every fulfilled purchase, and one process serves one   *)
(* call at a time.  A handler runs to its next await without interleaving, *)
(* so each action is the code between two awaits.                          *)
(***************************************************************************)
EXTENDS PurchaseLedger, Naturals, Sequences, FiniteSets

CONSTANTS
  Request,      \* requests of a behaviour, by their generated correlation id
  Native,       \* those that are native MCP tool calls; the others are HTTP
  Mainnet,      \* the replay keys of Base mainnet
  NoSnapshot,   \* the funnel_snapshots table is empty
  MaxRows,      \* CK_PAYMENT_ATTEMPT_MAX_ROWS
  PruneEvery,   \* attempts written between two prunes (100 in the code)
  MaxFault      \* bound: crashes, stops, failed reads and failed writes

ASSUME FunnelAssumption ==
  /\ Native \subseteq Request /\ Mainnet \subseteq ReplayKey
  /\ Nothing \notin Request \cup ReplayKey \cup Answer
  /\ MaxRows \in Nat \ {0} /\ PruneEvery \in Nat \ {0} /\ MaxFault \in Nat

VARIABLES
  server,    \* "down", "starting" (module loaded, not listening) or "up"
  mem,       \* CK_FUNNEL, as far as revenue goes
  snapshot,  \* the snapshot row
  saveDue,   \* is ckFunnelSaveTimer set?
  pc,        \* pc[r]: where the handler of r is
  want,      \* want[r]: the key and the replay key r carries
  attempt,   \* attempt[r]: its payment attempt
  open,      \* the keys of CK_PAYMENT_ATTEMPTS
  outcome,   \* outcome[r]: how invoke ended
  reply,     \* reply[r]: the HTTP status, 0 while there is none
  origin,    \* origin[k]: the request whose telemetry id the file keeps
  rows,      \* the payment_attempts table, oldest first
  writes,    \* ckPaymentAttemptWrites
  faults     \* faults so far

serverVars == <<server, mem, snapshot, saveDue>>
callVars == <<pc, want, attempt, open, outcome, reply>>
tableVars == <<rows, writes>>
funnelVars ==
  <<ledgerVars, serverVars, callVars, origin, tableVars, faults>>

Stage == {"none", "attempted", "ok", "failed"}
Failure == {"VERIFICATION_FAILURE", "FACILITATOR_FAILURE",
            "SETTLEMENT_FAILURE", "RECEIPT_FAILURE"}
Refusal == {"MALFORMED_REQUEST", "INVALID_PAYMENT_PROOF",
            "INFRASTRUCTURE_FAILURE"}
Class == Failure \cup Refusal \cup
  {"EXPECTED_UNPAID_402", "SUCCESSFUL_PAID_EXECUTION",
   "REPLAY_OR_IDEMPOTENCY_CONFLICT", "UNEXPECTED_SERVER_EXCEPTION"}
(* A payment that is no payment, or not the one the route asks: the text   *)
(* of the error names the fault in words the route knows, or does not.     *)
Malformed == {"malformed", "disallowed"}
Error == Malformed \cup
  {"conflict", "replay", "busy", "refused", "unverified", "settle refused",
   "settle lost", "unresolved", "execution unknown", "unwritten",
   "unreadable"}
(* An answer that accepts, one that does not, or none that can be read.    *)
FacilitatorSays == {"yes", "no", "nothing"}

Wanted == [key : Key, replayKey : ReplayKey]
Attempt == [verification : Stage, settlement : Stage, receipt : Stage,
            failure : Failure \cup {"none"}]
Funnel == [consumed : SUBSET Key, counted : [Key -> Nat]]
Row == [request : Request, class : Class, settlement : Stage, receipt : Stage]

FunnelTypeOK ==
  /\ phase \in [Key -> {"none", "reserved", "paid", "fulfilled"}]
  /\ payment \in [Key -> ReplayKey \cup {Nothing}]
  /\ answer \in [Key -> Answer \cup {Nothing}]
  /\ used \subseteq Nonce
  /\ server \in {"down", "starting", "up"}
  /\ mem \in Funnel
  /\ snapshot \in Funnel \cup {NoSnapshot}
  /\ saveDue \in BOOLEAN
  /\ pc \in [Request -> {"new", "entering", "verify", "settle", "reconcile",
                         "execute", "ended", "done", "lost"}]
  /\ want \in [Request -> Wanted \cup {Nothing}]
  /\ attempt \in [Request -> Attempt]
  /\ open \subseteq Request
  /\ outcome \in [Request -> Error \cup {"none", "first", "duplicate"}]
  /\ reply \in [Request -> {0, 200, 400, 402, 404, 502, 503}]
  /\ origin \in [Key -> Request \cup {Nothing}]
  /\ rows \in Seq(Row)
  /\ writes \in 0 .. PruneEvery - 1
  /\ faults \in 0 .. MaxFault

Blank == [verification |-> "none", settlement |-> "none",
          receipt |-> "none", failure |-> "none"]
EmptyFunnel == [consumed |-> {}, counted |-> [k \in Key |-> 0]]

FunnelInit ==
  /\ LedgerInit
  /\ server = "down"
  /\ mem = EmptyFunnel
  /\ snapshot = NoSnapshot
  /\ saveDue = FALSE
  /\ pc = [r \in Request |-> "new"]
  /\ want = [r \in Request |-> Nothing]
  /\ attempt = [r \in Request |-> Blank]
  /\ open = {}
  /\ outcome = [r \in Request |-> "none"]
  /\ reply = [r \in Request |-> 0]
  /\ origin = [k \in Key |-> Nothing]
  /\ rows = <<>>
  /\ writes = 0
  /\ faults = 0

(* The parts of S break in this step.                                      *)
Breaks(S) ==
  /\ faults + Cardinality(S) <= MaxFault
  /\ faults' = faults + Cardinality(S)

-----------------------------------------------------------------------------
(* The funnel and its snapshot.                                            *)

(* revenueEvents(): one event per fulfilled purchase; only those on Base   *)
(* mainnet count.                                                          *)
Revenue == {k \in Key : phase[k] = "fulfilled" /\ payment[k] \in Mainnet}

Consume_NoCursor(f) ==
  [consumed |-> f.consumed \cup Revenue,
   counted |-> [k \in Key |-> IF k \in Revenue
                              THEN f.counted[k] + 1 ELSE f.counted[k]]]

(* ckConsumeDurableRevenueEvents: every event not consumed yet is added to *)
(* the counters and to the cursor.                                         *)
Consume(f) ==
  [consumed |-> f.consumed \cup Revenue,
   counted |-> [k \in Key |-> IF k \in Revenue \ f.consumed
                              THEN f.counted[k] + 1 ELSE f.counted[k]]]

(* It saves at once when something was new; a failing save is logged only. *)
SaveIfChanged(f, S) ==
  snapshot' = IF Consume(f) = f \/ "save" \in S THEN snapshot ELSE Consume(f)

(* ckSavePersistentFunnelNow, from the timer of 250 ms.                    *)
TimedSave ==
  /\ server # "down" /\ saveDue
  /\ saveDue' = FALSE
  /\ \E S \in SUBSET {"save"} :
       /\ Breaks(S)
       /\ snapshot' = IF "save" \in S THEN snapshot ELSE mem
  /\ UNCHANGED <<ledgerVars, server, mem, callVars, origin, tableVars>>

(* ckLoadPersistentFunnel: an error counts as no snapshot.                 *)
Loaded(S) ==
  IF snapshot = NoSnapshot \/ "load" \in S THEN EmptyFunnel ELSE snapshot

(* Loading the module: restore, then consume what the file has.            *)
Load(S) ==
  /\ mem' = Consume(Loaded(S))
  /\ SaveIfChanged(Loaded(S), S)

-----------------------------------------------------------------------------
(* Payment attempts.                                                       *)

(* ckObservePaymentLifecycle: an event for a request without an open       *)
(* attempt is dropped.                                                     *)
Note(a, r, stage, result, kind) ==
  IF r \notin open THEN a
  ELSE [a EXCEPT ![r][stage] = result,
                 ![r].failure = IF result = "failed" THEN kind ELSE @]

(* emitPaymentLifecycle: the engine goes on whatever becomes of the event. *)
Emit(r, stage, result, kind) == attempt' = Note(attempt, r, stage, result, kind)

Newest(table) ==
  SubSeq(table, IF Len(table) > MaxRows THEN Len(table) - MaxRows + 1 ELSE 1,
         Len(table))

Insert(r, class, S) ==
  IF "row" \in S THEN UNCHANGED tableVars
  ELSE LET all == Append(rows, [request |-> r, class |-> class,
                                settlement |-> attempt[r].settlement,
                                receipt |-> attempt[r].receipt])
       IN /\ writes' = (writes + 1) % PruneEvery
          /\ rows' = IF writes' = 0 THEN Newest(all) ELSE all

Finalize_LeavesOpen(r, class, status, S) ==
  /\ pc' = [pc EXCEPT ![r] = "done"]
  /\ open' = open
  /\ attempt' = [attempt EXCEPT ![r] = Blank]
  /\ reply' = [reply EXCEPT ![r] = status]
  /\ Insert(r, class, S)
  /\ saveDue' = TRUE

(* ckFinalizePaymentAttempt and the answer that follows it.                *)
Finalize(r, class, status, S) ==
  /\ pc' = [pc EXCEPT ![r] = "done"]
  /\ open' = open \ {r}
  /\ attempt' = [attempt EXCEPT ![r] = Blank]
  /\ reply' = [reply EXCEPT ![r] = status]
  /\ Insert(r, class, S)
  /\ saveDue' = TRUE

New(r) == server = "up" /\ pc[r] = "new"
AtOnce(r, class, status) ==
  /\ New(r)
  /\ \E S \in SUBSET {"row"} : Breaks(S) /\ Finalize(r, class, status, S)
  /\ UNCHANGED <<ledgerVars, server, mem, snapshot, want, outcome, origin>>

-----------------------------------------------------------------------------
(* Requests that end before the engine is called.                          *)

(* Any request but MCP discovery schedules a save when it is answered.     *)
Visit ==
  /\ server = "up" /\ ~saveDue
  /\ saveDue' = TRUE
  /\ UNCHANGED <<ledgerVars, server, mem, snapshot, callVars, origin,
                 tableVars, faults>>

(* A probe without payment is answered with the challenge.                 *)
Challenge(r) ==
  r \notin Native /\ AtOnce(r, "EXPECTED_UNPAID_402", 402)

NativeChallenge(r) ==
  r \in Native /\ AtOnce(r, "EXPECTED_UNPAID_402", 200)

RefusedAs == [MALFORMED_REQUEST |-> {400, 404},
              INVALID_PAYMENT_PROOF |-> {400},
              INFRASTRUCTURE_FAILURE |-> {503}]

(* Not configured, unknown capability, a bad key, input or envelope.       *)
Refuse(r) ==
  /\ r \notin Native
  /\ \E class \in Refusal : \E status \in RefusedAs[class] :
       AtOnce(r, class, status)

NativeRefuse(r) == r \in Native /\ AtOnce(r, "INVALID_PAYMENT_PROOF", 200)

(* A well-formed paid request opens its attempt and calls invoke.  The key *)
(* of a native call is computed from its session and input.                *)
Begin(r, k, n) ==
  /\ New(r)
  /\ open' = open \cup {r}
  /\ want' = [want EXCEPT ![r] = [key |-> k, replayKey |-> n]]
  /\ pc' = [pc EXCEPT ![r] = "entering"]
  /\ UNCHANGED <<ledgerVars, serverVars, attempt, outcome, reply, origin,
                 tableVars, faults>>

-----------------------------------------------------------------------------
(* invoke, seen from the route.                                            *)

KeyOf(r) == want[r].key
ReplayKeyFor(r) == want[r].replayKey
InEngine == {r \in Request : pc[r] \in {"verify", "settle", "reconcile", "execute"}}

Goto(r, at) == pc' = [pc EXCEPT ![r] = at] /\ UNCHANGED outcome
End(r, how) ==
  /\ pc' = [pc EXCEPT ![r] = "ended"]
  /\ outcome' = [outcome EXCEPT ![r] = how]

engineKeeps == <<serverVars, want, open, reply, tableVars>>

(* prepare, under the lock and before any record is looked at.             *)
Unprepared(r) == \E e \in Malformed : End(r, e)

(* The call reads the file and takes the branch of its record.             *)
Enter(r) ==
  LET k == KeyOf(r)  n == ReplayKeyFor(r)
      mine == payment[k] = n
      taken == \E j \in Key : payment[j] = n
  IN
  /\ pc[r] = "entering"
  /\ \/ InEngine # {} /\ End(r, "busy") /\ UNCHANGED attempt
     \/ InEngine = {} /\ Unprepared(r) /\ UNCHANGED attempt
     \/ /\ InEngine = {} /\ phase[k] = "none" /\ ~taken
        /\ Goto(r, "verify")
        /\ Emit(r, "verification", "attempted", "none")
     \/ /\ InEngine = {}
        /\ \/ phase[k] # "none" /\ ~mine /\ End(r, "conflict")
           \/ phase[k] = "none" /\ taken /\ End(r, "replay")
           \/ phase[k] = "reserved" /\ mine /\ Goto(r, "reconcile")
           \/ phase[k] = "paid" /\ mine /\ Goto(r, "execute")
           \/ phase[k] = "paid" /\ mine /\ End(r, "execution unknown")
           \/ phase[k] = "fulfilled" /\ mine /\ End(r, "duplicate")
        /\ UNCHANGED attempt
  /\ UNCHANGED <<ledgerVars, engineKeeps, origin, faults>>

(* The facilitator's answer to verify; on success the intent is durable    *)
(* and settlement is asked for.                                            *)
Verified(r) ==
  /\ pc[r] = "verify"
  /\ \E said \in FacilitatorSays :
       \/ /\ said = "yes"
          /\ Reserve(KeyOf(r), ReplayKeyFor(r))
          /\ origin' = [origin EXCEPT ![KeyOf(r)] = r]
          /\ attempt' = Note(Note(attempt, r, "verification", "ok", "none"),
                             r, "settlement", "attempted", "none")
          /\ Goto(r, "settle")
       \/ /\ said = "no" /\ End(r, "refused")
          /\ Emit(r, "verification", "failed", "VERIFICATION_FAILURE")
          /\ UNCHANGED <<ledgerVars, origin>>
       \/ /\ said = "nothing" /\ End(r, "unverified")
          /\ Emit(r, "verification", "failed", "FACILITATOR_FAILURE")
          /\ UNCHANGED <<ledgerVars, origin>>
  /\ UNCHANGED <<engineKeeps, faults>>

(* The chain uses an authorization the facilitator was given.              *)
ChainUses(n) ==
  /\ \E k \in Key : payment[k] # Nothing /\ NonceOf[payment[k]] = n
  /\ Use(n)
  /\ UNCHANGED <<serverVars, callVars, origin, tableVars, faults>>

(* Its answer to settle; only an acceptance says something of the chain.   *)
Settled(r) ==
  /\ pc[r] = "settle"
  /\ \E said \in FacilitatorSays :
       \/ /\ said = "yes" /\ Pay(KeyOf(r)) /\ Goto(r, "execute")
          /\ Emit(r, "settlement", "ok", "none")
       \/ /\ said = "no" /\ End(r, "settle refused")
          /\ Emit(r, "settlement", "failed", "SETTLEMENT_FAILURE")
          /\ UNCHANGED ledgerVars
       \/ /\ said = "nothing" /\ End(r, "settle lost")
          /\ Emit(r, "settlement", "failed", "FACILITATOR_FAILURE")
          /\ UNCHANGED ledgerVars
  /\ UNCHANGED <<engineKeeps, origin, faults>>

(* A retry of an interrupted purchase asks the chain, never the            *)
(* facilitator; absence is no proof, so any other answer ends the call.    *)
Reconciled(r) ==
  /\ pc[r] = "reconcile"
  /\ \/ ReplayKeyFor(r) \in Mainnet /\ Pay(KeyOf(r)) /\ Goto(r, "execute")
     \/ End(r, "unresolved") /\ UNCHANGED ledgerVars
  /\ UNCHANGED <<engineKeeps, attempt, origin, faults>>

(* The executor and the commit.  The finalization events carry the         *)
(* telemetry id of the durable context, the one of the first request.      *)
Executed(r) ==
  LET first == origin[KeyOf(r)] IN
  /\ pc[r] = "execute"
  /\ \/ /\ \E a \in Answer : Fulfil(KeyOf(r), a)
        /\ Emit(first, "receipt", "ok", "none")
        /\ End(r, "first")
     \/ /\ End(r, "unwritten")
        /\ Emit(first, "receipt", "failed", "RECEIPT_FAILURE")
        /\ UNCHANGED ledgerVars
     \/ /\ End(r, "execution unknown")
        /\ UNCHANGED <<ledgerVars, attempt>>
  /\ UNCHANGED <<engineKeeps, origin, faults>>

-----------------------------------------------------------------------------
(* The route after invoke.                                                 *)

AnswerWith(r, S, status) ==
  /\ pc[r] = "ended" /\ outcome[r] \in {"first", "duplicate"}
  /\ Breaks(S)
  /\ mem' = Consume(mem)
  /\ SaveIfChanged(mem, S)
  /\ Finalize(r, IF outcome[r] = "duplicate"
                 THEN "REPLAY_OR_IDEMPOTENCY_CONFLICT"
                 ELSE "SUCCESSFUL_PAID_EXECUTION", status, S)
  /\ UNCHANGED <<ledgerVars, server, want, outcome, origin>>

(* invoke returned: consume the events, close the attempt, answer.         *)
ReturnResult(r) ==
  r \notin Native /\ \E S \in SUBSET {"save", "row"} : AnswerWith(r, S, 200)

NativeReturnResult(r) ==
  r \in Native /\ \E S \in SUBSET {"save", "row"} : AnswerWith(r, S, 200)

(* The file cannot be read to consume its events: the call fails although  *)
(* the purchase is fulfilled.                                              *)
EventsUnreadable(r) ==
  /\ pc[r] = "ended" /\ outcome[r] \in {"first", "duplicate"}
  /\ Breaks({"read"})
  /\ End(r, "unreadable")
  /\ UNCHANGED <<ledgerVars, serverVars, want, attempt, open, reply, origin,
                 tableVars>>

ClassOf_Raw(e) == e

(* The classification the handler derives from the text of the error, when *)
(* no lifecycle event gave a kind.                                         *)
ClassOf(e) ==
  CASE e \in {"conflict", "replay"} -> "REPLAY_OR_IDEMPOTENCY_CONFLICT"
    [] e = "malformed" -> "INVALID_PAYMENT_PROOF"
    [] e \in {"refused", "unverified"} -> "VERIFICATION_FAILURE"
    [] e \in {"settle refused", "settle lost", "unresolved", "execution unknown"}
         -> "SETTLEMENT_FAILURE"
    [] e \in {"disallowed", "busy", "unwritten", "unreadable"}
         -> "UNEXPECTED_SERVER_EXCEPTION"

FailWith(r, status) ==
  /\ pc[r] = "ended" /\ outcome[r] \in Error
  /\ \E S \in SUBSET {"row"} :
       /\ Breaks(S)
       /\ Finalize(r, IF attempt[r].failure # "none" THEN attempt[r].failure
                      ELSE ClassOf(outcome[r]), status, S)
  /\ UNCHANGED <<ledgerVars, server, mem, snapshot, want, outcome, origin>>

(* The texts that read as the client's fault: the error of a settlement    *)
(* without answer says "reconciliation required", and that of an           *)
(* unreadable facilitator answer "invalid JSON".                           *)
ClientFault == {"conflict", "replay", "settle lost"}

Fail(r) ==
  /\ r \notin Native
  /\ \E status \in {400, 502} :
       /\ outcome[r] \in ClientFault => status = 400
       /\ outcome[r] \notin ClientFault \cup Malformed \cup {"unverified"}
            => status = 502
       /\ FailWith(r, status)

NativeFail(r) == r \in Native /\ FailWith(r, 200)

-----------------------------------------------------------------------------
(* The process.                                                            *)

(* What a stop takes away: memory, timers, handlers.                       *)
Gone ==
  /\ server' = "down"
  /\ mem' = EmptyFunnel
  /\ saveDue' = FALSE
  /\ open' = {}
  /\ attempt' = [r \in Request |-> Blank]
  /\ writes' = 0
  /\ pc' = [r \in Request |->
              IF pc[r] \in {"new", "done"} THEN pc[r] ELSE "lost"]
  /\ UNCHANGED <<ledgerVars, want, outcome, reply, origin, rows>>

Crash ==
  /\ server # "down"
  /\ Breaks({"process"})
  /\ Gone
  /\ UNCHANGED snapshot

(* SIGTERM or SIGINT: one last save, then exit.                            *)
Terminate ==
  /\ server # "down"
  /\ \E S \in SUBSET {"save"} :
       /\ Breaks(S \cup {"process"})
       /\ snapshot' = IF "save" \in S THEN snapshot ELSE mem
  /\ Gone

Start ==
  /\ server = "down"
  /\ \E S \in SUBSET {"load", "save"} : Breaks(S) /\ Load(S)
  /\ server' = "starting"
  /\ UNCHANGED <<ledgerVars, saveDue, callVars, origin, tableVars>>

(* Startup recovery finalizes what was staged, after the events were       *)
(* consumed; its lifecycle events find no attempt.  Every other operation  *)
(* is only reported.                                                       *)
Recover(k) ==
  /\ server = "starting"
  /\ \E a \in Answer : Fulfil(k, a)
  /\ UNCHANGED <<serverVars, callVars, origin, tableVars, faults>>

Listen ==
  /\ server = "starting"
  /\ server' = "up"
  /\ UNCHANGED <<ledgerVars, mem, snapshot, saveDue, callVars, origin,
                 tableVars, faults>>

Step(r) ==
  \/ Enter(r) \/ Verified(r) \/ Settled(r) \/ Reconciled(r) \/ Executed(r)
  \/ ReturnResult(r) \/ NativeReturnResult(r) \/ EventsUnreadable(r)
  \/ Fail(r) \/ NativeFail(r)

FunnelNext ==
  \/ \E r \in Request :
       \/ Challenge(r) \/ NativeChallenge(r) \/ Refuse(r) \/ NativeRefuse(r)
       \/ \E k \in Key, n \in ReplayKey : Begin(r, k, n)
       \/ Step(r)
  \/ \E n \in Nonce : ChainUses(n)
  \/ \E k \in Key : Recover(k)
  \/ Visit \/ TimedSave \/ Crash \/ Terminate \/ Start \/ Listen

FunnelSpec == FunnelInit /\ [][FunnelNext]_funnelVars

-----------------------------------------------------------------------------
(* Revenue is exact.  The counters and the cursor, in memory and in the    *)
(* snapshot, agree: what was counted was a fulfilled mainnet purchase and  *)
(* was counted once, across crashes, lost snapshots and failed saves; and  *)
(* a live server has counted every purchase a buyer got the result of.     *)
Exact(f) ==
  /\ f.consumed \subseteq Revenue
  /\ \A k \in Key : f.counted[k] = IF k \in f.consumed THEN 1 ELSE 0

RevenueIsExact ==
  /\ Exact(mem)
  /\ snapshot # NoSnapshot => Exact(snapshot)
  /\ server # "down" =>
       \A r \in Request :
         /\ reply[r] = 200 /\ outcome[r] \in {"first", "duplicate"}
         /\ KeyOf(r) \in Revenue
         => KeyOf(r) \in mem.consumed

(* The attempts table tells the truth: an attempt is in the map exactly    *)
(* while its request is in progress and has at most one row; a row that    *)
(* says settled or successful is about a used authorization or a           *)
(* fulfilled purchase; and no purchase has two successful executions.      *)
RowsTellTruth ==
  /\ open = {r \in Request : pc[r] \notin {"new", "done", "lost"}}
  /\ \A i, j \in DOMAIN rows : rows[i].request = rows[j].request => i = j
  /\ \A i \in DOMAIN rows :
       LET row == rows[i] IN
       /\ pc[row.request] = "done"
       /\ row.settlement = "ok" => NonceOf[ReplayKeyFor(row.request)] \in used
       /\ row.class = "SUCCESSFUL_PAID_EXECUTION" =>
            /\ phase[KeyOf(row.request)] = "fulfilled"
            /\ NonceOf[ReplayKeyFor(row.request)] \in used
  /\ \A r, q \in Request :
       outcome[r] = "first" /\ outcome[q] = "first" /\ KeyOf(r) = KeyOf(q)
         => r = q

(* What the failure table of docs/COMMERCE_FLOW.md promises: a purchase    *)
(* whose settlement outcome is unknown is to be reconciled, so a buyer     *)
(* whose authorization was used, and who sent what the route asks, is not  *)
(* told that the payment is invalid.                                       *)
UnknownIsNotInvalid ==
  \A r \in Request :
    reply[r] = 400 /\ outcome[r] \in Error \ ({"conflict", "replay"} \cup Malformed)
      => NonceOf[ReplayKeyFor(r)] \notin used

=============================================================================
