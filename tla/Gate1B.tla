------------------------------- MODULE Gate1B -------------------------------
(***************************************************************************)
(* The paid-operation engine of lib/gate1b-production-adapter.mjs as       *)
(* lib/machine-commerce.mjs instantiates it: invoke,                       *)
(* finalizeRecoveredOperation and recoverExecutionOutcome, run by several  *)
(* server processes over one durable JSON file, with crashes of a process  *)
(* at any point, lost settlement answers, and late or third-party use of a *)
(* payment authorization on chain.                                         *)
(*                                                                         *)
(* A step of a process is what the code does between two awaits (or        *)
(* between two durable writes, because a crash may fall between them).     *)
(*                                                                         *)
(* Definitions whose name ends in a phrase after an underscore             *)
(* (StartVerify_NoReplayCheck) are faulty variants of the definition that  *)
(* follows: no behaviour uses them; each shows that a property can fail.   *)
(*                                                                         *)
(* Abstractions of data: request and payment hashes are a pair of an       *)
(* input and a signed payment.  The replay key of a payment is its nonce   *)
(* as the buyer spelled it; the chain reads the nonce.  So two payments    *)
(* may have one replay key, and two replay keys may be one authorization,  *)
(* spelled with other letters of hexadecimal digits in capitals.  A UUID   *)
(* is a number drawn from a counter.  The result of an execution is its    *)
(* ordinal among the executions of that key, so a second execution gives   *)
(* another result.  Timestamps, signatures and telemetry are left out.     *)
(***************************************************************************)
EXTENDS ProcessLock, Naturals

CONSTANTS
  Key,              \* idempotency keys
  Input,            \* (capability, input) pairs a buyer may request
  Payment,          \* signed payment payloads
  ReplayKey,        \* replay keys, nonces as they are spelled
  ReplayKeyOf,      \* ReplayKeyOf[pay]: the one of a payload
  Nonce,            \* authorization nonces, as the chain reads them
  NonceOf,          \* NonceOf[key]: the one that a replay key spells
  MainnetPayment,   \* payments on eip155:8453, the only reconcilable ones
  LegacyKey,        \* keys whose record may predate the gate1b journal
  RecoverFrom,      \* durable states in which an operator asks a witness
  NoRequest,        \* stands for the hashes of a missing record
  NoCall,           \* a process without an operation
  MaxUuid,          \* bound: UUIDs drawn (purchases and claims)
  MaxExec,          \* bound: executions of one key
  MaxGen,           \* bound: generation up to which a witness confirms
  MaxCrash          \* bound: deaths of processes and of guardians

Request == [input : Input, pay : Payment]

(* States of a journalled purchase, "absent" for a key without a record    *)
(* and "legacy" for a record without gate1b data.                          *)
TxState == {"absent", "legacy", "settlement_unknown", "unresolved",
            "pending_fulfillment", "claimed", "executing",
            "execution_unknown", "finalization_pending", "fulfilled"}

ASSUME Gate1BAssumption ==
  /\ ReplayKeyOf \in [Payment -> ReplayKey]
  /\ NonceOf \in [ReplayKey -> Nonce]
  /\ MainnetPayment \subseteq Payment
  /\ LegacyKey \subseteq Key
  /\ RecoverFrom \subseteq TxState
  /\ NoRequest \notin Request \cup ReplayKey \cup (1 .. MaxExec)
  /\ MaxGen \in Nat
  /\ MaxUuid \in Nat /\ MaxExec \in Nat \ {0} /\ MaxCrash \in Nat

Label == {"idle", "waiting", "begin", "verifying", "intent", "settling",
          "reconciling", "paid", "claimed", "executing", "known",
          "finalizing", "witness", "revalidating", "resuming", "done"}

Call == [op : {"invoke"}, key : Key, req : Request]
          \cup [op : {"finalize", "recover"}, key : Key, req : {NoRequest}]

Id == 0 .. MaxUuid             \* 0: not drawn yet
Result == 0 .. MaxExec         \* 0: no result

Record == [state : TxState, req : Request \cup {NoRequest}, gen : Nat,
           anchored : BOOLEAN, id : Id, owner : Id, settled : BOOLEAN,
           result : Result, response : Result]

(* The machine_commerce JSON file.                                         *)
File == [rec : [Key -> Record],          \* idempotency
         replay : SUBSET ReplayKey,          \* replayKeys, reserved or spent
         spent : SUBSET ReplayKey,           \* replayKeys with a transaction
         entitlements : SUBSET Id,
         receipts : [Id -> Result],
         revenue : SUBSET Id]            \* revenueEvents, by receipt id

EmptyRecord ==
  [state |-> "absent", req |-> NoRequest, gen |-> 0, anchored |-> FALSE,
   id |-> 0, owner |-> 0, settled |-> FALSE, result |-> 0, response |-> 0]

EmptyFile ==
  [rec |-> [k \in Key |-> EmptyRecord], replay |-> {}, spent |-> {},
   entitlements |-> {}, receipts |-> [i \in Id |-> 0], revenue |-> {}]

VARIABLES
  disk,      \* the durable file
  mem,       \* mem[p]: the copy of the file p works on under the lock
  pc,        \* pc[p]: where p's operation is
  call,      \* call[p]: its arguments
  result,    \* result[p]: the execution result it holds, or its reply
  uuid,      \* UUIDs drawn so far
  crashes,   \* deaths so far
  used,      \* nonces with an AuthorizationUsed event on chain
  settles,   \* settles[n]: settle calls made with replay key n
  effects,   \* effects[k]: executions of k that took effect
  replies    \* replies[k]: the <<request, result>> answers given for k

procVars == <<mem, pc, call, result>>
worldVars == <<used, settles, effects, replies>>
vars == <<guardian, owned, disk, mem, pc, call, result, uuid, crashes,
          used, settles, effects, replies>>

TypeOK ==
  /\ LockTypeOK
  /\ disk \in File
  /\ mem \in [Proc -> File]
  /\ pc \in [Proc -> Label]
  /\ call \in [Proc -> Call \cup {NoCall}]
  /\ \A p \in Proc : pc[p] # "idle" => call[p] \in Call
  /\ result \in [Proc -> Result]
  /\ uuid \in Id
  /\ crashes \in 0 .. MaxCrash
  /\ used \subseteq Nonce
  /\ settles \in [ReplayKey -> Nat]
  /\ effects \in [Key -> 0 .. MaxExec]
  /\ replies \in [Key -> SUBSET (Request \X Result)]

-----------------------------------------------------------------------------
(* Records an earlier release left: finished (with a response) or not.     *)
LegacyRecord(req, response) ==
  [EmptyRecord EXCEPT !.state = "legacy", !.req = req, !.response = response]

Init ==
  /\ LockInit
  /\ \E Old \in SUBSET LegacyKey : \E old \in [Old -> Request \X {0, 1}] :
       disk = [EmptyFile EXCEPT
                 !.rec = [k \in Key |-> IF k \in Old
                            THEN LegacyRecord(old[k][1], old[k][2])
                            ELSE EmptyRecord],
                 !.replay = {ReplayKeyOf[old[k][1].pay] : k \in Old}]
  /\ mem = [p \in Proc |-> EmptyFile]
  /\ pc = [p \in Proc |-> "idle"]
  /\ call = [p \in Proc |-> NoCall]
  /\ result = [p \in Proc |-> 0]
  /\ uuid = 0
  /\ crashes = 0
  /\ used = {}
  /\ settles = [n \in ReplayKey |-> 0]
  /\ effects = [k \in Key |-> 0]
  /\ replies = [k \in Key |-> {}]

-----------------------------------------------------------------------------
(* Shorthands for the operation of process p.                              *)
KeyOf(p) == call[p].key
Tx(p) == mem[p].rec[KeyOf(p)]
ReplayKeyFor(p) == ReplayKeyOf[Tx(p).req.pay]
PaidFor(p) == NonceOf[ReplayKeyFor(p)] \in used
WithTx(p, r) == [mem[p] EXCEPT !.rec[KeyOf(p)] = r]

Goto(p, label) == pc' = [pc EXCEPT ![p] = label]

(* The operation goes on without touching anything.                        *)
Advance(p, label) ==
  /\ Goto(p, label)
  /\ UNCHANGED <<lockVars, disk, mem, call, result, uuid, crashes, worldVars>>

(* The operation settles: r is its answer, 0 for an error or a report.     *)
Finish(p, r) ==
  /\ Goto(p, "done")
  /\ result' = [result EXCEPT ![p] = r]
  /\ UNCHANGED <<lockVars, disk, mem, call, uuid, crashes, worldVars>>

Persist_Lost(p, f, label, r) ==
  /\ AssertOwned(p)
  /\ mem' = [mem EXCEPT ![p] = f]
  /\ Goto(p, label)
  /\ result' = [result EXCEPT ![p] = r]
  /\ disk' \in {disk, f}

(* assertOwned(); durableWrite(dataFile, state).  The write replaces the   *)
(* whole file atomically (temporary file, fsync, rename).  Without         *)
(* ownership the operation throws and writes nothing.                      *)
Persist(p, f, label, r) ==
  \/ /\ AssertOwned(p)
     /\ disk' = f
     /\ mem' = [mem EXCEPT ![p] = f]
     /\ Goto(p, label)
     /\ result' = [result EXCEPT ![p] = r]
  \/ /\ ~AssertOwned(p)
     /\ Goto(p, "done")
     /\ result' = [result EXCEPT ![p] = 0]
     /\ UNCHANGED <<disk, mem>>

(* A step that does nothing but persist.                                   *)
Save(p, f, label, r) ==
  /\ Persist(p, f, label, r)
  /\ UNCHANGED <<lockVars, call, uuid, crashes, worldVars>>

-----------------------------------------------------------------------------
(* Starting and ending an operation.                                       *)

Return_KeepsLock(p) ==
  /\ pc[p] = "done"
  /\ Advance(p, "done")

(* An operator asks a witness only for a state it saw, without the lock,   *)
(* in the file; everything else can be called at any time.                 *)
StartCall(p, c) ==
  /\ pc[p] = "idle"
  /\ c.op = "recover" => disk.rec[c.key].state \in RecoverFrom
  /\ Enqueue(p)
  /\ Goto(p, "waiting")
  /\ call' = [call EXCEPT ![p] = c]
  /\ UNCHANGED <<disk, mem, result, uuid, crashes, worldVars>>

LockWaitFails(p) ==
  /\ pc[p] = "waiting"
  /\ GiveUp(p)
  /\ Goto(p, "idle")
  /\ call' = [call EXCEPT ![p] = NoCall]
  /\ UNCHANGED <<disk, mem, result, uuid, crashes, worldVars>>

(* The operation starts under the lock with one read of the file.          *)
Enter(p) ==
  /\ pc[p] = "waiting"
  /\ Grant(p)
  /\ mem' = [mem EXCEPT ![p] = disk]
  /\ Goto(p, "begin")
  /\ UNCHANGED <<disk, call, result, uuid, crashes, worldVars>>

(* The lock is released before the caller sees the answer.                 *)
Return(p) ==
  /\ pc[p] = "done"
  /\ Release(p)
  /\ Goto(p, "idle")
  /\ replies' = [replies EXCEPT ![KeyOf(p)] =
       IF call[p].op = "invoke" /\ result[p] # 0
       THEN @ \cup {<<call[p].req, result[p]>>} ELSE @]
  /\ call' = [call EXCEPT ![p] = NoCall]
  /\ mem' = [mem EXCEPT ![p] = EmptyFile]
  /\ result' = [result EXCEPT ![p] = 0]
  /\ UNCHANGED <<disk, uuid, crashes, used, settles, effects>>

(* The process dies wherever it is; a supervisor restarts it.              *)
Crash(p) ==
  /\ pc[p] # "idle"
  /\ crashes < MaxCrash
  /\ Release(p)
  /\ Goto(p, "idle")
  /\ call' = [call EXCEPT ![p] = NoCall]
  /\ mem' = [mem EXCEPT ![p] = EmptyFile]
  /\ result' = [result EXCEPT ![p] = 0]
  /\ crashes' = crashes + 1
  /\ UNCHANGED <<disk, uuid, worldVars>>

-----------------------------------------------------------------------------
(* invoke                                                                  *)

Invoking(p) == pc[p] = "begin" /\ call[p].op = "invoke"

(* A record of the same request and payment exists and has no response.    *)
Retrying(p, states) ==
  /\ Invoking(p)
  /\ Tx(p).req = call[p].req
  /\ Tx(p).response = 0
  /\ Tx(p).state \in states

(* Idempotency key conflict; a legacy purchase without response; replay.   *)
RejectInvoke(p) ==
  /\ Invoking(p)
  /\ \/ Tx(p).state # "absent" /\ Tx(p).req # call[p].req
     \/ Retrying(p, {"legacy"})
     \/ Tx(p).state = "absent" /\ ReplayKeyOf[call[p].req.pay] \in mem[p].replay
  /\ Finish(p, 0)

(* {...record.response, duplicate: true}                                   *)
ReturnDuplicate(p) ==
  /\ Invoking(p)
  /\ Tx(p).state # "absent"
  /\ Tx(p).req = call[p].req
  /\ Tx(p).response # 0
  /\ Finish(p, Tx(p).response)

StartVerify_NoReplayCheck(p) ==
  /\ Invoking(p)
  /\ Tx(p).state = "absent"
  /\ Advance(p, "verifying")

StartVerify(p) ==
  /\ Invoking(p)
  /\ Tx(p).state = "absent"
  /\ ReplayKeyOf[call[p].req.pay] \notin mem[p].replay
  /\ Advance(p, "verifying")

(* The facilitator rejects the payment or cannot be reached.               *)
VerifyFails(p) ==
  /\ pc[p] = "verifying"
  /\ Finish(p, 0)

(* What the reconciliation anchor, a chain head read before verification,  *)
(* may turn out to cover: an authorization not used by now is newer, one   *)
(* already used may be older.                                              *)
AnchorCovers(pay) ==
  IF NonceOf[ReplayKeyOf[pay]] \in used THEN BOOLEAN ELSE {TRUE}

Reserved(p, covered) ==
  LET n == ReplayKeyOf[call[p].req.pay]
      intent == [EmptyRecord EXCEPT
        !.state = "settlement_unknown", !.req = call[p].req, !.gen = 1,
        !.id = uuid + 1, !.anchored = covered]
  IN  [WithTx(p, intent) EXCEPT !.replay = @ \cup {n}]

RecordIntent_InMemory(p) ==
  /\ pc[p] = "verifying"
  /\ uuid < MaxUuid
  /\ uuid' = uuid + 1
  /\ mem' = [mem EXCEPT ![p] = Reserved(p, TRUE)]
  /\ Goto(p, "intent")
  /\ UNCHANGED <<lockVars, disk, call, result, crashes, worldVars>>

(* Verified: the intent and the reserved replay key become durable.        *)
RecordIntent(p) ==
  /\ pc[p] = "verifying"
  /\ uuid < MaxUuid
  /\ uuid' = uuid + 1
  /\ \E covered \in AnchorCovers(call[p].req.pay) :
       Persist(p, Reserved(p, covered), "intent", 0)
  /\ UNCHANGED <<lockVars, call, crashes, worldVars>>

(* The barrier passed and ownership still holds: the one call of settle.   *)
CallSettle(p) ==
  /\ pc[p] = "intent"
  /\ \/ /\ AssertOwned(p)
        /\ settles' = [settles EXCEPT ![ReplayKeyFor(p)] = @ + 1]
        /\ Goto(p, "settling")
     \/ /\ ~AssertOwned(p)
        /\ Goto(p, "done")
        /\ UNCHANGED settles
  /\ UNCHANGED <<lockVars, disk, mem, call, result, uuid, crashes,
                 used, effects, replies>>

Settled_WrongState(r) == [r EXCEPT !.settled = TRUE, !.state = "pending"]

Settled(r) == [r EXCEPT !.settled = TRUE, !.state = "pending_fulfillment",
                        !.gen = @ + 1]

(* The facilitator reports success with the transaction.                   *)
SettleSucceeds(p) ==
  /\ pc[p] = "settling"
  /\ PaidFor(p)
  /\ Save(p, WithTx(p, Settled(Tx(p))), "paid", 0)

SettleUnknown_Proceeds(p) ==
  /\ pc[p] = "settling"
  /\ Save(p, WithTx(p, Settled(Tx(p))), "paid", 0)

(* It reports failure, throws or times out, whatever happened on chain.    *)
SettleUnknown(p) ==
  /\ pc[p] = "settling"
  /\ Save(p, mem[p], "done", 0)

StartReconcile_SettlesAgain(p) ==
  /\ Retrying(p, {"settlement_unknown", "unresolved"})
  /\ Advance(p, "intent")

StartReconcile(p) ==
  /\ Retrying(p, {"settlement_unknown", "unresolved"})
  /\ Advance(p, "reconciling")

ReconcileSettled_Trusting(p) ==
  /\ pc[p] = "reconciling"
  /\ Save(p, WithTx(p, Settled(Tx(p))), "paid", 0)

ReconcileSettled_NotPersisted(p) ==
  /\ pc[p] = "reconciling"
  /\ PaidFor(p)
  /\ Finish(p, 0)

(* reconcileProduction finds the one AuthorizationUsed event at or after   *)
(* the anchor and verifies its transfer.                                   *)
ReconcileSettled(p) ==
  /\ pc[p] = "reconciling"
  /\ PaidFor(p)
  /\ Tx(p).anchored
  /\ Tx(p).req.pay \in MainnetPayment
  /\ Save(p, WithTx(p, Settled(Tx(p))), "paid", 0)

(* Absence, an unreachable authority and every mismatch are unknown.       *)
ReconcileUnknown(p) ==
  /\ pc[p] = "reconciling"
  /\ Save(p, WithTx(p, [Tx(p) EXCEPT !.state = "unresolved"]), "done", 0)

ReportExecutionUnknown_RunsAgain(p) ==
  /\ Retrying(p, {"executing", "execution_unknown"})
  /\ Advance(p, "paid")

(* The owner died during or after execution: the outcome is not known.     *)
ReportExecutionUnknown(p) ==
  /\ Retrying(p, {"executing", "execution_unknown"})
  /\ Save(p, WithTx(p, [Tx(p) EXCEPT !.state = "execution_unknown"]),
          "done", 0)

(* Every other state without response falls through to a new claim, also   *)
(* finalization_pending, whose result is already durable.                  *)
ResumePaid(p) ==
  /\ Retrying(p, {"pending_fulfillment", "claimed", "finalization_pending"})
  /\ Advance(p, "paid")

Claim(p) ==
  /\ pc[p] = "paid"
  /\ uuid < MaxUuid
  /\ uuid' = uuid + 1
  /\ Persist(p, WithTx(p, [Tx(p) EXCEPT !.state = "claimed",
                             !.owner = uuid + 1, !.gen = @ + 1]),
             "claimed", 0)
  /\ UNCHANGED <<lockVars, call, crashes, worldVars>>

StartExecution(p) ==
  /\ pc[p] = "claimed"
  /\ Save(p, WithTx(p, [Tx(p) EXCEPT !.state = "executing"]),
          "executing", 0)

(* The effect of the running executor happens; it returns or dies later.   *)
Effect(p) ==
  /\ pc[p] \in {"executing", "resuming"}
  /\ result[p] = 0
  /\ effects[KeyOf(p)] < MaxExec
  /\ effects' = [effects EXCEPT ![KeyOf(p)] = @ + 1]
  /\ result' = [result EXCEPT ![p] = effects[KeyOf(p)] + 1]
  /\ UNCHANGED <<lockVars, disk, mem, pc, call, uuid, crashes,
                 used, settles, replies>>

Known(r, res) == [r EXCEPT !.result = res, !.state = "finalization_pending",
                           !.gen = @ + 1]

(* The durable-knowledge boundary: the result is staged before anything    *)
(* is finalized.                                                           *)
ExecuteReturns(p) ==
  /\ pc[p] = "executing"
  /\ result[p] # 0
  /\ Save(p, WithTx(p, Known(Tx(p), result[p])), "known", result[p])

(* The executor failed, before or after its effect.                        *)
ExecuteThrows(p) ==
  /\ pc[p] = "executing"
  /\ Save(p, WithTx(p, [Tx(p) EXCEPT !.state = "execution_unknown"]),
          "done", 0)

(* finalize() needs the settlement transaction; then the file is read      *)
(* again and the claim must still be ours.                                 *)
Reread(p) ==
  /\ pc[p] = "known"
  /\ \/ /\ AssertOwned(p)
        /\ Tx(p).settled
        /\ disk.rec[KeyOf(p)].owner = Tx(p).owner
        /\ mem' = [mem EXCEPT ![p] = disk]
        /\ Goto(p, "finalizing")
        /\ UNCHANGED result
     \/ /\ \/ ~AssertOwned(p)
           \/ ~Tx(p).settled
           \/ disk.rec[KeyOf(p)].owner # Tx(p).owner
        /\ Goto(p, "done")
        /\ result' = [result EXCEPT ![p] = 0]
        /\ UNCHANGED mem
  /\ UNCHANGED <<lockVars, disk, call, uuid, crashes, worldVars>>

Answered(r, res) == [r EXCEPT !.state = "fulfilled", !.response = res,
                              !.gen = @ + 1]

Fulfilled_NoRevenueEvent(f, k, res) ==
  [f EXCEPT !.rec[k] = Answered(@, res),
            !.replay = @ \cup {ReplayKeyOf[f.rec[k].req.pay]},
            !.spent = @ \cup {ReplayKeyOf[f.rec[k].req.pay]},
            !.entitlements = @ \cup {f.rec[k].id},
            !.receipts[f.rec[k].id] = res]

(* Entitlement, receipt, response, spent replay key and revenue event in   *)
(* one write.                                                              *)
Fulfilled(f, k, res) ==
  [f EXCEPT !.rec[k] = Answered(@, res),
            !.replay = @ \cup {ReplayKeyOf[f.rec[k].req.pay]},
            !.spent = @ \cup {ReplayKeyOf[f.rec[k].req.pay]},
            !.entitlements = @ \cup {f.rec[k].id},
            !.receipts[f.rec[k].id] = res,
            !.revenue = @ \cup {f.rec[k].id}]

CommitFulfilment(p) ==
  /\ pc[p] = "finalizing"
  /\ Tx(p).id \notin mem[p].revenue
  /\ Save(p, Fulfilled(mem[p], KeyOf(p), result[p]), "done", result[p])

(* "Revenue event already exists before finalization"                      *)
CommitRefused(p) ==
  /\ pc[p] = "finalizing"
  /\ Tx(p).id \in mem[p].revenue
  /\ Finish(p, 0)

-----------------------------------------------------------------------------
(* finalizeRecoveredOperation                                              *)

Eligible(p) ==
  /\ Tx(p).response = 0
  /\ Tx(p).state = "finalization_pending"
  /\ Tx(p).result # 0

(* NOT_FOUND, ALREADY_TERMINAL, NOT_ELIGIBLE; or finalize() throws because *)
(* the record has no settlement.                                           *)
FinalizeSkips(p) ==
  /\ pc[p] = "begin"
  /\ call[p].op = "finalize"
  /\ ~Eligible(p) \/ ~Tx(p).settled
  /\ Finish(p, 0)

(* commitFinalization keeps what is there (??=) and adds what is missing.  *)
FinalizeRecovered(p) ==
  /\ pc[p] = "begin"
  /\ call[p].op = "finalize"
  /\ Eligible(p)
  /\ Tx(p).settled
  /\ LET f == Fulfilled(mem[p], KeyOf(p), Tx(p).result)
         kept == mem[p].receipts[Tx(p).id]
     IN  Save(p, [f EXCEPT !.receipts[Tx(p).id] = IF kept = 0 THEN @ ELSE kept],
              "done", Tx(p).result)

-----------------------------------------------------------------------------
(* recoverExecutionOutcome                                                 *)

Recovering(p) == pc[p] = "begin" /\ call[p].op = "recover"

RecoverSkips(p) ==
  /\ Recovering(p)
  /\ Tx(p).state \in {"absent", "legacy", "fulfilled"} \/ Tx(p).response # 0
  /\ Finish(p, 0)

AskWitness(p) ==
  /\ Recovering(p)
  /\ Tx(p).state \notin {"absent", "legacy", "fulfilled"}
  /\ Tx(p).response = 0
  /\ Advance(p, "witness")

WitnessUnknown(p) ==
  /\ pc[p] = "witness"
  /\ Save(p, WithTx(p, [Tx(p) EXCEPT !.state = "execution_unknown"]),
          "done", 0)

WitnessConfirmed_NoEvidence(p) ==
  /\ pc[p] = "witness"
  /\ Save(p, WithTx(p, Known(Tx(p), 1)), "done", 0)

(* The witness shows the result of an execution that took effect.          *)
WitnessConfirmed(p) ==
  /\ pc[p] = "witness"
  /\ Tx(p).gen < MaxGen
  /\ \E res \in 1 .. effects[KeyOf(p)] :
       Save(p, WithTx(p, Known(Tx(p), res)), "done", 0)

(* It confirms the effect but carries no result, the answer is no witness  *)
(* outcome, or the witness throws.                                         *)
WitnessUseless(p) ==
  /\ pc[p] = "witness"
  /\ Finish(p, 0)

(* A witness is an authority: it reports no effect only when none was.     *)
WitnessNotObserved(p) ==
  /\ pc[p] = "witness"
  /\ effects[KeyOf(p)] = 0
  /\ Advance(p, "revalidating")

(* revalidateRecovery: the payment no longer verifies.                     *)
RevalidateFails(p) ==
  /\ pc[p] = "revalidating"
  /\ Finish(p, 0)

(* It verifies; the reconciliation anchor in memory moves to today's head. *)
Revalidate(p) ==
  /\ pc[p] = "revalidating"
  /\ \E covered \in AnchorCovers(Tx(p).req.pay) :
       mem' = [mem EXCEPT ![p] =
                 WithTx(p, [Tx(p) EXCEPT !.anchored = covered])]
  /\ Goto(p, "resuming")
  /\ UNCHANGED <<lockVars, disk, call, result, uuid, crashes, worldVars>>

(* The executor ran without a durable "executing" mark.                    *)
ResumeReturns(p) ==
  /\ pc[p] = "resuming"
  /\ result[p] # 0
  /\ Save(p, WithTx(p, Known(Tx(p), result[p])), "done", 0)

ResumeThrows(p) ==
  /\ pc[p] = "resuming"
  /\ Finish(p, 0)

-----------------------------------------------------------------------------
(* The world: the authorization is used on chain, by the facilitator's     *)
(* transaction at once or after the settle call gave up, or by another     *)
(* party; a guardian dies; its parent notices.                             *)
AuthorizationUsed(n) ==
  /\ n \notin used
  /\ used' = used \cup {n}
  /\ UNCHANGED <<lockVars, disk, procVars, uuid, crashes,
                 settles, effects, replies>>

GuardianEvent(p) ==
  /\ \/ /\ GuardianDies(p)
        /\ crashes < MaxCrash
        /\ crashes' = crashes + 1
     \/ NoticeClose(p) /\ UNCHANGED crashes
  /\ UNCHANGED <<disk, procVars, uuid, worldVars>>

InvokeStep(p) ==
  \/ RejectInvoke(p) \/ ReturnDuplicate(p) \/ StartVerify(p)
  \/ VerifyFails(p) \/ RecordIntent(p) \/ CallSettle(p)
  \/ SettleSucceeds(p) \/ SettleUnknown(p)
  \/ StartReconcile(p) \/ ReconcileSettled(p) \/ ReconcileUnknown(p)
  \/ ReportExecutionUnknown(p) \/ ResumePaid(p)
  \/ Claim(p) \/ StartExecution(p)
  \/ Effect(p) \/ ExecuteReturns(p) \/ ExecuteThrows(p)
  \/ Reread(p) \/ CommitFulfilment(p) \/ CommitRefused(p)

RecoveryStep(p) ==
  \/ FinalizeSkips(p) \/ FinalizeRecovered(p)
  \/ RecoverSkips(p) \/ AskWitness(p) \/ WitnessUnknown(p)
  \/ WitnessConfirmed(p) \/ WitnessUseless(p) \/ WitnessNotObserved(p)
  \/ RevalidateFails(p) \/ Revalidate(p)
  \/ ResumeReturns(p) \/ ResumeThrows(p)

Step(p) ==
  \/ LockWaitFails(p) \/ Enter(p) \/ Return(p)
  \/ InvokeStep(p) \/ RecoveryStep(p)

Next ==
  \/ \E p \in Proc :
       \/ \E c \in Call : StartCall(p, c)
       \/ Step(p)
       \/ Crash(p)
       \/ GuardianEvent(p)
  \/ \E n \in Nonce : AuthorizationUsed(n)

Spec == Init /\ [][Next]_vars

-----------------------------------------------------------------------------
(* Properties.                                                             *)

Journalled(k) == disk.rec[k].state \notin {"absent", "legacy"}
DiskReplayKey(k) == ReplayKeyOf[disk.rec[k].req.pay]
PaidOnChain(k) == NonceOf[DiskReplayKey(k)] \in used

(* No two purchases have one replay key, whatever keys, payloads and       *)
(* processes presented it (replayKeys, "Replay detected").  Two purchases  *)
(* can rest on one authorization only if its nonce was spelled otherwise   *)
(* for the second: the code compares spellings, and nothing stronger is    *)
(* true of it.                                                             *)
OnePurchasePerReplayKey ==
  \A j, k \in Key :
    Journalled(j) /\ Journalled(k) /\ DiskReplayKey(j) = DiskReplayKey(k) => j = k

(* Money is only ever asked for when the purchase and its reserved replay  *)
(* key are already durable, and they stay so (journal before settlement).  *)
JournalBeforeSettlement ==
  \A n \in ReplayKey : settles[n] > 0 =>
    /\ n \in disk.replay
    /\ \E k \in Key : Journalled(k) /\ DiskReplayKey(k) = n

(* "Retry can ONLY reconcile; never settle again": over all retries,       *)
(* crashes and processes, settle is called at most once for a replay key,  *)
(* so at most once for each spelling of an authorization.                  *)
SettledOncePerReplayKey == \A n \in ReplayKey : settles[n] <= 1

FulfilledIds ==
  {disk.rec[k].id : k \in {j \in Key : disk.rec[j].state = "fulfilled"}}

(* Receipt, entitlement, revenue event, spent replay key and response      *)
(* exist for exactly the fulfilled purchases, with one and the same        *)
(* result: no crash leaves some of them without the others.                *)
FulfilmentAllOrNothing ==
  /\ disk.entitlements = FulfilledIds
  /\ disk.revenue = FulfilledIds
  /\ {i \in Id : disk.receipts[i] # 0} = FulfilledIds
  /\ \A k \in Key : Journalled(k) =>
       /\ disk.rec[k].response # 0 <=> disk.rec[k].state = "fulfilled"
       /\ disk.rec[k].state = "fulfilled" =>
            /\ disk.receipts[disk.rec[k].id] = disk.rec[k].response
            /\ DiskReplayKey(k) \in disk.spent

(* Nothing is executed for a buyer whose payment is not on chain.          *)
ExecutedOnlyWhenPaid ==
  \A k \in Key : effects[k] > 0 => Journalled(k) /\ PaidOnChain(k)

(* An operator may ask a witness in any state, also before the purchase is *)
(* settled (recoverExecutionOutcome has no guard).  Whatever he asks, and  *)
(* whatever stale copy overwrites the file: a purchase is executed for the *)
(* first time by such a recovery, or by a call whose payment is on chain.  *)
UnpaidOnlyByRecovery ==
  [][\A k \in Key : effects[k] = 0 /\ effects'[k] > 0 =>
       \E p \in Proc :
         /\ pc[p] = "resuming" \/ (pc[p] = "executing" /\ PaidFor(p))
         /\ KeyOf(p) = k]_vars

(* A fulfilled purchase was paid on chain and its stored response is the   *)
(* result of an execution that took effect.                                *)
FulfilledIsReal ==
  \A k \in Key : disk.rec[k].state = "fulfilled" =>
     /\ PaidOnChain(k)
     /\ disk.rec[k].response \in 1 .. effects[k]

(* Every answer ever given for a key is the stored response, and was given *)
(* to the request the key is bound to: retries, recoveries and conflicting *)
(* reuses of a key never see another result.                               *)
RepliesAgree ==
  \A k \in Key : replies[k] \subseteq {<<disk.rec[k].req, disk.rec[k].response>>}

(* The effect of a purchase happens at most once.                          *)
EffectOnce == \A k \in Key : effects[k] <= 1

(* An effect whose result is not durable is never repeated.                *)
NoBlindRepeat ==
  [][\A k \in Key :
       effects[k] > 0 /\ disk.rec[k].result = 0 => effects'[k] = effects[k]]_vars

(* What the file once said of a purchase stays: its request and identity,  *)
(* its settlement, and the whole record once it has a response; the        *)
(* generation never falls back, so no write is based on an older copy.     *)
PastIsKept ==
  [][\A k \in Key :
       LET old == disk.rec[k]  new == disk'.rec[k] IN
       /\ old.state # "absent" => new.req = old.req /\ new.id = old.id
       /\ old.response # 0 => new = old
       /\ old.settled => new.settled
       /\ old.gen <= new.gen]_vars

-----------------------------------------------------------------------------
(* Gate1B implements the ledger of purchases: the file read as a ledger.   *)
Phase(k) ==
  CASE disk.rec[k].state = "fulfilled" -> "fulfilled"
    [] disk.rec[k].state # "fulfilled" /\ disk.rec[k].settled -> "paid"
    [] Journalled(k) /\ ~disk.rec[k].settled
         /\ disk.rec[k].state # "fulfilled" -> "reserved"
    [] ~Journalled(k) -> "none"

Ledger == INSTANCE PurchaseLedger WITH
  Answer <- 1 .. MaxExec,
  Nothing <- NoRequest,
  phase <- [k \in Key |-> Phase(k)],
  payment <- [k \in Key |-> IF Journalled(k) THEN DiskReplayKey(k) ELSE NoRequest],
  answer <- [k \in Key |-> IF disk.rec[k].state = "fulfilled"
                            THEN disk.rec[k].response ELSE NoRequest]

(* Seen through that reading, every step of every process is a step of the *)
(* ledger or changes nothing.                                              *)
LedgerSpec == Ledger!LedgerSpec

-----------------------------------------------------------------------------
(* Liveness.  Every await of the code ends, because fetches and RPCs have  *)
(* time limits, so a process under the lock keeps stepping.                *)
Progress == \A p \in Proc : WF_vars(Step(p))

(* Waiters are not starved: each is granted the lock if it keeps falling   *)
(* free.  The runs that use this set WaitMayExpire to FALSE: the wait of   *)
(* 180 s is far longer than the operations it waits for.                   *)
NoStarvation == \A p \in Proc : SF_vars(Enter(p))

(* Every operation ends, and with it the lock it holds is free again.      *)
OperationsEnd == \A p \in Proc : pc[p] # "idle" ~> pc[p] = "idle"

(* The buyer keeps retrying the same request whenever a process is idle,   *)
(* and the chain authority answers now and then.                           *)
Retry(k) ==
  /\ Journalled(k)
  /\ \E p \in Proc :
       StartCall(p, [op |-> "invoke", key |-> k, req |-> disk.rec[k].req])

BuyerPersists ==
  /\ \A k \in Key : SF_vars(Retry(k))
  /\ \A p \in Proc : SF_vars(ReconcileSettled(p))

FairSpec == Spec /\ Progress /\ NoStarvation /\ BuyerPersists

(* Money taken on Base mainnet for a journalled purchase is answered, or   *)
(* the record says durably that the execution outcome is unknown: a crash  *)
(* or a lost settlement answer never leaves a payment stranded.            *)
MoneyTakenIsAnswered ==
  \A k \in Key :
    (/\ Journalled(k)
     /\ disk.rec[k].req.pay \in MainnetPayment
     /\ disk.rec[k].anchored
     /\ PaidOnChain(k))
    ~> disk.rec[k].state \in {"fulfilled", "execution_unknown"}

=============================================================================
