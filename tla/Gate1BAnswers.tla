--------------------------- MODULE Gate1BAnswers ---------------------------
(***************************************************************************)
(* What a buyer gets for a payment, for any processes, keys, payments and  *)
(* bounds: Gate1B implements the ledger of purchases, a stored response is *)
(* the result of an execution, all answers agree with it, and no effect is *)
(* repeated blindly.                                                       *)
(*                                                                         *)
(* Wrote says once what the durable writes do to a record, in terms of     *)
(* where the operation was; after it, no proof looks into the updates      *)
(* again.  TruthInv relates the records, the copies processes work on and  *)
(* the results they carry to what happened.  It needs that assertOwned is  *)
(* exact.  RepeatInv adds which states an effect without a durable result  *)
(* can be in; it needs that guardians do not die under a live parent,      *)
(* because a process that lost the lock may still be executing.            *)
(***************************************************************************)
EXTENDS Gate1BFulfilment

(* Where an operation carries the result of an execution.                  *)
Carrying == {"executing", "resuming", "known", "finalizing"}

Own(p) == disk.rec[KeyOf(p)]

(* What a record says happened.                                            *)
RecordTrue(k) ==
  LET r == disk.rec[k]
  IN  /\ r.settled => Journalled(k) /\ PaidOnChain(k)
      /\ r.result <= effects[k]
      /\ r.state = "fulfilled" => r.settled /\ r.response <= effects[k]
      /\ replies[k] \subseteq {<<r.req, r.response>>}
      /\ replies[k] # {} => r.response # 0

(* A copy, however old, says nothing that the file has not kept.           *)
CopyTrue(p) ==
  pc[p] \notin {"idle", "waiting"} =>
    /\ Tx(p).state # "absent" => Own(p).state # "absent" /\ Own(p).req = Tx(p).req
    /\ Tx(p).settled => Own(p).settled
    /\ Tx(p).response # 0 => Tx(p) = Own(p)

(* The result a process carries, and the answer it is about to give.       *)
ResultTrue(p) ==
  /\ pc[p] \notin Carrying \cup {"done"} => result[p] = 0
  /\ pc[p] \in Carrying => result[p] <= effects[KeyOf(p)]
  /\ pc[p] = "finalizing" => Own(p).settled
  /\ pc[p] \in OnRecord /\ call[p].op = "invoke" => Tx(p).req = call[p].req
  /\ pc[p] = "done" /\ call[p].op = "invoke" /\ result[p] # 0 =>
       Own(p).req = call[p].req /\ Own(p).response = result[p]

TruthInv ==
  /\ \A k \in Key : RecordTrue(k)
  /\ \A p \in Proc : CopyTrue(p) /\ ResultTrue(p)

(* The states in which an effect may be without a durable result.          *)
Doubtful == {"executing", "execution_unknown"}

Harmless(k) == effects[k] = 0 \/ disk.rec[k].result # 0

RecordRepeat(k) ==
  LET r == disk.rec[k]
  IN  /\ r.state \notin Doubtful => Harmless(k)
      /\ r.state \in {"finalization_pending", "fulfilled"} => r.result # 0

(* Whoever waits for the lock to ask a witness, another process may have   *)
(* moved the record, but not to a state that hides an effect.              *)
ProcessRepeat(p) ==
  /\ pc[p] # "idle" /\ call[p].op = "recover" =>
       Own(p).result # 0 \/ Own(p).state \in Doubtful
  /\ pc[p] \in {"intent", "settling", "reconciling"} =>
       Own(p).state \in {"settlement_unknown", "unresolved"}
  /\ pc[p] = "paid" =>
       Own(p).state \in {"pending_fulfillment", "claimed", "finalization_pending"}
  /\ pc[p] = "claimed" => Own(p).state = "claimed"
  /\ pc[p] = "executing" => Own(p).state = "executing"
  /\ pc[p] \in {"witness", "revalidating", "resuming"} => call[p].op = "recover"
  /\ pc[p] \in {"executing", "revalidating", "resuming"} /\ result[p] = 0 =>
       Harmless(KeyOf(p))
  /\ pc[p] \in {"known", "finalizing"} => Own(p).result # 0

RepeatInv == (\A k \in Key : RecordRepeat(k)) /\ (\A p \in Proc : ProcessRepeat(p))

-----------------------------------------------------------------------------
(* What the steps of an operation do to the file and to what they carry.   *)

(* The ways p, at pc[p], may change its record old to new.                 *)
Reserves(p, old, new, label) ==
  /\ pc[p] = "verifying" /\ label = "intent" /\ old = EmptyRecord
  /\ new.state = "settlement_unknown" /\ new.req = call[p].req
  /\ ~new.settled /\ new.result = 0 /\ new.response = 0
  /\ ReplayKeyOf[new.req.pay] \notin disk.replay

Pays(p, old, new, label) ==
  /\ pc[p] \in {"settling", "reconciling"} /\ label = "paid"
  /\ NonceOf[ReplayKeyOf[old.req.pay]] \in used
  /\ new.state = "pending_fulfillment" /\ new.settled
  /\ new.req = old.req /\ new.result = old.result /\ new.response = 0

Marks(p, old, new, label) ==
  /\ \/ pc[p] = "reconciling" /\ new.state = "unresolved" /\ label = "done"
     \/ /\ \/ pc[p] \in {"executing", "witness"}
           \/ pc[p] = "begin" /\ old.state \in Doubtful
        /\ new.state = "execution_unknown" /\ label = "done"
     \/ pc[p] = "paid" /\ new.state = "claimed" /\ label = "claimed"
     \/ pc[p] = "claimed" /\ new.state = "executing" /\ label = "executing"
  /\ new.req = old.req /\ new.settled = old.settled
  /\ new.result = old.result /\ new.response = 0

Stages(p, old, new, label, r) ==
  /\ new.state = "finalization_pending" /\ new.result # 0
  /\ new.req = old.req /\ new.settled = old.settled /\ new.response = 0
  /\ \/ /\ pc[p] = "executing" /\ label = "known"
        /\ new.result = result[p] /\ r = result[p]
     \/ /\ pc[p] = "resuming" /\ label = "done"
        /\ new.result = result[p] /\ r = 0
     \/ /\ pc[p] = "witness" /\ label = "done"
        /\ new.result <= effects[KeyOf(p)] /\ r = 0

Answers(p, old, new, label, r) ==
  /\ old.state # "fulfilled" /\ new.state = "fulfilled" /\ label = "done"
  /\ new.req = old.req /\ new.settled = old.settled /\ new.result = old.result
  /\ new.response = r /\ r # 0
  /\ \/ pc[p] = "finalizing" /\ r = result[p]
     \/ pc[p] = "begin" /\ call[p].op = "finalize" /\ old.settled /\ r = old.result

(* A durable write of p, who owns the lock.                                *)
Wrote(p, label, r) ==
  /\ guardian[p] = "holding" /\ pc[p] \in Within \ {"done"}
  /\ mem' = [mem EXCEPT ![p] = disk']
  /\ pc' = [pc EXCEPT ![p] = label]
  /\ result' = [result EXCEPT ![p] = r]
  /\ UNCHANGED <<guardian, call, used, effects, replies>>
  /\ \A j \in Key \ {KeyOf(p)} : disk'.rec[j] = disk.rec[j]
  /\ LET old == disk.rec[KeyOf(p)]
         new == disk'.rec[KeyOf(p)]
     IN  \/ r = 0 /\ Reserves(p, old, new, label)
         \/ /\ Journalled(KeyOf(p)) /\ old.response = 0
            /\ \/ r = 0 /\ Pays(p, old, new, label)
               \/ r = 0 /\ Marks(p, old, new, label)
               \/ Stages(p, old, new, label, r)
               \/ Answers(p, old, new, label, r)
         \/ pc[p] = "settling" /\ label = "done" /\ r = 0 /\ new = old

(* It ends without an answer.                                              *)
Stopped(p) ==
  /\ pc' = [pc EXCEPT ![p] = "done"]
  /\ result' = [result EXCEPT ![p] = 0]
  /\ UNCHANGED <<guardian, disk, mem, call, used, effects, replies>>

(* It goes on without writing.                                             *)
Moved(p, label) ==
  /\ pc' = [pc EXCEPT ![p] = label]
  /\ UNCHANGED <<guardian, disk, mem, call, result, used, effects, replies>>
  /\ \/ label = "verifying" /\ Invoking(p)
     \/ label = "reconciling" /\ Retrying(p, {"settlement_unknown", "unresolved"})
     \/ /\ label = "paid"
        /\ Retrying(p, {"pending_fulfillment", "claimed", "finalization_pending"})
     \/ label = "settling" /\ pc[p] = "intent"
     \/ label = "witness" /\ Recovering(p) /\ Tx(p).state \notin Unjournalled
     \/ label = "revalidating" /\ pc[p] = "witness" /\ effects[KeyOf(p)] = 0

(* It reads the file again to finalize.                                    *)
Rereads(p) ==
  /\ pc[p] = "known" /\ Tx(p).settled
  /\ mem' = [mem EXCEPT ![p] = disk]
  /\ pc' = [pc EXCEPT ![p] = "finalizing"]
  /\ UNCHANGED <<guardian, disk, call, result, used, effects, replies>>

(* The fields of the records the code writes.                              *)
LEMMA SettledFields ==
  ASSUME NEW s \in Record
  PROVE  /\ Settled(s) \in Record /\ Settled(s).state = "pending_fulfillment"
         /\ Settled(s).settled /\ Settled(s).req = s.req
         /\ Settled(s).result = s.result /\ Settled(s).response = s.response
<1>1. 0 \in Id /\ 0 \in Result
  BY Gate1BAssumption DEF Id, Result
<1> QED BY <1>1, RecordUpdates DEF Settled, Record

LEMMA KnownFields ==
  ASSUME NEW s \in Record, NEW res \in Result
  PROVE  /\ Known(s, res) \in Record /\ Known(s, res).state = "finalization_pending"
         /\ Known(s, res).result = res /\ Known(s, res).req = s.req
         /\ Known(s, res).settled = s.settled /\ Known(s, res).response = s.response
<1>1. 0 \in Id
  BY Gate1BAssumption DEF Id
<1> QED BY <1>1, RecordUpdates DEF Known, Record

LEMMA ClaimedFields ==
  ASSUME NEW s \in Record, NEW o \in Id
  PROVE  /\ Claimed(s, o) \in Record /\ Claimed(s, o).state = "claimed"
         /\ Claimed(s, o).req = s.req /\ Claimed(s, o).result = s.result
         /\ Claimed(s, o).settled = s.settled
         /\ Claimed(s, o).response = s.response
<1>1. 0 \in Result
  BY Gate1BAssumption DEF Result
<1> QED BY <1>1, RecordUpdates DEF Claimed, Record

LEMMA AnsweredFields ==
  ASSUME NEW s \in Record, NEW res \in Result
  PROVE  /\ Answered(s, res).req = s.req /\ Answered(s, res).result = s.result
         /\ Answered(s, res).settled = s.settled
         /\ Answered(s, res).response = res
BY DEF Answered, Record

LEMMA StateFields ==
  ASSUME NEW s \in Record, NEW state \in TxState
  PROVE  /\ [s EXCEPT !.state = state] \in Record
         /\ [s EXCEPT !.state = state].state = state
         /\ [s EXCEPT !.state = state].req = s.req
         /\ [s EXCEPT !.state = state].settled = s.settled
         /\ [s EXCEPT !.state = state].result = s.result
         /\ [s EXCEPT !.state = state].response = s.response
BY DEF Record

(* The owner's record is the file's, but for the anchor.                   *)
LEMMA OwnerRecord ==
  ASSUME SafeInv, NEW p \in Proc, guardian[p] = "holding",
         pc[p] \notin {"idle", "waiting", "done"}
  PROVE  /\ Own(p) \in Record
         /\ Tx(p).state = Own(p).state /\ Tx(p).req = Own(p).req
         /\ Tx(p).settled = Own(p).settled /\ Tx(p).result = Own(p).result
         /\ Tx(p).response = Own(p).response
         /\ pc[p] # "resuming" => Tx(p) = Own(p)
<1>1. KeyOf(p) \in Key /\ Current(p) /\ disk \in File
  BY AtWork DEF SafeInv, JournalInv, OwnerInv, TypeInv, TypeOK
<1>2. Own(p) \in Record
  BY <1>1 DEF Own, File
<1>3. CASE pc[p] # "resuming"
  BY <1>1, <1>2, <1>3 DEF Current, Tx, Own
<1>4. CASE pc[p] = "resuming"
  <2>1. PICK a \in BOOLEAN :
          mem[p] = [disk EXCEPT !.rec[KeyOf(p)] = [@ EXCEPT !.anchored = a]]
    BY <1>1, <1>4 DEF Current
  <2>2. Tx(p) = [Own(p) EXCEPT !.anchored = a]
    BY <1>1, <2>1 DEF File, Tx, Own
  <2> QED BY <1>2, <1>4, <2>2 DEF Record
<1> QED BY <1>3, <1>4

(* A write of the owner's own record.                                      *)
LEMMA OwnerWrites ==
  ASSUME SafeInv, NEW p \in Proc, guardian[p] = "holding", AssertOwned(p),
         pc[p] \notin {"idle", "waiting", "done"}, NEW s \in Record,
         NEW label, NEW r, Persist(p, WithTx(p, s), label, r)
  PROVE  /\ mem' = [mem EXCEPT ![p] = disk']
         /\ pc' = [pc EXCEPT ![p] = label]
         /\ result' = [result EXCEPT ![p] = r]
         /\ disk'.rec[KeyOf(p)] = s
         /\ \A j \in Key \ {KeyOf(p)} : disk'.rec[j] = disk.rec[j]
<1>1. mem[p] \in File /\ KeyOf(p) \in Key
  BY AtWork DEF SafeInv
<1>2. /\ WithTx(p, s).rec[KeyOf(p)] = s
      /\ \A j \in Key \ {KeyOf(p)} : WithTx(p, s).rec[j] = mem[p].rec[j]
  BY <1>1 DEF WithTx, File
<1>3. /\ disk' = WithTx(p, s)
      /\ mem' = [mem EXCEPT ![p] = WithTx(p, s)]
      /\ pc' = [pc EXCEPT ![p] = label] /\ result' = [result EXCEPT ![p] = r]
  BY DEF Persist, Goto
<1> QED BY <1>2, <1>3, OwnerFile

(* What every owner at work knows.                                         *)
LEMMA OwnerKnows ==
  ASSUME ExactOwnership, SafeInv, FulfilmentInv, NEW p \in Proc, AssertOwned(p),
         pc[p] \in Within \ {"done"}
  PROVE  /\ guardian[p] = "holding" /\ pc[p] \notin {"idle", "waiting", "done"}
         /\ KeyOf(p) \in Key /\ call[p] \in Call /\ mem[p] \in File
         /\ Tx(p) \in Record /\ Own(p) \in Record
         /\ Own(p).state = Tx(p).state /\ Own(p).req = Tx(p).req
         /\ Own(p).settled = Tx(p).settled /\ Own(p).result = Tx(p).result
         /\ Own(p).response = Tx(p).response
         /\ pc[p] # "resuming" => mem[p] = disk
         /\ result[p] \in Result /\ effects[KeyOf(p)] \in 0 .. MaxExec
         /\ pc[p] \in OnRecord => /\ Tx(p).response = 0
                                 /\ Tx(p).state \notin Unjournalled
         /\ 0 \in Result /\ 0 \in Id /\ uuid \in Id
<1>1. guardian[p] = "holding" /\ pc[p] \notin {"idle", "waiting", "done"}
  BY OwnerHolds DEF SafeInv, Within
<1>2. /\ KeyOf(p) \in Key /\ call[p] \in Call /\ mem[p] \in File /\ Tx(p) \in Record
      /\ result[p] \in Result /\ effects[KeyOf(p)] \in 0 .. MaxExec
  BY <1>1, AtWork DEF SafeInv, TypeInv, TypeOK
<1>3. 0 \in Result /\ 0 \in Id /\ uuid \in Id
  BY Gate1BAssumption DEF Result, Id, SafeInv, TypeInv, TypeOK
<1>4. pc[p] \in OnRecord => Tx(p).response = 0 /\ Tx(p).state \notin Unjournalled
  BY <1>1 DEF SafeInv, TypeInv, JournalInv, OwnerInv
<1> QED BY <1>1, <1>2, <1>3, <1>4, OwnerRecord, OwnerFile

LEMMA IntentWrites ==
  ASSUME ExactOwnership, SafeInv, FulfilmentInv, NEW p \in Proc, AssertOwned(p),
         RecordIntent(p)
  PROVE  Wrote(p, "intent", 0)
<1>1. pc[p] = "verifying" /\ UNCHANGED <<guardian, call, used, effects, replies>>
  BY DEF RecordIntent, lockVars, worldVars
<1>2. pc[p] \in Within \ {"done"}
  BY <1>1 DEF Within, Label
<1>3. PICK k \in Key, n \in ReplayKey : k = KeyOf(p) /\ n = ReplayKeyOf[call[p].req.pay]
  BY <1>1, <1>2, OwnerKnows, CallFields, RequestFields DEF SafeInv, TypeInv
<1>4. PICK covered \in BOOLEAN : Persist(p, Reserved(p, covered), "intent", 0)
  BY <1>3 DEF RecordIntent, AnchorCovers
<1>5. /\ disk' = Reserved(p, covered) /\ mem' = [mem EXCEPT ![p] = disk']
      /\ pc' = [pc EXCEPT ![p] = "intent"] /\ result' = [result EXCEPT ![p] = 0]
  BY <1>4 DEF Persist, Goto
<1>6. /\ mem[p] = disk /\ disk \in File /\ disk.rec[k] = EmptyRecord
      /\ n \notin disk.replay /\ guardian[p] = "holding"
  <2>1. mem[p] = disk /\ guardian[p] = "holding"
    BY <1>1, <1>2, OwnerKnows
  <2>2. Tx(p).state = "absent" /\ n \notin disk.replay
    BY <1>1, <1>3, <2>1 DEF SafeInv, JournalInv, OwnerInv
  <2> QED BY <1>3, <2>1, <2>2 DEF Tx, SafeInv, TypeInv, TypeOK, WellFormed
<1>7. /\ disk'.rec[k].state = "settlement_unknown"
      /\ disk'.rec[k].req = call[p].req /\ disk'.rec[k].result = 0
      /\ disk'.rec[k].response = 0 /\ disk'.rec[k].settled = FALSE
      /\ \A j \in Key \ {k} : disk'.rec[j] = disk.rec[j]
  BY <1>3, <1>5, <1>6 DEF Reserved, WithTx, File, EmptyRecord
<1> QED BY <1>1, <1>2, <1>3, <1>5, <1>6, <1>7 DEF Wrote, Reserves

LEMMA PaymentWrites ==
  ASSUME ExactOwnership, SafeInv, FulfilmentInv, NEW p \in Proc, AssertOwned(p),
         SettleSucceeds(p) \/ ReconcileSettled(p)
  PROVE  Wrote(p, "paid", 0)
<1>1. /\ pc[p] \in {"settling", "reconciling"} /\ PaidFor(p)
      /\ Persist(p, WithTx(p, Settled(Tx(p))), "paid", 0)
      /\ UNCHANGED <<guardian, call, used, effects, replies>>
  BY DEF SettleSucceeds, ReconcileSettled, Save, lockVars, worldVars
<1>2. pc[p] \in Within \ {"done"} /\ pc[p] \in OnRecord
  BY <1>1 DEF Within, Label, OnRecord
<1>3. /\ guardian[p] = "holding" /\ pc[p] \notin {"idle", "waiting", "done"}
      /\ Tx(p) \in Record /\ Tx(p) = Own(p) /\ Tx(p).response = 0
      /\ Tx(p).state \notin Unjournalled
  BY <1>1, <1>2, OwnerKnows, OwnerRecord
<1>4. PICK s \in Record : s = Settled(Tx(p))
  BY <1>3, SettledFields
<1>5. Pays(p, Own(p), s, "paid") /\ Journalled(KeyOf(p))
  <2>1. NonceOf[ReplayKeyOf[Own(p).req.pay]] \in used
    BY <1>1, <1>3 DEF PaidFor, ReplayKeyFor
  <2> QED BY <1>1, <1>3, <1>4, <2>1, SettledFields
          DEF Pays, Journalled, Own, Unjournalled
<1>6. /\ mem' = [mem EXCEPT ![p] = disk']
      /\ pc' = [pc EXCEPT ![p] = "paid"]
      /\ result' = [result EXCEPT ![p] = 0]
      /\ disk'.rec[KeyOf(p)] = s
      /\ \A j \in Key \ {KeyOf(p)} : disk'.rec[j] = disk.rec[j]
  BY <1>1, <1>3, <1>4, OwnerWrites
<1> QED BY <1>1, <1>2, <1>3, <1>5, <1>6 DEF Wrote, Own

LEMMA MarkWrites ==
  ASSUME ExactOwnership, SafeInv, FulfilmentInv, NEW p \in Proc, AssertOwned(p),
         \/ ReconcileUnknown(p) \/ ReportExecutionUnknown(p) \/ StartExecution(p)
         \/ ExecuteThrows(p) \/ WitnessUnknown(p) \/ Claim(p)
  PROVE  \E label \in {"done", "claimed", "executing"} : Wrote(p, label, 0)
<1>1. /\ pc[p] \in Within \ {"done"} /\ pc[p] # "resuming"
      /\ UNCHANGED <<guardian, call, used, effects, replies>>
  BY DEF ReconcileUnknown, ReportExecutionUnknown, StartExecution, ExecuteThrows,
         WitnessUnknown, Claim, Retrying, Invoking, Save, lockVars, worldVars,
         Within, Label
<1>2. /\ guardian[p] = "holding" /\ pc[p] \notin {"idle", "waiting", "done"}
      /\ Tx(p) \in Record /\ Tx(p) = Own(p)
      /\ pc[p] \in OnRecord => Tx(p).response = 0 /\ Tx(p).state \notin Unjournalled
      /\ uuid \in Id
  BY <1>1, OwnerKnows, OwnerRecord
<1>3. Tx(p).response = 0 /\ Tx(p).state \notin Unjournalled
  BY <1>2
  DEF ReconcileUnknown, ReportExecutionUnknown, StartExecution, ExecuteThrows,
      WitnessUnknown, Claim, Retrying, OnRecord, Label, Unjournalled
<1>4. PICK label \in {"done", "claimed", "executing"}, s \in Record :
        /\ Persist(p, WithTx(p, s), label, 0)
        /\ Marks(p, Own(p), s, label)
  <2>1. ASSUME NEW state \in {"unresolved", "execution_unknown", "executing"},
               NEW label \in {"done", "executing"},
               Persist(p, WithTx(p, [Tx(p) EXCEPT !.state = state]), label, 0),
               \/ pc[p] = "reconciling" /\ state = "unresolved" /\ label = "done"
               \/ /\ \/ pc[p] \in {"executing", "witness"}
                     \/ pc[p] = "begin" /\ Own(p).state \in Doubtful
                  /\ state = "execution_unknown" /\ label = "done"
               \/ pc[p] = "claimed" /\ state = "executing" /\ label = "executing"
        PROVE  \E l \in {"done", "claimed", "executing"}, s \in Record :
                 Persist(p, WithTx(p, s), l, 0) /\ Marks(p, Own(p), s, l)
    <3>1. PICK s \in Record : s = [Tx(p) EXCEPT !.state = state]
      BY <1>2, StateFields DEF TxState
    <3>2. /\ s.state = state /\ s.req = Own(p).req /\ s.settled = Own(p).settled
          /\ s.result = Own(p).result /\ s.response = 0
      BY <1>2, <1>3, <3>1, StateFields DEF TxState
    <3>3. Persist(p, WithTx(p, s), label, 0) /\ Marks(p, Own(p), s, label)
      BY <2>1, <3>1, <3>2 DEF Marks
    <3> QED BY <3>3
  <2>2. CASE ReconcileUnknown(p)
    BY <2>1, <2>2 DEF ReconcileUnknown, Save
  <2>3. CASE ReportExecutionUnknown(p)
    BY <1>2, <2>1, <2>3 DEF ReportExecutionUnknown, Retrying, Invoking, Save, Doubtful
  <2>4. CASE ExecuteThrows(p) \/ WitnessUnknown(p)
    BY <2>1, <2>4 DEF ExecuteThrows, WitnessUnknown, Save
  <2>5. CASE StartExecution(p)
    BY <2>1, <2>5 DEF StartExecution, Save
  <2>6. CASE Claim(p)
    <3>1. PICK o \in Id : o = uuid + 1
      BY <1>2, <2>6, Gate1BAssumption DEF Claim, Id
    <3>2. /\ pc[p] = "paid"
          /\ Persist(p, WithTx(p, Claimed(Tx(p), o)), "claimed", 0)
      BY <2>6, <3>1 DEF Claim, Claimed
    <3>3. PICK s \in Record : s = Claimed(Tx(p), o)
      BY <1>2, ClaimedFields
    <3>4. Marks(p, Own(p), s, "claimed")
      BY <1>2, <1>3, <3>2, <3>3, ClaimedFields DEF Marks
    <3> QED BY <3>2, <3>3, <3>4
  <2> QED BY <2>2, <2>3, <2>4, <2>5, <2>6
<1>5. /\ mem' = [mem EXCEPT ![p] = disk']
      /\ pc' = [pc EXCEPT ![p] = label]
      /\ result' = [result EXCEPT ![p] = 0]
      /\ disk'.rec[KeyOf(p)] = s
      /\ \A j \in Key \ {KeyOf(p)} : disk'.rec[j] = disk.rec[j]
  BY <1>2, <1>4, OwnerWrites
<1>6. Journalled(KeyOf(p)) /\ Own(p).response = 0
  BY <1>2, <1>3 DEF Journalled, Own, Unjournalled
<1>7. Wrote(p, label, 0)
  BY <1>1, <1>2, <1>4, <1>5, <1>6 DEF Wrote, Own
<1> QED BY <1>7

LEMMA ResultWrites ==
  ASSUME ExactOwnership, SafeInv, FulfilmentInv, NEW p \in Proc, AssertOwned(p),
         ExecuteReturns(p) \/ WitnessConfirmed(p) \/ ResumeReturns(p)
  PROVE  \E label \in {"known", "done"}, r \in Result : Wrote(p, label, r)
<1>1. /\ pc[p] \in Within \ {"done"} /\ pc[p] \in OnRecord
      /\ UNCHANGED <<guardian, call, used, effects, replies>>
  BY DEF ExecuteReturns, WitnessConfirmed, ResumeReturns, Save, lockVars,
         worldVars, Within, Label, OnRecord
<1>2. /\ guardian[p] = "holding" /\ pc[p] \notin {"idle", "waiting", "done"}
      /\ Tx(p) \in Record /\ Tx(p).req = Own(p).req /\ Tx(p).settled = Own(p).settled
      /\ Tx(p).state = Own(p).state
      /\ Tx(p).response = 0 /\ Own(p).response = 0 /\ Tx(p).state \notin Unjournalled
      /\ result[p] \in Result /\ 0 \in Result /\ effects[KeyOf(p)] \in 0 .. MaxExec
  BY <1>1, OwnerKnows
<1>3. PICK label \in {"known", "done"}, r \in Result, res \in Result :
        /\ Persist(p, WithTx(p, Known(Tx(p), res)), label, r)
        /\ res # 0
        /\ \/ /\ pc[p] = "executing" /\ label = "known"
              /\ res = result[p] /\ r = result[p]
           \/ /\ pc[p] = "resuming" /\ label = "done"
              /\ res = result[p] /\ r = 0
           \/ /\ pc[p] = "witness" /\ label = "done"
              /\ res <= effects[KeyOf(p)] /\ r = 0
  <2>1. CASE ExecuteReturns(p)
    BY <1>2, <2>1 DEF ExecuteReturns, Save
  <2>2. CASE ResumeReturns(p)
    BY <1>2, <2>2 DEF ResumeReturns, Save
  <2>3. CASE WitnessConfirmed(p)
    <3>1. PICK res \in 1 .. effects[KeyOf(p)] :
            Persist(p, WithTx(p, Known(Tx(p), res)), "done", 0)
      BY <2>3 DEF WitnessConfirmed, Save
    <3>2. res \in Result /\ res # 0 /\ res <= effects[KeyOf(p)]
      BY <1>2, <3>1, Gate1BAssumption DEF Result
    <3>3. pc[p] = "witness"
      BY <2>3 DEF WitnessConfirmed
    <3> QED BY <1>2, <3>1, <3>2, <3>3
  <2> QED BY <2>1, <2>2, <2>3
<1>4. PICK s \in Record : s = Known(Tx(p), res)
  BY <1>2, KnownFields
<1>5. Stages(p, Own(p), s, label, r) /\ Journalled(KeyOf(p))
  <2>1. /\ s.state = "finalization_pending" /\ s.result = res /\ s.req = Own(p).req
        /\ s.settled = Own(p).settled /\ s.response = 0
    BY <1>2, <1>4, KnownFields
  <2> QED BY <1>2, <1>3, <2>1 DEF Stages, Journalled, Own, Unjournalled
<1>6. /\ mem' = [mem EXCEPT ![p] = disk']
      /\ pc' = [pc EXCEPT ![p] = label]
      /\ result' = [result EXCEPT ![p] = r]
      /\ disk'.rec[KeyOf(p)] = s
      /\ \A j \in Key \ {KeyOf(p)} : disk'.rec[j] = disk.rec[j]
  BY <1>2, <1>3, <1>4, OwnerWrites
<1>7. Wrote(p, label, r)
  BY <1>1, <1>2, <1>5, <1>6 DEF Wrote, Own
<1> QED BY <1>7

LEMMA AnswerWrites ==
  ASSUME ExactOwnership, SafeInv, FulfilmentInv, NEW p \in Proc, AssertOwned(p),
         CommitFulfilment(p) \/ FinalizeRecovered(p)
  PROVE  \E r \in Result : Wrote(p, "done", r)
<1>1. /\ pc[p] \in Within \ {"done"} /\ pc[p] # "resuming"
      /\ UNCHANGED <<guardian, call, used, effects, replies>>
  BY DEF CommitFulfilment, FinalizeRecovered, Save, lockVars, worldVars, Within, Label
<1>2. /\ guardian[p] = "holding"
      /\ KeyOf(p) \in Key /\ mem[p] \in File /\ WellFormed(mem[p]) /\ mem[p] = disk
      /\ Tx(p) \in Record /\ Tx(p) = Own(p) /\ Tx(p) = mem[p].rec[KeyOf(p)]
      /\ result[p] \in Result /\ uuid \in Id /\ Whole(mem[p], uuid)
      /\ pc[p] \in OnRecord => Tx(p).response = 0 /\ Tx(p).state \notin Unjournalled
  BY <1>1, OwnerKnows, OwnerRecord DEF SafeInv, TypeInv, FulfilmentInv, Tx
<1>3. /\ Tx(p).response = 0 /\ Tx(p).state \notin Unjournalled
      /\ Tx(p).state # "fulfilled"
  <2>1. Tx(p).response = 0 /\ Tx(p).state \notin Unjournalled
    BY <1>2 DEF CommitFulfilment, FinalizeRecovered, Eligible, OnRecord, Label, Unjournalled
  <2> QED BY <1>2, <2>1 DEF Whole
<1>4. PICK r \in Result :
        /\ r # 0
        /\ \/ pc[p] = "finalizing" /\ r = result[p]
           \/ pc[p] = "begin" /\ call[p].op = "finalize" /\ Own(p).settled /\ r = Own(p).result
        /\ Persist(p, Fulfilled(mem[p], KeyOf(p), r), "done", r)
  <2>1. CASE CommitFulfilment(p)
    BY <1>2, <2>1 DEF CommitFulfilment, Save, FulfilmentInv, Stage
  <2>2. CASE FinalizeRecovered(p)
    <3>1. Tx(p).result \in Result /\ Tx(p).result # 0 /\ Tx(p).settled
      BY <1>2, <2>2 DEF FinalizeRecovered, Eligible, Record
    <3> DEFINE f == Fulfilled(mem[p], KeyOf(p), Tx(p).result)
               kept == mem[p].receipts[Tx(p).id]
               g == [f EXCEPT !.receipts[Tx(p).id] = IF kept = 0 THEN @ ELSE kept]
    <3>2. f \in File /\ kept = 0
      BY <1>2, <1>3, <3>1, FulfilledWhole
    <3>3. Persist(p, g, "done", Tx(p).result)
      BY <2>2 DEF FinalizeRecovered, Save
    <3> HIDE DEF f, kept
    <3>4. g = f
      BY <3>2 DEF File
    <3> QED BY <1>2, <2>2, <3>1, <3>3, <3>4 DEF FinalizeRecovered, f
  <2> QED BY <2>1, <2>2
<1>5. PICK f \in File : f = Fulfilled(mem[p], KeyOf(p), r)
  BY <1>2, <1>3, FulfilledFacts
<1>6. /\ f.rec[KeyOf(p)] = Answered(Tx(p), r)
      /\ f.rec[KeyOf(p)].state = "fulfilled"
      /\ \A j \in Key \ {KeyOf(p)} : f.rec[j] = disk.rec[j]
  BY <1>2, <1>3, <1>5, FulfilledFacts
<1>7. Answers(p, Own(p), f.rec[KeyOf(p)], "done", r) /\ Journalled(KeyOf(p))
  BY <1>2, <1>3, <1>4, <1>6, AnsweredFields DEF Answers, Journalled, Own, Unjournalled
<1>8. /\ disk' = f /\ mem' = [mem EXCEPT ![p] = disk']
      /\ pc' = [pc EXCEPT ![p] = "done"] /\ result' = [result EXCEPT ![p] = r]
  BY <1>4, <1>5 DEF Persist, Goto
<1>9. Wrote(p, "done", r)
  BY <1>1, <1>2, <1>3, <1>6, <1>7, <1>8 DEF Wrote, Own
<1> QED BY <1>9

(* Every step of a running operation is one of these.                      *)
LEMMA RunningCases ==
  ASSUME ExactOwnership, SafeInv, FulfilmentInv, TruthInv, NEW p \in Proc,
         InvokeStep(p) \/ RecoveryStep(p)
  PROVE  \/ \E label \in Label, r \in Result : Wrote(p, label, r)
         \/ Stopped(p)
         \/ \E label \in Label : Moved(p, label)
         \/ ReturnDuplicate(p) \/ Effect(p) \/ Rereads(p) \/ Revalidate(p)
<1> USE DEF lockVars, worldVars, Goto
<1>1. CASE \/ RejectInvoke(p) \/ VerifyFails(p) \/ CommitRefused(p)
           \/ FinalizeSkips(p) \/ RecoverSkips(p) \/ WitnessUseless(p)
           \/ RevalidateFails(p) \/ ResumeThrows(p)
  BY <1>1 DEF RejectInvoke, VerifyFails, CommitRefused, FinalizeSkips, RecoverSkips,
              WitnessUseless, RevalidateFails, ResumeThrows, Finish, Stopped
<1>2. CASE StartVerify(p) \/ StartReconcile(p) \/ ResumePaid(p)
             \/ AskWitness(p) \/ WitnessNotObserved(p)
  BY <1>2 DEF StartVerify, StartReconcile, ResumePaid, AskWitness,
              WitnessNotObserved, Advance, Moved, Label, Unjournalled
<1>3. CASE CallSettle(p)
  <2>1. CASE pc' = [pc EXCEPT ![p] = "settling"]
    BY <1>3, <2>1 DEF CallSettle, Moved, Label
  <2>2. CASE pc' = [pc EXCEPT ![p] = "done"]
    <3>1. result[p] = 0
      BY <1>3 DEF CallSettle, TruthInv, ResultTrue, Carrying
    <3>2. result' = [result EXCEPT ![p] = 0]
      BY <1>3, <3>1 DEF CallSettle, SafeInv, TypeInv, TypeOK
    <3> QED BY <1>3, <2>2, <3>2 DEF CallSettle, Stopped
  <2> QED BY <1>3, <2>1, <2>2 DEF CallSettle
<1>4. CASE Reread(p)
  BY <1>4 DEF Reread, Rereads, Stopped
<1>5. CASE \/ RecordIntent(p) \/ SettleSucceeds(p) \/ ReconcileSettled(p)
           \/ SettleUnknown(p) \/ ReconcileUnknown(p) \/ ReportExecutionUnknown(p)
           \/ StartExecution(p) \/ ExecuteThrows(p) \/ WitnessUnknown(p)
           \/ Claim(p) \/ ExecuteReturns(p) \/ WitnessConfirmed(p)
           \/ ResumeReturns(p) \/ CommitFulfilment(p) \/ FinalizeRecovered(p)
  <2>1. CASE ~AssertOwned(p)
    <3>1. UNCHANGED <<guardian, call, used, effects, replies>>
      BY <1>5
      DEF RecordIntent, SettleSucceeds, ReconcileSettled, SettleUnknown,
          ReconcileUnknown, ReportExecutionUnknown, StartExecution, ExecuteThrows,
          WitnessUnknown, Claim, ExecuteReturns, WitnessConfirmed, ResumeReturns,
          CommitFulfilment, FinalizeRecovered, Save
    <3>2. /\ pc' = [pc EXCEPT ![p] = "done"]
          /\ result' = [result EXCEPT ![p] = 0]
          /\ UNCHANGED <<disk, mem>>
      BY <1>5, <2>1
      DEF RecordIntent, SettleSucceeds, ReconcileSettled, SettleUnknown,
          ReconcileUnknown, ReportExecutionUnknown, StartExecution, ExecuteThrows,
          WitnessUnknown, Claim, ExecuteReturns, WitnessConfirmed, ResumeReturns,
          CommitFulfilment, FinalizeRecovered, Save, Persist
    <3> QED BY <3>1, <3>2 DEF Stopped
  <2>2. CASE AssertOwned(p) /\ SettleUnknown(p)
    <3>1. /\ pc[p] = "settling" /\ Persist(p, mem[p], "done", 0)
          /\ UNCHANGED <<guardian, call, used, effects, replies>>
      BY <2>2 DEF SettleUnknown, Save
    <3>2. mem[p] = disk /\ guardian[p] = "holding"
      BY <2>2, <3>1, OwnerKnows DEF Within, Label
    <3>3. Wrote(p, "done", 0)
      BY <2>2, <3>1, <3>2 DEF Wrote, Persist, Within, Label
    <3>4. 0 \in Result
      BY Gate1BAssumption DEF Result
    <3> QED BY <3>3, <3>4 DEF Label
  <2>3. CASE AssertOwned(p) /\ ~SettleUnknown(p)
    <3>1. 0 \in Result
      BY Gate1BAssumption DEF Result
    <3>2. \E label \in {"intent", "paid", "done", "claimed", "executing", "known"},
             r \in Result : Wrote(p, label, r)
      BY <1>5, <2>3, <3>1, IntentWrites, PaymentWrites, MarkWrites, ResultWrites, AnswerWrites
    <3> QED BY <3>2 DEF Label
  <2> QED BY <2>1, <2>2, <2>3
<1>6. CASE ReturnDuplicate(p) \/ Effect(p) \/ Revalidate(p)
  BY <1>6
<1> QED BY <1>1, <1>2, <1>3, <1>4, <1>5, <1>6 DEF InvokeStep, RecoveryStep

-----------------------------------------------------------------------------
(* TruthInv is inductive.                                                  *)

LEMMA Initially ==
  ASSUME Init
  PROVE  /\ \A k \in Key : /\ disk.rec[k].settled = FALSE /\ disk.rec[k].result = 0
                          /\ disk.rec[k].state \in Unjournalled
                          /\ effects[k] = 0 /\ replies[k] = {}
         /\ \A p \in Proc : pc[p] = "idle" /\ result[p] = 0
<1>1. PICK Old \in SUBSET LegacyKey : \E old \in [Old -> Request \X {0, 1}] :
        disk = [EmptyFile EXCEPT
                 !.rec = [k \in Key |-> IF k \in Old
                            THEN LegacyRecord(old[k][1], old[k][2])
                            ELSE EmptyRecord],
                 !.replay = {ReplayKeyOf[old[k][1].pay] : k \in Old}]
  BY DEF Init
<1>2. PICK old \in [Old -> Request \X {0, 1}] :
        disk = [EmptyFile EXCEPT
                 !.rec = [k \in Key |-> IF k \in Old
                            THEN LegacyRecord(old[k][1], old[k][2])
                            ELSE EmptyRecord],
                 !.replay = {ReplayKeyOf[old[k][1].pay] : k \in Old}]
  BY <1>1
<1>3. ASSUME NEW k \in Key
      PROVE  /\ disk.rec[k].settled = FALSE /\ disk.rec[k].result = 0
             /\ disk.rec[k].state \in Unjournalled
  BY <1>2 DEF EmptyFile, LegacyRecord, EmptyRecord, Unjournalled
<1>4. \A k \in Key : effects[k] = 0 /\ replies[k] = {}
  BY DEF Init
<1>5. pc = [p \in Proc |-> "idle"] /\ result = [p \in Proc |-> 0]
  BY DEF Init
<1>6. \A p \in Proc : pc[p] = "idle" /\ result[p] = 0
  BY <1>5
<1> QED BY <1>3, <1>4, <1>6

LEMMA TruthInit == ASSUME Init PROVE TruthInv
<1>1. ASSUME NEW k \in Key PROVE RecordTrue(k)
  <2>1. /\ ~disk.rec[k].settled /\ disk.rec[k].state # "fulfilled"
        /\ disk.rec[k].result = 0 /\ effects[k] = 0 /\ replies[k] = {}
    BY Initially DEF Unjournalled
  <2>2. disk.rec[k].result <= effects[k]
    BY <2>1
  <2> QED BY <2>1, <2>2 DEF RecordTrue
<1> QED BY <1>1, Initially DEF TruthInv, CopyTrue, ResultTrue, Carrying, OnRecord

(* Effects and uses only become more.                                      *)
Grown == used \subseteq used' /\ \A k \in Key : effects[k] <= effects'[k]

LEMMA RecordKept ==
  ASSUME SafeInv, TruthInv, TypeInv', Grown, NEW k \in Key,
         disk'.rec[k] = disk.rec[k], replies'[k] = replies[k]
  PROVE  RecordTrue(k)'
<1>1. /\ disk.rec[k].result \in Nat /\ disk.rec[k].response \in Nat
      /\ effects[k] \in Nat /\ effects'[k] \in Nat /\ effects[k] <= effects'[k]
  BY Gate1BAssumption DEF SafeInv, TypeInv, TypeOK, File, Record, Result, Grown
<1> QED BY <1>1 DEF TruthInv, RecordTrue, Journalled, PaidOnChain, DiskReplayKey, Grown

(* What is true of a process that does not move stays true.                *)
LEMMA CopyKept ==
  ASSUME SafeInv, TruthInv, TypeInv', PastStep, NEW q \in Proc,
         pc[q] \notin {"idle", "waiting"}, mem'[q] = mem[q], call'[q] = call[q]
  PROVE  CopyTrue(q)'
<1>1. /\ KeyOf(q) \in Key /\ Tx(q)' = Tx(q) /\ KeyOf(q)' = KeyOf(q)
      /\ Tx(q).state # "absent" => Tx(q).req \in Request
  BY AtWork DEF SafeInv, Tx, KeyOf
<1>2. Own(q)' = disk'.rec[KeyOf(q)]
  BY <1>1 DEF Own
<1>3. ASSUME Tx(q).state # "absent"
      PROVE  Own(q)'.state # "absent" /\ Own(q)'.req = Tx(q).req
  <2>1. Own(q).state # "absent" /\ Own(q).req = Tx(q).req
    BY <1>3 DEF TruthInv, CopyTrue
  <2>2. Own(q)'.req = Tx(q).req
    BY <1>1, <1>2, <2>1 DEF PastStep, Own
  <2>3. Own(q)'.state = "absent" => Own(q)' = EmptyRecord
    BY <1>1, <1>2 DEF TypeInv, WellFormed
  <2> QED BY <1>1, <1>3, <2>2, <2>3, Gate1BAssumption DEF EmptyRecord
<1>4. Tx(q).settled => Own(q)'.settled
  BY <1>1, <1>2 DEF TruthInv, CopyTrue, PastStep, Own
<1>5. Tx(q).response # 0 => Tx(q) = Own(q)'
  BY <1>1, <1>2 DEF TruthInv, CopyTrue, PastStep, Own
<1> QED BY <1>1, <1>3, <1>4, <1>5 DEF CopyTrue

LEMMA ProcessKept ==
  ASSUME SafeInv, TruthInv, TypeInv', PastStep, Grown, NEW q \in Proc,
         pc'[q] = pc[q], mem'[q] = mem[q], call'[q] = call[q], result'[q] = result[q]
  PROVE  CopyTrue(q)' /\ ResultTrue(q)'
<1>1. CASE pc[q] \in {"idle", "waiting"}
  BY <1>1 DEF TruthInv, CopyTrue, ResultTrue, Carrying, OnRecord
<1>2. CASE pc[q] \notin {"idle", "waiting"}
  <2>1. /\ KeyOf(q) \in Key /\ Tx(q)' = Tx(q) /\ KeyOf(q)' = KeyOf(q)
        /\ call[q] \in Call /\ result[q] \in Nat
        /\ effects[KeyOf(q)] \in Nat /\ effects'[KeyOf(q)] \in Nat
        /\ effects[KeyOf(q)] <= effects'[KeyOf(q)]
    BY <1>2, AtWork, Gate1BAssumption
    DEF SafeInv, TypeInv, TypeOK, Tx, KeyOf, Result, Grown
  <2>2. Own(q)' = disk'.rec[KeyOf(q)]
    BY <2>1 DEF Own
  <2>3. pc[q] = "finalizing" => Own(q)'.settled
    BY <2>1, <2>2 DEF TruthInv, ResultTrue, PastStep, Own
  <2>4. pc[q] = "done" /\ call[q].op = "invoke" /\ result[q] # 0 =>
          Own(q)'.req = call[q].req /\ Own(q)'.response = result[q]
    BY <2>1, <2>2 DEF TruthInv, ResultTrue, PastStep, Own
  <2>5. ResultTrue(q)'
    BY <2>1, <2>3, <2>4 DEF TruthInv, ResultTrue
  <2> QED BY <1>2, <2>5, CopyKept
<1> QED BY <1>1, <1>2

(* The steps that leave the file and every copy alone.                     *)
LEMMA QuietTrue ==
  ASSUME SafeInv, TruthInv, TypeInv', PastStep, Grown, NEW p \in Proc,
         pc[p] \notin {"idle", "waiting"}, NEW label \in Within, NEW r,
         pc' = [pc EXCEPT ![p] = label], result' = [result EXCEPT ![p] = r],
         UNCHANGED <<disk, mem, call, replies>>,
         label \notin Carrying \cup {"done"} => r = 0,
         label \in Carrying => r <= effects'[KeyOf(p)],
         label # "finalizing",
         label \in OnRecord /\ call[p].op = "invoke" => Tx(p).req = call[p].req,
         label = "done" /\ call[p].op = "invoke" /\ r # 0 =>
           Own(p).req = call[p].req /\ Own(p).response = r
  PROVE  TruthInv'
<1>1. \A k \in Key : RecordTrue(k)'
  BY RecordKept
<1>2. \A q \in Proc \ {p} : CopyTrue(q)' /\ ResultTrue(q)'
  BY ProcessKept DEF SafeInv, TypeInv, TypeOK
<1>3. CopyTrue(p)'
  BY CopyKept
<1>4. ResultTrue(p)'
  <2>1. /\ pc'[p] = label /\ result'[p] = r /\ call' = call
        /\ Tx(p)' = Tx(p) /\ KeyOf(p)' = KeyOf(p) /\ Own(p)' = Own(p)
    BY DEF SafeInv, TypeInv, TypeOK, Tx, KeyOf, Own
  <2> QED BY <2>1 DEF ResultTrue, Carrying
<1> QED BY <1>1, <1>2, <1>3, <1>4 DEF TruthInv

(* A durable write leaves a true record and a true copy of it.             *)
LEMMA WroteTrue ==
  ASSUME SafeInv, TruthInv, TypeInv', PastStep, NEW p \in Proc,
         NEW label \in Label, NEW r \in Result, Wrote(p, label, r)
  PROVE  TruthInv'
<1>a. /\ guardian[p] = "holding" /\ pc[p] \notin {"idle", "waiting", "done"}
      /\ mem' = [mem EXCEPT ![p] = disk'] /\ pc' = [pc EXCEPT ![p] = label]
      /\ result' = [result EXCEPT ![p] = r]
      /\ UNCHANGED <<call, used, effects, replies>>
      /\ \A j \in Key \ {KeyOf(p)} : disk'.rec[j] = disk.rec[j]
  BY DEF Wrote, Within
<1>b. PICK k, old, new :
        /\ k \in Key /\ old \in Record
        /\ k = KeyOf(p) /\ old = disk.rec[k] /\ new = disk'.rec[k]
        /\ old = Own(p) /\ Tx(p).req = old.req
  BY <1>a, AtWork, OwnerRecord DEF SafeInv, Own
<1>c. /\ effects[k] \in Nat /\ old.result \in Nat /\ old.response \in Nat
      /\ result[p] \in Nat
  BY <1>b, Gate1BAssumption DEF Record, Result, SafeInv, TypeInv, TypeOK
<1>d. /\ old.settled => Journalled(k) /\ NonceOf[ReplayKeyOf[old.req.pay]] \in used
      /\ old.result <= effects[k]
      /\ old.state = "fulfilled" => old.settled /\ old.response <= effects[k]
      /\ replies[k] \subseteq {<<old.req, old.response>>}
      /\ replies[k] # {} => old.response # 0
  BY <1>b DEF TruthInv, RecordTrue, PaidOnChain, DiskReplayKey
<1>e. /\ pc[p] \in Carrying => result[p] <= effects[k]
      /\ pc[p] = "finalizing" => old.settled
      /\ pc[p] \in OnRecord /\ call[p].op = "invoke" => old.req = call[p].req
  BY <1>b DEF TruthInv, ResultTrue
<1>f. \/ r = 0 /\ Reserves(p, old, new, label)
      \/ /\ Journalled(k) /\ old.response = 0
         /\ \/ r = 0 /\ Pays(p, old, new, label)
            \/ r = 0 /\ Marks(p, old, new, label)
            \/ Stages(p, old, new, label, r)
            \/ Answers(p, old, new, label, r)
      \/ pc[p] = "settling" /\ label = "done" /\ r = 0 /\ new = old
  BY <1>b DEF Wrote
<1>g. Grown
  BY <1>a DEF Grown, SafeInv, TypeInv, TypeOK
<1>1. RecordTrue(k)'
  <2>1. CASE Reserves(p, old, new, label)
    <3>1. replies[k] = {}
      BY <1>d, <2>1 DEF Reserves, EmptyRecord
    <3> QED BY <1>a, <1>b, <1>c, <2>1, <3>1 DEF Reserves, RecordTrue
  <2>2. CASE new = old
    BY <1>a, <1>b, <1>g, <2>2, RecordKept
  <2>3. CASE /\ Journalled(k) /\ old.response = 0
             /\ \/ Pays(p, old, new, label) \/ Marks(p, old, new, label)
                \/ Stages(p, old, new, label, r) \/ Answers(p, old, new, label, r)
    <3>1. replies'[k] = {}
      BY <1>a, <1>d, <2>3
    <3>2. /\ new.req = old.req
          /\ new.settled => NonceOf[ReplayKeyOf[old.req.pay]] \in used
          /\ new.state \notin Unjournalled
      BY <1>d, <2>3 DEF Pays, Marks, Stages, Answers, Unjournalled
    <3>3. new.result <= effects[k]
      BY <1>b, <1>d, <1>e, <2>3 DEF Pays, Marks, Stages, Answers, Carrying
    <3>4. new.state = "fulfilled" => new.settled /\ new.response <= effects[k]
      BY <1>d, <1>e, <2>3 DEF Pays, Marks, Stages, Answers, Carrying
    <3>5. Journalled(k)' /\ DiskReplayKey(k)' = ReplayKeyOf[old.req.pay]
      BY <1>b, <3>2 DEF Journalled, DiskReplayKey, Unjournalled
    <3> QED BY <1>a, <1>b, <3>1, <3>2, <3>3, <3>4, <3>5 DEF RecordTrue, PaidOnChain
  <2> QED BY <1>f, <2>1, <2>2, <2>3
<1>2. \A j \in Key : RecordTrue(j)'
  BY <1>1, <1>a, <1>b, <1>g, RecordKept
<1>3. \A q \in Proc \ {p} : CopyTrue(q)' /\ ResultTrue(q)'
  BY <1>a, <1>g, ProcessKept DEF SafeInv, TypeInv, TypeOK
<1>4. /\ pc'[p] = label /\ result'[p] = r /\ KeyOf(p)' = k
      /\ Tx(p)' = new /\ Own(p)' = new
  BY <1>a, <1>b DEF SafeInv, TypeInv, TypeOK, Tx, KeyOf, Own
<1>5. CopyTrue(p)'
  BY <1>4 DEF CopyTrue
<1>6. ResultTrue(p)'
  <2>1. label \notin Carrying \cup {"done"} => r = 0
    BY <1>f DEF Reserves, Pays, Marks, Stages, Answers, Carrying
  <2>2. label \in Carrying => r <= effects[k]
    BY <1>c, <1>e, <1>f DEF Reserves, Pays, Marks, Stages, Answers, Carrying
  <2>3. label # "finalizing"
    BY <1>f DEF Reserves, Pays, Marks, Stages, Answers
  <2>4. label \in OnRecord /\ call[p].op = "invoke" => new.req = call[p].req
    BY <1>e, <1>f DEF Reserves, Pays, Marks, Stages, Answers, OnRecord, Label
  <2>5. label = "done" /\ call[p].op = "invoke" /\ r # 0 =>
          new.req = call[p].req /\ new.response = r
    BY <1>e, <1>f DEF Reserves, Pays, Marks, Stages, Answers, OnRecord, Label
  <2> QED BY <1>a, <1>4, <2>1, <2>2, <2>3, <2>4, <2>5 DEF ResultTrue
<1> QED BY <1>2, <1>3, <1>5, <1>6 DEF TruthInv

LEMMA TruthRunning ==
  ASSUME ExactOwnership, SafeInv, FulfilmentInv, TruthInv, TypeInv', PastStep,
         NEW p \in Proc, InvokeStep(p) \/ RecoveryStep(p)
  PROVE  TruthInv'
<1>a. /\ pc[p] \notin {"idle", "waiting"} /\ KeyOf(p) \in Key
      /\ result[p] \in Result /\ effects[KeyOf(p)] \in 0 .. MaxExec
  BY RunningStep, AtWork DEF SafeInv, TypeInv, TypeOK, Within
<1>b. used = used' /\ effects' = effects => Grown
  BY DEF Grown, SafeInv, TypeInv, TypeOK
<1>1. CASE \E label \in Label, r \in Result : Wrote(p, label, r)
  BY <1>1, WroteTrue
<1>2. CASE Stopped(p)
  BY <1>a, <1>b, <1>2, QuietTrue DEF Stopped, Within, Label, Carrying, OnRecord
<1>3. CASE \E label \in Label : Moved(p, label)
  <2>1. PICK label \in Within : Moved(p, label)
    BY <1>3 DEF Moved, Within, Label
  <2>2. /\ pc' = [pc EXCEPT ![p] = label] /\ result' = [result EXCEPT ![p] = 0]
        /\ UNCHANGED <<disk, mem, call, used, effects, replies>>
    BY <2>1 DEF Moved, TruthInv, ResultTrue, Carrying, SafeInv, TypeInv, TypeOK,
                Invoking, Retrying, Recovering
  <2>3. label \notin Carrying \cup {"done"}
    BY <2>1 DEF Moved, Carrying
  <2>4. label \in OnRecord /\ call[p].op = "invoke" => Tx(p).req = call[p].req
    BY <2>1 DEF Moved, Invoking, Retrying, Recovering, TruthInv, ResultTrue, OnRecord, Label
  <2> QED BY <1>a, <1>b, <2>2, <2>3, <2>4, QuietTrue DEF Carrying
<1>4. CASE ReturnDuplicate(p)
  <2>1. /\ pc' = [pc EXCEPT ![p] = "done"]
        /\ result' = [result EXCEPT ![p] = Tx(p).response]
        /\ UNCHANGED <<disk, mem, call, used, effects, replies>>
        /\ Tx(p).req = call[p].req /\ Tx(p).response # 0
    BY <1>4 DEF ReturnDuplicate, Finish, Goto, worldVars
  <2>2. Own(p) = Tx(p)
    BY <1>a, <2>1 DEF TruthInv, CopyTrue
  <2> QED BY <1>a, <1>b, <2>1, <2>2, QuietTrue DEF Within, Label, Carrying, OnRecord
<1>5. CASE Effect(p)
  <2>1. /\ pc[p] \in {"executing", "resuming"}
        /\ pc' = [pc EXCEPT ![p] = pc[p]]
        /\ result' = [result EXCEPT ![p] = effects[KeyOf(p)] + 1]
        /\ effects' = [effects EXCEPT ![KeyOf(p)] = @ + 1]
        /\ UNCHANGED <<disk, mem, call, used, replies>>
    BY <1>5 DEF Effect, SafeInv, TypeInv, TypeOK
  <2>2. effects'[KeyOf(p)] = effects[KeyOf(p)] + 1 /\ Grown
    BY <1>a, <2>1 DEF SafeInv, TypeInv, TypeOK, Grown
  <2>3. effects[KeyOf(p)] + 1 <= effects'[KeyOf(p)]
    BY <1>a, <2>2
  <2>4. pc[p] \in OnRecord /\ call[p].op = "invoke" => Tx(p).req = call[p].req
    BY DEF TruthInv, ResultTrue
  <2> QED BY <1>a, <2>1, <2>2, <2>3, <2>4, QuietTrue DEF Within, Label, Carrying
<1>6. CASE Rereads(p) \/ Revalidate(p)
  <2>1. /\ pc[p] \in {"known", "revalidating"}
        /\ UNCHANGED <<disk, call, result, used, effects, replies>>
    BY <1>6 DEF Rereads, Revalidate, worldVars
  <2>2. \A k \in Key : RecordTrue(k)'
    BY <1>b, <2>1, RecordKept
  <2>3. \A q \in Proc \ {p} : CopyTrue(q)' /\ ResultTrue(q)'
    BY <1>6, <1>b, <2>1, ProcessKept DEF Rereads, Revalidate, Goto, SafeInv, TypeInv, TypeOK
  <2>4. KeyOf(p)' = KeyOf(p) /\ Own(p)' = Own(p)
    BY <2>1 DEF KeyOf, Own
  <2>5. CASE Rereads(p)
    <3>1. Tx(p)' = Own(p) /\ pc'[p] = "finalizing"
      BY <2>4, <2>5 DEF Rereads, Tx, Own, SafeInv, TypeInv, TypeOK
    <3>2. Own(p).settled /\ Own(p).req = Tx(p).req
      BY <2>1, <2>5 DEF Rereads, TruthInv, CopyTrue, SafeInv, TypeInv, OnRecord,
                        Label, Unjournalled
    <3>3. CopyTrue(p)'
      BY <2>4, <3>1 DEF CopyTrue
    <3>4. ResultTrue(p)'
      BY <2>1, <2>4, <2>5, <3>1, <3>2
      DEF Rereads, ResultTrue, TruthInv, Carrying, OnRecord, Label
    <3> QED BY <2>2, <2>3, <3>3, <3>4 DEF TruthInv
  <2>6. CASE Revalidate(p)
    <3>1. PICK covered \in BOOLEAN :
            mem' = [mem EXCEPT ![p] = WithTx(p, [Tx(p) EXCEPT !.anchored = covered])]
      BY <2>6 DEF Revalidate, AnchorCovers
    <3>2. /\ mem[p] \in File /\ Tx(p) \in Record /\ Tx(p).response = 0
          /\ pc[p] = "revalidating" /\ pc'[p] = "resuming"
      BY <1>a, <2>6, AtWork
      DEF Revalidate, Goto, SafeInv, TypeInv, TypeOK, FulfilmentInv, Stage,
          OnRecord, Label
    <3>3. Tx(p)' = [Tx(p) EXCEPT !.anchored = covered]
      <4>1. PICK s : s = [Tx(p) EXCEPT !.anchored = covered]
        OBVIOUS
      <4>2. WithTx(p, s).rec[KeyOf(p)] = s
        BY <1>a, <3>2 DEF WithTx, File
      <4>3. mem'[p] = WithTx(p, s)
        BY <3>1, <4>1 DEF SafeInv, TypeInv, TypeOK
      <4> QED BY <2>4, <4>1, <4>2, <4>3 DEF Tx
    <3>4. /\ Tx(p)'.state = Tx(p).state /\ Tx(p)'.req = Tx(p).req
          /\ Tx(p)'.settled = Tx(p).settled /\ Tx(p)'.response = 0
      BY <3>2, <3>3 DEF Record
    <3>5. CopyTrue(p)'
      BY <1>a, <2>4, <3>4 DEF CopyTrue, TruthInv
    <3>6. ResultTrue(p)'
      BY <1>a, <2>1, <2>4, <3>2, <3>4 DEF ResultTrue, TruthInv, Carrying, OnRecord, Label
    <3> QED BY <2>2, <2>3, <3>5, <3>6 DEF TruthInv
  <2> QED BY <1>6, <2>5, <2>6
<1> QED BY <1>1, <1>2, <1>3, <1>4, <1>5, <1>6, RunningCases

(* The steps around an operation, the deaths and the world.                *)
LEMMA TruthEnvelope ==
  ASSUME SafeInv, TruthInv, TypeInv', PastStep, NEW p \in Proc,
         \/ \E c \in Call : StartCall(p, c)
         \/ LockWaitFails(p) \/ Enter(p) \/ Return(p) \/ Crash(p)
         \/ GuardianEvent(p)
  PROVE  TruthInv'
<1>1. UNCHANGED <<disk, used, effects>> /\ Grown
  BY DEF StartCall, LockWaitFails, Enter, Return, Crash, GuardianEvent, worldVars,
         Grown, SafeInv, TypeInv, TypeOK
<1>2. ASSUME NEW k \in Key PROVE RecordTrue(k)'
  <2>1. CASE replies'[k] = replies[k]
    BY <1>1, <2>1, RecordKept
  <2>2. CASE replies'[k] # replies[k]
    <3>1. /\ k = KeyOf(p) /\ pc[p] = "done" /\ call[p].op = "invoke"
          /\ result[p] # 0
          /\ replies'[k] = replies[k] \cup {<<call[p].req, result[p]>>}
      BY <2>2 DEF StartCall, LockWaitFails, Enter, Return, Crash, GuardianEvent,
                  worldVars, SafeInv, TypeInv, TypeOK
    <3>2. disk.rec[k].req = call[p].req /\ disk.rec[k].response = result[p]
      BY <3>1 DEF TruthInv, ResultTrue, Own
    <3>3. RecordTrue(k)
      BY DEF TruthInv
    <3> QED BY <1>1, <3>1, <3>2, <3>3 DEF RecordTrue, Journalled, PaidOnChain, DiskReplayKey
  <2> QED BY <2>1, <2>2
<1>3. ASSUME NEW q \in Proc \ {p}
      PROVE  pc'[q] = pc[q] /\ mem'[q] = mem[q] /\ call'[q] = call[q]
               /\ result'[q] = result[q]
  BY DEF StartCall, LockWaitFails, Enter, Return, Crash, GuardianEvent, Goto,
         procVars, SafeInv, TypeInv, TypeOK
<1>4. CopyTrue(p)' /\ ResultTrue(p)'
  <2>1. CASE (\E c \in Call : StartCall(p, c)) \/ LockWaitFails(p) \/ Return(p) \/ Crash(p)
    <3>1. pc'[p] \in {"idle", "waiting"} /\ result'[p] = 0
      BY <2>1 DEF StartCall, LockWaitFails, Return, Crash, Goto, SafeInv, TypeInv,
                  TypeOK, TruthInv, ResultTrue, Carrying
    <3> QED BY <3>1 DEF CopyTrue, ResultTrue, Carrying, OnRecord
  <2>2. CASE Enter(p)
    <3>1. /\ pc'[p] = "begin" /\ result'[p] = 0 /\ mem'[p] = disk'
      BY <2>2 DEF Enter, Goto, SafeInv, TypeInv, TypeOK, TruthInv, ResultTrue, Carrying
    <3>2. Tx(p)' = Own(p)'
      BY <3>1 DEF Tx, Own
    <3> QED BY <3>1, <3>2 DEF CopyTrue, ResultTrue, Carrying, OnRecord
  <2>3. CASE GuardianEvent(p)
    BY <1>1, <2>3, ProcessKept DEF GuardianEvent, procVars
  <2> QED BY <2>1, <2>2, <2>3
<1> QED BY <1>1, <1>2, <1>3, <1>4, ProcessKept DEF TruthInv

LEMMA TruthNext ==
  ASSUME ExactOwnership, SafeInv, FulfilmentInv, TruthInv, [Next]_vars
  PROVE  TruthInv'
<1>1. TypeInv' /\ PastStep
  BY TypeNext, JournalNext DEF SafeInv
<1>2. CASE \E p \in Proc : \/ \E c \in Call : StartCall(p, c)
                           \/ Step(p) \/ Crash(p) \/ GuardianEvent(p)
  BY <1>1, <1>2, TruthEnvelope, TruthRunning DEF Step
<1>3. CASE (\E n \in Nonce : AuthorizationUsed(n)) \/ UNCHANGED vars
  <2>1. UNCHANGED <<disk, mem, pc, call, result, replies>> /\ Grown
    BY <1>3 DEF AuthorizationUsed, procVars, vars, Grown, SafeInv, TypeInv, TypeOK
  <2> QED BY <1>1, <2>1, RecordKept, ProcessKept DEF TruthInv
<1> QED BY <1>2, <1>3 DEF Next

LEMMA Truth ==
  ASSUME ExactOwnership PROVE Spec => [](SafeInv /\ FulfilmentInv /\ TruthInv)
<1>1. Init => FulfilmentInv /\ TruthInv
  BY FulfilmentInit, TruthInit
<1>2. SafeInv /\ FulfilmentInv /\ TruthInv /\ [Next]_vars => FulfilmentInv' /\ TruthInv'
  BY FulfilmentNext, TruthNext DEF SafeInv
<1> QED BY <1>1, <1>2, Safe, PTL DEF Spec

(* A fulfilled purchase was paid on chain and what it answers is the       *)
(* result of an execution that took effect: finalization commits only a    *)
(* settled record, and only a result that an executor or a witness showed  *)
(* (lib/gate1b-production-adapter.mjs, finalize).                          *)
THEOREM RealFulfilment == ASSUME ExactOwnership PROVE Spec => []FulfilledIsReal
<1>1. SafeInv /\ FulfilmentInv /\ TruthInv => FulfilledIsReal
  <2> SUFFICES ASSUME SafeInv, FulfilmentInv, TruthInv, NEW k \in Key,
                      disk.rec[k].state = "fulfilled"
               PROVE  PaidOnChain(k) /\ disk.rec[k].response \in 1 .. effects[k]
    BY DEF FulfilledIsReal
  <2>1. disk.rec[k].response # 0
    BY DEF FulfilmentInv, Whole, Unjournalled
  <2>2. PaidOnChain(k) /\ disk.rec[k].response <= effects[k]
    BY DEF TruthInv, RecordTrue
  <2>3. disk.rec[k].response \in Nat /\ effects[k] \in Nat
    BY Gate1BAssumption DEF SafeInv, TypeInv, TypeOK, File, Record, Result
  <2> QED BY <2>1, <2>2, <2>3
<1> QED BY <1>1, Truth, PTL

(* Every answer any process ever gave for a key is the stored response and *)
(* went to the request that the key is bound to, over retries, crashes,    *)
(* recoveries and processes with an old copy (the duplicate: true path).   *)
THEOREM AnswersAgree == ASSUME ExactOwnership PROVE Spec => []RepliesAgree
<1>1. TruthInv => RepliesAgree
  BY DEF TruthInv, RecordTrue, RepliesAgree
<1> QED BY <1>1, Truth, PTL

-----------------------------------------------------------------------------
(* Gate1B implements the ledger.                                           *)

(* What the ledger sees of a purchase.                                     *)
PaymentOf(k) == IF Journalled(k) THEN DiskReplayKey(k) ELSE NoRequest
AnswerOf(k) ==
  IF disk.rec[k].state = "fulfilled" THEN disk.rec[k].response ELSE NoRequest

LEMMA PhaseIs ==
  ASSUME NEW k \in Key
  PROVE  /\ disk.rec[k].state = "fulfilled" => Phase(k) = "fulfilled"
         /\ Journalled(k) /\ disk.rec[k].settled /\ disk.rec[k].state # "fulfilled"
              => Phase(k) = "paid"
         /\ Journalled(k) /\ ~disk.rec[k].settled /\ disk.rec[k].state # "fulfilled"
              => Phase(k) = "reserved"
         /\ ~Journalled(k) /\ ~disk.rec[k].settled => Phase(k) = "none"
BY DEF Phase, Journalled

LEMMA ViewKept ==
  ASSUME NEW k \in Key,
         \/ disk'.rec[k] = disk.rec[k]
         \/ /\ Journalled(k) /\ Journalled(k)'
            /\ disk'.rec[k].req = disk.rec[k].req
            /\ disk'.rec[k].settled = disk.rec[k].settled
            /\ disk.rec[k].state # "fulfilled" /\ disk'.rec[k].state # "fulfilled"
  PROVE  /\ Phase(k)' = Phase(k) /\ PaymentOf(k)' = PaymentOf(k)
         /\ AnswerOf(k)' = AnswerOf(k)
BY DEF Phase, PaymentOf, AnswerOf, Journalled, DiskReplayKey

LEMMA LedgerInitially ==
  ASSUME Init, SafeInv, TruthInv PROVE Ledger!LedgerInit
<1>1. \A k \in Key : disk.rec[k].state \in Unjournalled
  <2>1. PICK Old \in SUBSET LegacyKey : \E old \in [Old -> Request \X {0, 1}] :
          disk = [EmptyFile EXCEPT
                   !.rec = [k \in Key |-> IF k \in Old
                              THEN LegacyRecord(old[k][1], old[k][2])
                              ELSE EmptyRecord],
                   !.replay = {ReplayKeyOf[old[k][1].pay] : k \in Old}]
    BY DEF Init
  <2>2. PICK old \in [Old -> Request \X {0, 1}] :
          disk = [EmptyFile EXCEPT
                   !.rec = [k \in Key |-> IF k \in Old
                              THEN LegacyRecord(old[k][1], old[k][2])
                              ELSE EmptyRecord],
                   !.replay = {ReplayKeyOf[old[k][1].pay] : k \in Old}]
    BY <2>1
  <2> QED BY <2>2 DEF EmptyFile, LegacyRecord, EmptyRecord, Unjournalled
<1>2. \A k \in Key : ~Journalled(k) /\ ~disk.rec[k].settled
  BY <1>1 DEF Journalled, Unjournalled, TruthInv, RecordTrue
<1>3. \A k \in Key : Phase(k) = "none" /\ disk.rec[k].state # "fulfilled"
  BY <1>1, <1>2, PhaseIs DEF Unjournalled
<1> QED BY <1>2, <1>3 DEF Ledger!LedgerInit, Init

(* A durable write reserves, pays or answers one purchase, or the ledger   *)
(* does not see it.                                                        *)
LEMMA LedgerWrites ==
  ASSUME SafeInv, FulfilmentInv, TruthInv, NEW p \in Proc, NEW label \in Label,
         NEW r \in Result, Wrote(p, label, r)
  PROVE  [Ledger!LedgerNext]_(Ledger!ledgerVars)
<1>a. /\ guardian[p] = "holding" /\ pc[p] \notin {"idle", "waiting", "done"}
      /\ call' = call /\ used' = used
      /\ \A j \in Key \ {KeyOf(p)} : disk'.rec[j] = disk.rec[j]
  BY DEF Wrote, Within
<1>b. PICK k \in Key : k = KeyOf(p)
  BY <1>a, AtWork DEF SafeInv
<1>c. PICK old, new : old = disk.rec[k] /\ new = disk'.rec[k]
  OBVIOUS
<1>d. ASSUME NEW j \in Key \ {k}
      PROVE  /\ Phase(j)' = Phase(j) /\ PaymentOf(j)' = PaymentOf(j)
             /\ AnswerOf(j)' = AnswerOf(j)
  BY <1>a, <1>b, ViewKept
<1>e. /\ old.settled => Journalled(k)
      /\ Journalled(k) <=> old.state \notin Unjournalled
      /\ Journalled(k)' <=> new.state \notin Unjournalled
      /\ DiskReplayKey(k) = ReplayKeyOf[old.req.pay] /\ DiskReplayKey(k)' = ReplayKeyOf[new.req.pay]
      /\ PaymentOf(k) = IF Journalled(k) THEN DiskReplayKey(k) ELSE NoRequest
      /\ PaymentOf(k)' = IF Journalled(k)' THEN DiskReplayKey(k)' ELSE NoRequest
      /\ AnswerOf(k) = IF old.state = "fulfilled" THEN old.response ELSE NoRequest
      /\ AnswerOf(k)' = IF new.state = "fulfilled" THEN new.response ELSE NoRequest
      /\ Journalled(k) /\ old.response = 0 => old.state # "fulfilled"
  BY <1>c DEF FulfilmentInv, Whole, TruthInv, RecordTrue, Journalled, DiskReplayKey, Unjournalled, PaymentOf, AnswerOf
<1>f. /\ new.state = "fulfilled" => Phase(k)' = "fulfilled"
      /\ Journalled(k)' /\ new.settled /\ new.state # "fulfilled" => Phase(k)' = "paid"
      /\ Journalled(k)' /\ ~new.settled /\ new.state # "fulfilled" => Phase(k)' = "reserved"
  BY <1>c DEF Phase, Journalled
<1>1. CASE Reserves(p, old, new, label)
  <2>1. PICK n \in ReplayKey : n = ReplayKeyOf[new.req.pay]
    <3>1. call[p].req \in Request
      BY <1>a, <1>1, AtWork, CallFields DEF Reserves, SafeInv, TypeInv
    <3> QED BY <1>1, <3>1, RequestFields DEF Reserves
  <2>2. Phase(k) = "none" /\ Phase(k)' = "reserved" /\ PaymentOf(k)' = n
    <3>1. old.state = "absent" /\ ~old.settled
      BY <1>1 DEF Reserves, EmptyRecord
    <3> QED BY <1>1, <1>c, <1>e, <1>f, <2>1, <3>1, PhaseIs DEF Reserves, Unjournalled
  <2>3. AnswerOf(k)' = AnswerOf(k)
    BY <1>1, <1>e DEF Reserves, EmptyRecord
  <2>4. \A j \in Key : PaymentOf(j) # n
    BY <1>1, <2>1, Gate1BAssumption
    DEF Reserves, PaymentOf, SafeInv, JournalInv, ReplayInv
  <2>5. Ledger!Reserve(k, n)
    BY <1>a, <1>b, <1>d, <2>2, <2>3, <2>4 DEF Ledger!Reserve, PaymentOf, AnswerOf
  <2> QED BY <2>1, <2>5 DEF Ledger!LedgerNext
<1>2. CASE Journalled(k) /\ Pays(p, old, new, label) /\ ~old.settled
  <2>1. /\ Phase(k) = "reserved" /\ Phase(k)' = "paid"
        /\ PaymentOf(k)' = PaymentOf(k) /\ NonceOf[PaymentOf(k)] \in used
        /\ AnswerOf(k)' = AnswerOf(k)
    <3>1. old.state # "fulfilled"
      BY <1>2, <1>c DEF TruthInv, RecordTrue
    <3> QED BY <1>2, <1>c, <1>e, <1>f, <3>1, PhaseIs DEF Pays, Unjournalled
  <2>2. Ledger!Pay(k)
    BY <1>a, <1>b, <1>d, <2>1 DEF Ledger!Pay, PaymentOf, AnswerOf
  <2> QED BY <2>2 DEF Ledger!LedgerNext
<1>3. CASE Journalled(k) /\ Answers(p, old, new, label, r)
  <2>1. Phase(k) = "paid" /\ Phase(k)' = "fulfilled"
    <3>1. old.settled
      BY <1>3, <1>b, <1>c DEF Answers, TruthInv, ResultTrue, Own
    <3> QED BY <1>3, <1>c, <1>f, <3>1, PhaseIs DEF Answers
  <2>2. /\ PaymentOf(k)' = PaymentOf(k) /\ AnswerOf(k)' = r /\ r \in 1 .. MaxExec
    <3>1. r \in 1 .. MaxExec
      BY <1>3, Gate1BAssumption DEF Answers, Result
    <3> QED BY <1>3, <1>e, <3>1 DEF Answers, Unjournalled
  <2>3. Ledger!Fulfil(k, r)
    BY <1>a, <1>b, <1>d, <2>1, <2>2 DEF Ledger!Fulfil, PaymentOf, AnswerOf
  <2> QED BY <2>2, <2>3 DEF Ledger!LedgerNext
<1>4. CASE \/ new = old
           \/ /\ Journalled(k) /\ old.response = 0
              /\ \/ Pays(p, old, new, label) /\ old.settled
                 \/ Marks(p, old, new, label)
                 \/ Stages(p, old, new, label, r)
  <2>1. ASSUME NEW j \in Key
        PROVE  /\ Phase(j)' = Phase(j) /\ PaymentOf(j)' = PaymentOf(j)
               /\ AnswerOf(j)' = AnswerOf(j)
    <3>1. CASE j # k
      BY <1>d, <3>1
    <3>2. CASE j = k
      BY <1>4, <1>c, <1>e, <3>2, ViewKept DEF Pays, Marks, Stages, Unjournalled
    <3> QED BY <3>1, <3>2
  <2> QED BY <1>a, <2>1 DEF Ledger!ledgerVars, PaymentOf, AnswerOf
<1> QED BY <1>1, <1>2, <1>3, <1>4, <1>b, <1>c DEF Wrote

LEMMA LedgerSees ==
  ASSUME disk' = disk
  PROVE  /\ UNCHANGED <<[k \in Key |-> Phase(k)],
                        [k \in Key |-> IF Journalled(k) THEN DiskReplayKey(k) ELSE NoRequest],
                        [k \in Key |-> IF disk.rec[k].state = "fulfilled"
                                       THEN disk.rec[k].response ELSE NoRequest]>>
BY DEF Phase, Journalled, DiskReplayKey

LEMMA LedgerSteps ==
  ASSUME ExactOwnership, SafeInv, FulfilmentInv, TruthInv, [Next]_vars
  PROVE  [Ledger!LedgerNext]_(Ledger!ledgerVars)
<1>1. ASSUME UNCHANGED <<disk, used>> PROVE UNCHANGED Ledger!ledgerVars
  BY <1>1, LedgerSees DEF Ledger!ledgerVars
<1>2. ASSUME NEW p \in Proc,
             \/ \E c \in Call : StartCall(p, c)
             \/ LockWaitFails(p) \/ Enter(p) \/ Return(p) \/ Crash(p)
             \/ GuardianEvent(p)
      PROVE  UNCHANGED <<disk, used>>
  BY <1>2 DEF StartCall, LockWaitFails, Enter, Return, Crash, GuardianEvent, worldVars
<1>3. ASSUME NEW p \in Proc, InvokeStep(p) \/ RecoveryStep(p)
      PROVE  [Ledger!LedgerNext]_(Ledger!ledgerVars)
  <2>1. CASE \E label \in Label, r \in Result : Wrote(p, label, r)
    BY <2>1, LedgerWrites
  <2>2. CASE \/ Stopped(p) \/ \E label \in Label : Moved(p, label)
             \/ ReturnDuplicate(p) \/ Effect(p) \/ Rereads(p) \/ Revalidate(p)
    <3>1. UNCHANGED <<disk, used>>
      BY <2>2 DEF Stopped, Moved, ReturnDuplicate, Finish, Effect, Rereads,
                  Revalidate, worldVars
    <3> QED BY <1>1, <3>1
  <2> QED BY <1>3, <2>1, <2>2, RunningCases
<1>4. ASSUME NEW n \in Nonce, AuthorizationUsed(n)
      PROVE  [Ledger!LedgerNext]_(Ledger!ledgerVars)
  <2>1. Ledger!Use(n)
    BY <1>4, LedgerSees DEF AuthorizationUsed, Ledger!Use
  <2> QED BY <2>1 DEF Ledger!LedgerNext
<1>5. CASE UNCHANGED vars
  BY <1>1, <1>5 DEF vars
<1> QED BY <1>1, <1>2, <1>3, <1>4, <1>5 DEF Next, Step

(* Whatever processes, crashes and recoveries do to the file, its          *)
(* purchases are one ledger: a purchase reserves an authorization that no  *)
(* other has, is paid by its use on chain, and is answered once after      *)
(* that (lib/gate1b-production-adapter.mjs as PurchaseLedger sees it).     *)
THEOREM Implements == ASSUME ExactOwnership PROVE Spec => LedgerSpec
<1>1. Init /\ SafeInv /\ TruthInv => Ledger!LedgerInit
  BY LedgerInitially
<1>2. SafeInv /\ FulfilmentInv /\ TruthInv /\ [Next]_vars
        => [Ledger!LedgerNext]_(Ledger!ledgerVars)
  BY LedgerSteps
<1> QED BY <1>1, <1>2, Truth, PTL DEF Spec, LedgerSpec, Ledger!LedgerSpec

-----------------------------------------------------------------------------
(* No effect is repeated blindly.                                          *)

(* An operator asks a witness only about an execution that may have        *)
(* happened, or about one whose result is durable.                         *)
RecoverKnown ==
  RecoverFrom \subseteq Doubtful \cup {"finalization_pending", "fulfilled"}

LEMMA RepeatInit == ASSUME Init PROVE RepeatInv
<1>1. \A k \in Key : RecordRepeat(k)
  BY Initially DEF RecordRepeat, Harmless, Unjournalled
<1> QED BY <1>1, Initially DEF RepeatInv, ProcessRepeat

(* As no guardian dies alone, whoever is under the lock has it, and its    *)
(* copy of the record is the record.                                       *)
LEMMA OneWithin ==
  ASSUME ~GuardianMayDie, SafeInv, NEW p \in Proc, pc[p] \notin {"idle", "waiting"}
  PROVE  /\ guardian[p] = "holding"
         /\ \A q \in Proc \ {p} : pc[q] \in {"idle", "waiting"}
BY DEF SafeInv, LockInv

LEMMA RepeatKept ==
  ASSUME SafeInv, RepeatInv, NEW q \in Proc, UNCHANGED <<disk, effects>>,
         pc'[q] = pc[q], call'[q] = call[q], result'[q] = result[q]
  PROVE  ProcessRepeat(q)'
<1>1. KeyOf(q)' = KeyOf(q) /\ Own(q)' = Own(q)
  BY DEF KeyOf, Own
<1> QED BY <1>1 DEF RepeatInv, ProcessRepeat, Harmless

(* The steps that leave the file and the effects alone.                    *)
LEMMA RepeatQuiet ==
  ASSUME SafeInv, RepeatInv, NEW p \in Proc, NEW label, NEW r,
         pc[p] \notin {"idle", "waiting"},
         pc' = [pc EXCEPT ![p] = label], result' = [result EXCEPT ![p] = r],
         UNCHANGED <<disk, call, effects>>,
         label \in {"intent", "settling", "reconciling"} =>
           Own(p).state \in {"settlement_unknown", "unresolved"},
         label = "paid" =>
           Own(p).state \in {"pending_fulfillment", "claimed", "finalization_pending"},
         label \notin {"claimed", "executing"},
         label \in {"witness", "revalidating", "resuming"} => call[p].op = "recover",
         label \in {"revalidating", "resuming"} => Harmless(KeyOf(p)),
         label \in {"known", "finalizing"} => Own(p).result # 0
  PROVE  RepeatInv'
<1>1. \A k \in Key : RecordRepeat(k)'
  BY DEF RepeatInv, RecordRepeat, Harmless
<1>2. \A q \in Proc \ {p} : ProcessRepeat(q)'
  BY RepeatKept DEF SafeInv, TypeInv, TypeOK
<1>3. ProcessRepeat(p)'
  <2>1. /\ pc'[p] = label /\ Own(p)' = Own(p) /\ call'[p] = call[p]
        /\ Harmless(KeyOf(p))' = Harmless(KeyOf(p))
    BY DEF SafeInv, TypeInv, TypeOK, KeyOf, Own, Harmless
  <2> QED BY <2>1 DEF RepeatInv, ProcessRepeat
<1> QED BY <1>1, <1>2, <1>3 DEF RepeatInv

LEMMA RepeatWrites ==
  ASSUME ~GuardianMayDie, SafeInv, TruthInv, RepeatInv, NEW p \in Proc,
         NEW label \in Label, NEW r \in Result, Wrote(p, label, r)
  PROVE  RepeatInv'
<1>a. /\ pc[p] \notin {"idle", "waiting", "done"}
      /\ pc' = [pc EXCEPT ![p] = label] /\ result' = [result EXCEPT ![p] = r]
      /\ UNCHANGED <<call, effects>>
      /\ \A j \in Key \ {KeyOf(p)} : disk'.rec[j] = disk.rec[j]
  BY DEF Wrote, Within
<1>b. PICK k, old, new :
        /\ k \in Key /\ k = KeyOf(p)
        /\ old = disk.rec[k] /\ new = disk'.rec[k] /\ old = Own(p)
  BY <1>a, AtWork DEF SafeInv, Own
<1>c. /\ old.state \notin Doubtful => effects[k] = 0 \/ old.result # 0
      /\ old.state \in {"finalization_pending", "fulfilled"} => old.result # 0
      /\ pc[p] \in {"intent", "settling", "reconciling"} =>
           old.state \in {"settlement_unknown", "unresolved"}
      /\ pc[p] = "paid" =>
           old.state \in {"pending_fulfillment", "claimed", "finalization_pending"}
      /\ pc[p] = "claimed" => old.state = "claimed"
      /\ pc[p] \in {"known", "finalizing"} => old.result # 0
  BY <1>b DEF RepeatInv, RecordRepeat, ProcessRepeat, Harmless
<1>d. \/ r = 0 /\ Reserves(p, old, new, label)
      \/ r = 0 /\ Pays(p, old, new, label)
      \/ r = 0 /\ Marks(p, old, new, label)
      \/ Stages(p, old, new, label, r)
      \/ Answers(p, old, new, label, r)
      \/ label = "done" /\ new = old
  BY <1>b DEF Wrote
<1>1. /\ new.state \notin Doubtful => effects[k] = 0 \/ new.result # 0
      /\ new.state \in {"finalization_pending", "fulfilled"} => new.result # 0
  BY <1>c, <1>d DEF Reserves, Pays, Marks, Stages, Answers, Doubtful, EmptyRecord
<1>2. old.result # 0 \/ old.state \in Doubtful =>
        new.result # 0 \/ new.state \in Doubtful
  BY <1>c, <1>d DEF Reserves, Pays, Marks, Stages, Answers, Doubtful, EmptyRecord
<1>3. /\ label \in {"intent", "settling", "reconciling"} =>
           new.state \in {"settlement_unknown", "unresolved"}
      /\ label = "paid" => new.state = "pending_fulfillment"
      /\ label = "claimed" => new.state = "claimed"
      /\ label = "executing" => /\ new.state = "executing"
                                /\ effects[k] = 0 \/ new.result # 0
      /\ label \notin {"witness", "revalidating", "resuming"}
      /\ label \in {"known", "finalizing"} => new.result # 0
  BY <1>c, <1>d DEF Reserves, Pays, Marks, Stages, Answers, Doubtful
<1>4. \A j \in Key : RecordRepeat(j)'
  BY <1>a, <1>b, <1>1 DEF RepeatInv, RecordRepeat, Harmless
<1>5. ASSUME NEW q \in Proc \ {p} PROVE ProcessRepeat(q)'
  <2>1. pc[q] \in {"idle", "waiting"} /\ pc'[q] = pc[q] /\ call'[q] = call[q]
    BY <1>a, OneWithin DEF SafeInv, TypeInv, TypeOK
  <2>2. CASE pc[q] = "idle"
    BY <2>1, <2>2 DEF ProcessRepeat
  <2>3. CASE pc[q] = "waiting"
    <3>1. KeyOf(q) \in Key /\ Own(q) = disk.rec[KeyOf(q)] /\ Own(q)' = disk'.rec[KeyOf(q)]
      BY <2>1, <2>3, AtWork DEF SafeInv, KeyOf, Own
    <3>2. Own(q).result # 0 \/ Own(q).state \in Doubtful =>
            Own(q)'.result # 0 \/ Own(q)'.state \in Doubtful
      BY <1>a, <1>b, <1>2, <3>1
    <3> QED BY <2>1, <2>3, <3>2 DEF RepeatInv, ProcessRepeat
  <2> QED BY <2>1, <2>2, <2>3
<1>6. ProcessRepeat(p)'
  <2>1. /\ pc'[p] = label /\ Own(p)' = new /\ call'[p] = call[p] /\ KeyOf(p)' = k
        /\ effects' = effects /\ disk'.rec[k] = new
    BY <1>a, <1>b DEF SafeInv, TypeInv, TypeOK, KeyOf, Own
  <2>2. call[p].op = "recover" => old.result # 0 \/ old.state \in Doubtful
    BY <1>a, <1>b DEF RepeatInv, ProcessRepeat
  <2> QED BY <1>2, <1>3, <2>1, <2>2 DEF ProcessRepeat, Harmless
<1> QED BY <1>4, <1>5, <1>6 DEF RepeatInv

LEMMA RepeatRunning ==
  ASSUME ~GuardianMayDie, SafeInv, FulfilmentInv, TruthInv, RepeatInv,
         NEW p \in Proc, InvokeStep(p) \/ RecoveryStep(p)
  PROVE  /\ RepeatInv'
         /\ \A k \in Key : effects[k] > 0 /\ disk.rec[k].result = 0 =>
              effects'[k] = effects[k]
<1>a. /\ pc[p] \in Within /\ pc[p] \notin {"idle", "waiting"}
      /\ KeyOf(p) \in Key /\ call[p] \in Call /\ guardian[p] = "holding"
  BY RunningStep, AtWork, OneWithin DEF SafeInv, Within
<1>b. /\ pc[p] # "done" => Tx(p).state = Own(p).state
      /\ pc[p] \notin Carrying \cup {"done"} => result[p] = 0
  BY <1>a, OwnerRecord DEF TruthInv, ResultTrue
<1>c. ExactOwnership
  BY DEF ExactOwnership
<1>1. CASE \E label \in Label, r \in Result : Wrote(p, label, r)
  <2>1. RepeatInv'
    BY <1>1, RepeatWrites
  <2>2. effects' = effects
    BY <1>1 DEF Wrote
  <2> QED BY <2>1, <2>2
<1>2. CASE Stopped(p) \/ ReturnDuplicate(p)
  <2>1. PICK r : result' = [result EXCEPT ![p] = r]
    BY <1>2 DEF Stopped, ReturnDuplicate, Finish
  <2>2. UNCHANGED <<disk, call, effects>>
    BY <1>2 DEF Stopped, ReturnDuplicate, Finish, worldVars
  <2>3. PICK label \in Label :
          /\ pc' = [pc EXCEPT ![p] = label]
          /\ label \notin {"intent", "settling", "reconciling", "paid", "claimed",
                           "executing", "witness", "revalidating", "resuming",
                           "known", "finalizing"}
    BY <1>2 DEF Stopped, ReturnDuplicate, Finish, Goto, Label
  <2>4. RepeatInv'
    BY <1>a, <2>1, <2>2, <2>3, RepeatQuiet
  <2> QED BY <2>2, <2>4
<1>3. CASE \E label \in Label : Moved(p, label)
  <2>1. PICK label \in Label : Moved(p, label)
    BY <1>3
  <2>2. /\ pc' = [pc EXCEPT ![p] = label]
        /\ result' = [result EXCEPT ![p] = result[p]]
        /\ UNCHANGED <<disk, call, effects>>
    BY <2>1 DEF Moved, SafeInv, TypeInv, TypeOK
  <2>3. /\ label \in {"intent", "settling", "reconciling"} =>
             Own(p).state \in {"settlement_unknown", "unresolved"}
        /\ label = "paid" =>
             Own(p).state \in {"pending_fulfillment", "claimed", "finalization_pending"}
        /\ label \notin {"claimed", "executing", "known", "finalizing", "resuming"}
        /\ label \in {"witness", "revalidating"} => call[p].op = "recover"
        /\ label = "revalidating" => Harmless(KeyOf(p))
    BY <1>b, <2>1 DEF Moved, Retrying, Invoking, Recovering, Harmless,
                      RepeatInv, ProcessRepeat
  <2>4. RepeatInv'
    BY <1>a, <2>2, <2>3, RepeatQuiet
  <2> QED BY <2>2, <2>4
<1>4. CASE Effect(p)
  <2>1. /\ pc[p] \in {"executing", "resuming"} /\ result[p] = 0
        /\ UNCHANGED <<disk, pc, call>>
        /\ \A q \in Proc \ {p} : result'[q] = result[q]
        /\ \A k \in Key \ {KeyOf(p)} : effects'[k] = effects[k]
        /\ result'[p] # 0
    BY <1>a, <1>4 DEF Effect, SafeInv, TypeInv, TypeOK
  <2>2. /\ Harmless(KeyOf(p))
        /\ Own(p).result # 0 \/ Own(p).state \in Doubtful
    BY <1>a, <2>1 DEF RepeatInv, ProcessRepeat, Doubtful
  <2>3. \A k \in Key : RecordRepeat(k)'
    BY <2>1, <2>2 DEF RepeatInv, RecordRepeat, Harmless, Own
  <2>4. ASSUME NEW q \in Proc PROVE ProcessRepeat(q)'
    <3>1. Own(q)' = Own(q)
      BY <2>1 DEF Own, KeyOf
    <3>2. q # p => pc[q] \in {"idle", "waiting"}
      BY <1>a, OneWithin
    <3> QED BY <2>1, <3>1, <3>2 DEF RepeatInv, ProcessRepeat
  <2>5. effects[KeyOf(p)] > 0 => disk.rec[KeyOf(p)].result # 0
    BY <1>a, <2>2 DEF Harmless
  <2> QED BY <2>1, <2>3, <2>4, <2>5 DEF RepeatInv
<1>5. CASE Rereads(p) \/ Revalidate(p)
  <2>1. result' = [result EXCEPT ![p] = result[p]] /\ UNCHANGED <<disk, call, effects>>
    BY <1>5 DEF Rereads, Revalidate, worldVars, SafeInv, TypeInv, TypeOK
  <2>2. CASE Rereads(p)
    <3>1. pc[p] = "known" /\ pc' = [pc EXCEPT ![p] = "finalizing"]
      BY <2>2 DEF Rereads
    <3>2. Own(p).result # 0
      BY <3>1 DEF RepeatInv, ProcessRepeat
    <3>3. RepeatInv'
      BY <1>a, <2>1, <3>1, <3>2, RepeatQuiet
    <3> QED BY <2>1, <3>3
  <2>3. CASE Revalidate(p)
    <3>1. pc[p] = "revalidating" /\ pc' = [pc EXCEPT ![p] = "resuming"]
      BY <2>3 DEF Revalidate, Goto
    <3>2. call[p].op = "recover" /\ Harmless(KeyOf(p))
      BY <1>b, <3>1 DEF Carrying, RepeatInv, ProcessRepeat
    <3>3. RepeatInv'
      BY <1>a, <2>1, <3>1, <3>2, RepeatQuiet
    <3> QED BY <2>1, <3>3
  <2> QED BY <1>5, <2>2, <2>3
<1> QED BY <1>c, <1>1, <1>2, <1>3, <1>4, <1>5, RunningCases

LEMMA RepeatEnvelope ==
  ASSUME RecoverKnown, SafeInv, RepeatInv, NEW p \in Proc,
         \/ \E c \in Call : StartCall(p, c)
         \/ LockWaitFails(p) \/ Enter(p) \/ Return(p) \/ Crash(p)
         \/ GuardianEvent(p)
  PROVE  RepeatInv' /\ effects' = effects
<1>1. UNCHANGED <<disk, effects>>
  BY DEF StartCall, LockWaitFails, Enter, Return, Crash, GuardianEvent, worldVars
<1>2. \A q \in Proc \ {p} : /\ pc'[q] = pc[q] /\ call'[q] = call[q]
                            /\ result'[q] = result[q]
  BY DEF StartCall, LockWaitFails, Enter, Return, Crash, GuardianEvent, Goto,
         procVars, SafeInv, TypeInv, TypeOK
<1>3. \A k \in Key : RecordRepeat(k)'
  BY <1>1 DEF RepeatInv, RecordRepeat, Harmless
<1>4. \A q \in Proc \ {p} : ProcessRepeat(q)'
  BY <1>1, <1>2, RepeatKept
<1>5. ProcessRepeat(p)'
  <2>1. CASE LockWaitFails(p) \/ Return(p) \/ Crash(p)
    <3>1. pc'[p] = "idle"
      BY <2>1 DEF LockWaitFails, Return, Crash, Goto, SafeInv, TypeInv, TypeOK
    <3> QED BY <3>1 DEF ProcessRepeat
  <2>2. CASE \E c \in Call : StartCall(p, c)
    <3>1. PICK c \in Call : StartCall(p, c)
      BY <2>2
    <3>2. /\ pc'[p] = "waiting" /\ call'[p] = c /\ c.key \in Key
          /\ c.op = "recover" => disk.rec[c.key].state \in RecoverFrom
      BY <3>1, CallFields DEF StartCall, Goto, SafeInv, TypeInv, TypeOK
    <3>3. c.op = "recover" =>
            disk.rec[c.key].result # 0 \/ disk.rec[c.key].state \in Doubtful
      BY <3>2 DEF RecoverKnown, RepeatInv, RecordRepeat
    <3> QED BY <1>1, <3>2, <3>3 DEF ProcessRepeat, Own, KeyOf
  <2>3. CASE Enter(p)
    <3>1. pc[p] = "waiting" /\ pc'[p] = "begin" /\ call' = call
      BY <2>3 DEF Enter, Goto, SafeInv, TypeInv, TypeOK
    <3> QED BY <1>1, <3>1 DEF RepeatInv, ProcessRepeat, Own, KeyOf
  <2>4. CASE GuardianEvent(p)
    BY <1>1, <2>4, RepeatKept DEF GuardianEvent, procVars
  <2> QED BY <2>1, <2>2, <2>3, <2>4
<1> QED BY <1>1, <1>3, <1>4, <1>5 DEF RepeatInv

NoRepeatStep ==
  \A k \in Key :
    effects[k] > 0 /\ disk.rec[k].result = 0 => effects'[k] = effects[k]

LEMMA RepeatNext ==
  ASSUME ~GuardianMayDie, RecoverKnown, SafeInv, FulfilmentInv, TruthInv,
         RepeatInv, [Next]_vars
  PROVE  RepeatInv' /\ NoRepeatStep
<1>1. CASE \E p \in Proc : \/ \E c \in Call : StartCall(p, c)
                           \/ Step(p) \/ Crash(p) \/ GuardianEvent(p)
  BY <1>1, RepeatEnvelope, RepeatRunning DEF Step, NoRepeatStep
<1>2. CASE (\E n \in Nonce : AuthorizationUsed(n)) \/ UNCHANGED vars
  <2>1. UNCHANGED <<disk, pc, call, result, effects>>
    BY <1>2 DEF AuthorizationUsed, procVars, vars
  <2> QED BY <2>1, RepeatKept DEF RepeatInv, RecordRepeat, Harmless, NoRepeatStep
<1> QED BY <1>1, <1>2 DEF Next

(* An execution whose result is not durable is never run again, whatever   *)
(* retries, crashes and witnesses follow: only a record that says          *)
(* executing or execution_unknown can hide an effect, a retry stops there, *)
(* and the executor a witness resumes runs only if there was no effect.    *)
THEOREM NoRepeat ==
  ASSUME ~GuardianMayDie, RecoverKnown PROVE Spec => NoBlindRepeat
<1>1. Init => RepeatInv
  BY RepeatInit
<1>2. SafeInv /\ FulfilmentInv /\ TruthInv /\ RepeatInv /\ [Next]_vars
        => RepeatInv' /\ NoRepeatStep
  BY RepeatNext
<1>3. Spec => [](SafeInv /\ FulfilmentInv /\ TruthInv)
  BY Truth DEF ExactOwnership
<1>4. Spec => [][NoRepeatStep]_vars
  BY <1>1, <1>2, <1>3, PTL DEF Spec
<1> QED BY <1>4 DEF NoBlindRepeat, NoRepeatStep

=============================================================================
