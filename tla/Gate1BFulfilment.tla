-------------------------- MODULE Gate1BFulfilment --------------------------
(***************************************************************************)
(* A fulfilment is in the file with all its parts or not at all, for any   *)
(* processes, keys, payments and bounds, and without ExactOwnership: even  *)
(* a process that overwrites what the next owner of the lock has written   *)
(* writes a whole file.                                                    *)
(*                                                                         *)
(* The property is one of files, so the invariant says of the durable file *)
(* and of every copy in memory that it is Whole: the parts agree, and the  *)
(* ids of its purchases are distinct and already drawn.  A file stays      *)
(* Whole when a record that is not fulfilled changes without becoming so,  *)
(* and when a record becomes fulfilled together with all its parts.        *)
(*                                                                         *)
(* In the same way, and with as little assumed, a record in a state that   *)
(* leads to an execution is Backed: its payment is on chain, or it was     *)
(* executed already.  So only a recovery executes what nobody paid.        *)
(***************************************************************************)
EXTENDS Gate1BProofs

Ids(f) == {f.rec[k].id : k \in {j \in Key : f.rec[j].state = "fulfilled"}}

Whole(f, u) ==
  /\ \A k \in Key : f.rec[k].state \notin Unjournalled =>
       /\ f.rec[k].id # 0 /\ f.rec[k].id <= u
       /\ f.rec[k].response # 0 <=> f.rec[k].state = "fulfilled"
       /\ f.rec[k].state = "fulfilled" =>
            /\ f.receipts[f.rec[k].id] = f.rec[k].response
            /\ ReplayKeyOf[f.rec[k].req.pay] \in f.spent
  /\ \A j, k \in Key :
       /\ f.rec[j].state \notin Unjournalled /\ f.rec[k].state \notin Unjournalled
       /\ f.rec[j].id = f.rec[k].id
       => j = k
  /\ f.entitlements = Ids(f)
  /\ f.revenue = Ids(f)
  /\ {i \in Id : f.receipts[i] # 0} = Ids(f)

(* What an operation knows of the record it works on; at "finalizing" the  *)
(* file was just read again and may say anything.                          *)
Stage(p) ==
  /\ pc[p] = "verifying" => Tx(p).state = "absent"
  /\ pc[p] \in OnRecord \ {"finalizing"} => Tx(p).response = 0
  /\ pc[p] \in {"known", "finalizing"} => result[p] # 0

FulfilmentInv ==
  /\ Whole(disk, uuid)
  /\ \A p \in Proc : Whole(mem[p], uuid) /\ Stage(p)

-----------------------------------------------------------------------------
(* Facts about files.                                                      *)

LEMMA WholeEmpty == ASSUME NEW u PROVE Whole(EmptyFile, u)
BY DEF Whole, EmptyFile, EmptyRecord, Unjournalled, Ids

LEMMA WholeLater ==
  ASSUME NEW f \in File, NEW u \in Id, NEW v \in Id, u <= v, Whole(f, u)
  PROVE  Whole(f, v)
<1>1. \A k \in Key : f.rec[k].id \in Nat
  BY DEF File, Record, Id
<1> QED BY <1>1 DEF Whole, Id

(* A record that is not fulfilled changes and keeps its id, or is given    *)
(* the id drawn just now.                                                  *)
LEMMA WholeRecord ==
  ASSUME NEW f \in File, NEW g \in File, NEW k \in Key, NEW u \in Id, NEW v \in Id,
         u <= v, Whole(f, u), f.rec[k].state # "fulfilled",
         g.rec[k].state \notin Unjournalled, g.rec[k].state # "fulfilled",
         g.rec[k].response = 0,
         \/ f.rec[k].state \notin Unjournalled /\ g.rec[k].id = f.rec[k].id
         \/ g.rec[k].id = v /\ u < v,
         \A j \in Key \ {k} : g.rec[j] = f.rec[j],
         g.spent = f.spent, g.entitlements = f.entitlements,
         g.receipts = f.receipts, g.revenue = f.revenue
  PROVE  Whole(g, v)
<1>1. \A j \in Key : f.rec[j].id \in Nat /\ g.rec[j].id \in Nat
  BY DEF File, Record, Id
<1>2. Ids(g) = Ids(f)
  BY DEF Ids
<1>3. ASSUME NEW j \in Key, g.rec[j].state \notin Unjournalled
      PROVE  /\ g.rec[j].id # 0 /\ g.rec[j].id <= v
             /\ g.rec[j].response # 0 <=> g.rec[j].state = "fulfilled"
             /\ g.rec[j].state = "fulfilled" =>
                  /\ g.receipts[g.rec[j].id] = g.rec[j].response
                  /\ ReplayKeyOf[g.rec[j].req.pay] \in g.spent
  <2>1. CASE j = k
    BY <1>1, <1>3, <2>1 DEF Whole, Id
  <2>2. CASE j # k
    BY <1>1, <1>3, <2>2 DEF Whole, Id
  <2> QED BY <2>1, <2>2
<1>4. ASSUME NEW i \in Key, NEW j \in Key, g.rec[i].state \notin Unjournalled,
             g.rec[j].state \notin Unjournalled, g.rec[i].id = g.rec[j].id
      PROVE  i = j
  <2>1. CASE f.rec[k].state \notin Unjournalled /\ g.rec[k].id = f.rec[k].id
    BY <1>4, <2>1 DEF Whole
  <2>2. CASE g.rec[k].id = v /\ u < v
    <3>1. \A h \in Key \ {k} : g.rec[h].state \notin Unjournalled => g.rec[h].id <= u
      BY DEF Whole
    <3>2. \A h \in Key \ {k} : g.rec[h].state \notin Unjournalled => g.rec[h].id # v
      BY <1>1, <2>2, <3>1 DEF Id
    <3> QED BY <1>4, <2>2, <3>2 DEF Whole
  <2> QED BY <2>1, <2>2
<1> QED BY <1>2, <1>3, <1>4 DEF Whole

(* A record becomes fulfilled together with all its parts.                 *)
LEMMA WholeFulfilled ==
  ASSUME NEW f \in File, NEW g \in File, NEW k \in Key, NEW u \in Id, Whole(f, u),
         f.rec[k].state \notin Unjournalled, f.rec[k].state # "fulfilled",
         g.rec[k].state = "fulfilled", g.rec[k].response # 0,
         g.rec[k].id = f.rec[k].id, g.rec[k].req = f.rec[k].req,
         \A j \in Key \ {k} : g.rec[j] = f.rec[j],
         g.spent = f.spent \cup {ReplayKeyOf[f.rec[k].req.pay]},
         g.entitlements = f.entitlements \cup {f.rec[k].id},
         g.revenue = f.revenue \cup {f.rec[k].id},
         g.receipts = [f.receipts EXCEPT ![f.rec[k].id] = g.rec[k].response]
  PROVE  Whole(g, u)
<1> DEFINE id == f.rec[k].id
<1>1. /\ id \in Id
      /\ \A j \in Key : f.rec[j].id \in Id
      /\ f.receipts \in [Id -> Result]
  BY DEF File, Record
<1>2. /\ g.receipts[id] = g.rec[k].response
      /\ \A i \in Id \ {id} : g.receipts[i] = f.receipts[i]
  BY <1>1
<1>3. Ids(g) = Ids(f) \cup {id}
  BY DEF Ids
<1>4. \A j \in Key \ {k} : f.rec[j].state \notin Unjournalled => f.rec[j].id # id
  BY DEF Whole
<1>5. {i \in Id : g.receipts[i] # 0} = Ids(g)
  <2>1. \A i \in Id : g.receipts[i] # 0 <=> i = id \/ f.receipts[i] # 0
    BY <1>1, <1>2
  <2> QED BY <1>1, <1>3, <2>1 DEF Whole
<1>6. ASSUME NEW j \in Key, g.rec[j].state \notin Unjournalled
      PROVE  /\ g.rec[j].id # 0 /\ g.rec[j].id <= u
             /\ g.rec[j].response # 0 <=> g.rec[j].state = "fulfilled"
             /\ g.rec[j].state = "fulfilled" =>
                  /\ g.receipts[g.rec[j].id] = g.rec[j].response
                  /\ ReplayKeyOf[g.rec[j].req.pay] \in g.spent
  <2>1. CASE j = k
    BY <1>1, <1>2, <2>1 DEF Whole
  <2>2. CASE j # k
    <3>1. g.rec[j] = f.rec[j] /\ f.rec[j].id \in Id \ {id}
      BY <1>1, <1>4, <1>6, <2>2
    <3> QED BY <1>2, <1>6, <3>1 DEF Whole
  <2> QED BY <2>1, <2>2
<1>7. ASSUME NEW i \in Key, NEW j \in Key, g.rec[i].state \notin Unjournalled,
             g.rec[j].state \notin Unjournalled, g.rec[i].id = g.rec[j].id
      PROVE  i = j
  BY <1>7 DEF Whole
<1> QED BY <1>3, <1>5, <1>6, <1>7 DEF Whole

-----------------------------------------------------------------------------
(* The steps.                                                              *)

LEMMA FulfilmentInit == Init => FulfilmentInv
<1> SUFFICES ASSUME Init PROVE FulfilmentInv
  OBVIOUS
<1>1. PICK Old \in SUBSET LegacyKey : \E old \in [Old -> Request \X {0, 1}] :
        disk = [EmptyFile EXCEPT
                 !.rec = [k \in Key |-> IF k \in Old
                            THEN LegacyRecord(old[k][1], old[k][2])
                            ELSE EmptyRecord],
                 !.replay = {ReplayKeyOf[old[k][1].pay] : k \in Old}]
  BY DEF Init
<1>2. PICK old \in [Old -> Request \X {0, 1}] :
        disk = [EmptyFile EXCEPT
                 !.rec = [k \in Key |-> IF k \in Old
                            THEN LegacyRecord(old[k][1], old[k][2])
                            ELSE EmptyRecord],
                 !.replay = {ReplayKeyOf[old[k][1].pay] : k \in Old}]
  BY <1>1
<1>3. \A k \in Key : disk.rec[k].state \in Unjournalled
  BY <1>2 DEF EmptyFile, LegacyRecord, EmptyRecord, Unjournalled
<1>4. Ids(disk) = {}
  BY <1>3 DEF Ids, Unjournalled
<1>5. /\ disk.entitlements = {} /\ disk.revenue = {}
      /\ disk.receipts = [i \in Id |-> 0]
  BY <1>2 DEF EmptyFile
<1>6. Whole(disk, uuid)
  BY <1>3, <1>4, <1>5 DEF Whole
<1>7. \A p \in Proc : mem[p] = EmptyFile /\ pc[p] = "idle"
  BY DEF Init
<1> QED BY <1>6, <1>7, WholeEmpty DEF FulfilmentInv, Stage, OnRecord

(* A step of p that writes nothing durable and leaves p with a whole copy. *)
LEMMA MemoryStep ==
  ASSUME TypeInv, FulfilmentInv, NEW p \in Proc, NEW f, NEW label, NEW r,
         mem' = [mem EXCEPT ![p] = f], Whole(f, uuid),
         pc' = [pc EXCEPT ![p] = label], result' = [result EXCEPT ![p] = r],
         \A q \in Proc \ {p} : call'[q] = call[q],
         UNCHANGED <<disk, uuid>>,
         Stage(p)'
  PROVE  FulfilmentInv'
<1>1. \A q \in Proc \ {p} : mem'[q] = mem[q] /\ Stage(q)'
  BY DEF FulfilmentInv, Stage, Tx, KeyOf, TypeInv, TypeOK
<1>2. mem'[p] = f
  BY DEF TypeInv, TypeOK
<1> QED BY <1>1, <1>2 DEF FulfilmentInv

(* A durable write of a whole file.                                        *)
LEMMA PersistWhole ==
  ASSUME TypeInv, FulfilmentInv, NEW p \in Proc, NEW f \in File, NEW label \in Label,
         NEW r \in Result, Persist(p, f, label, r), UNCHANGED call,
         uuid' \in Id, uuid <= uuid', Whole(f, uuid'), label # "verifying",
         label \in OnRecord \ {"finalizing"} => f.rec[KeyOf(p)].response = 0,
         label \in {"known", "finalizing"} => r # 0
  PROVE  FulfilmentInv'
<1>1. \A g \in File : Whole(g, uuid) => Whole(g, uuid')
  BY WholeLater DEF TypeInv, TypeOK
<1>2. \A q \in Proc \ {p} : mem'[q] = mem[q] /\ Stage(q)'
  BY DEF Persist, Goto, FulfilmentInv, Stage, Tx, KeyOf, TypeInv, TypeOK
<1>3. CASE AssertOwned(p)
  <2>1. /\ disk' = f /\ mem'[p] = f
        /\ pc'[p] = label /\ result'[p] = r
    BY <1>3 DEF Persist, Goto, TypeInv, TypeOK
  <2>2. Stage(p)'
    BY <2>1 DEF Stage, Tx, KeyOf
  <2> QED BY <1>1, <1>2, <2>1, <2>2 DEF FulfilmentInv, TypeInv, TypeOK
<1>4. CASE ~AssertOwned(p)
  <2>1. /\ disk' = disk /\ mem' = mem /\ pc'[p] = "done"
    BY <1>4 DEF Persist, Goto, TypeInv, TypeOK
  <2>2. Stage(p)'
    BY <2>1 DEF Stage, OnRecord
  <2> QED BY <1>1, <1>2, <2>1, <2>2 DEF FulfilmentInv, TypeInv, TypeOK
<1> QED BY <1>3, <1>4

(* A durable write of the operation's own record, which does not become    *)
(* fulfilled by it.                                                        *)
LEMMA SaveRecordWhole ==
  ASSUME TypeInv, FulfilmentInv, NEW p \in Proc, NEW s \in Record,
         NEW label \in Label, NEW r \in Result, pc[p] # "idle",
         Tx(p).state \notin Unjournalled, Tx(p).response = 0,
         Persist(p, WithTx(p, s), label, r), UNCHANGED call,
         uuid' \in Id, uuid <= uuid',
         s.state \notin Unjournalled \cup {"fulfilled"}, s.req = Tx(p).req,
         s.id = Tx(p).id, s.response = 0, label \notin {"verifying", "finalizing"},
         label = "known" => r # 0
  PROVE  FulfilmentInv'
<1> DEFINE f == WithTx(p, s)
<1>1. s.req \in Request
  BY AtWork DEF Unjournalled
<1>2. /\ mem[p] \in File /\ KeyOf(p) \in Key /\ Whole(mem[p], uuid)
      /\ WellFormed(mem[p]) /\ uuid \in Id
  BY AtWork DEF FulfilmentInv, TypeInv, TypeOK
<1>3. /\ f \in File /\ f.rec[KeyOf(p)] = s
      /\ \A j \in Key \ {KeyOf(p)} : f.rec[j] = mem[p].rec[j]
  BY <1>1, <1>2, WithRecord DEF WithTx
<1>4. /\ f.spent = mem[p].spent /\ f.entitlements = mem[p].entitlements
      /\ f.receipts = mem[p].receipts /\ f.revenue = mem[p].revenue
  BY <1>2 DEF WithTx, File
<1> HIDE DEF f
<1>5. mem[p].rec[KeyOf(p)].state # "fulfilled"
  BY <1>2 DEF Whole, Tx
<1>6. Whole(f, uuid)
  BY <1>2, <1>3, <1>4, <1>5, WholeRecord DEF Tx, Id
<1>7. Whole(f, uuid')
  BY <1>2, <1>3, <1>6, WholeLater
<1> QED BY <1>3, <1>7, PersistWhole DEF f

(* What the updates of a record leave alone.                               *)
LEMMA UpdatesKeep ==
  ASSUME NEW r \in Record, NEW res, NEW o
  PROVE  /\ Settled(r).id = r.id /\ Settled(r).response = r.response
         /\ Known(r, res).id = r.id /\ Known(r, res).response = r.response
         /\ Claimed(r, o).id = r.id /\ Claimed(r, o).response = r.response
BY DEF Settled, Known, Claimed, Record

(* Fulfilled writes all the parts.                                         *)
LEMMA FulfilledWhole ==
  ASSUME NEW f \in File, WellFormed(f), NEW u \in Id, Whole(f, u), NEW k \in Key,
         NEW res \in Result, res # 0,
         f.rec[k].state \notin Unjournalled, f.rec[k].state # "fulfilled"
  PROVE  /\ Whole(Fulfilled(f, k, res), u)
         /\ Fulfilled(f, k, res) \in File
         /\ f.receipts[f.rec[k].id] = 0
<1> DEFINE g == Fulfilled(f, k, res)
<1>1. f.rec[k] \in Record /\ f.rec[k].id \in Id
  BY DEF File, Record
<1>2. /\ g \in File /\ g.rec[k] = Answered(f.rec[k], res)
      /\ g.rec[k].state = "fulfilled" /\ g.rec[k].req = f.rec[k].req
      /\ \A j \in Key \ {k} : g.rec[j] = f.rec[j]
  BY FulfilledFacts
<1>3. g.rec[k].response = res /\ g.rec[k].id = f.rec[k].id
  BY <1>1, <1>2 DEF Answered, Record
<1>4. /\ g.spent = f.spent \cup {ReplayKeyOf[f.rec[k].req.pay]}
      /\ g.entitlements = f.entitlements \cup {f.rec[k].id}
      /\ g.receipts = [f.receipts EXCEPT ![f.rec[k].id] = res]
      /\ g.revenue = f.revenue \cup {f.rec[k].id}
  BY DEF Fulfilled, File
<1> HIDE DEF g
<1>5. Whole(g, u)
  BY <1>2, <1>3, <1>4, WholeFulfilled
<1>6. f.rec[k].id \notin Ids(f)
  BY DEF Whole, Ids, Unjournalled
<1>7. f.receipts[f.rec[k].id] = 0
  BY <1>1, <1>6 DEF Whole
<1> QED BY <1>2, <1>5, <1>7 DEF g

-----------------------------------------------------------------------------
(* The operations.                                                         *)

(* An operation that moves on without touching a file, or settles.         *)
LEMMA QuietWhole ==
  ASSUME TypeInv, FulfilmentInv, NEW p \in Proc, NEW label, NEW r,
         pc' = [pc EXCEPT ![p] = label], result' = [result EXCEPT ![p] = r],
         UNCHANGED <<disk, mem, call, uuid>>,
         label = "verifying" => Tx(p).state = "absent",
         label \in OnRecord \ {"finalizing"} => Tx(p).response = 0,
         label \in {"known", "finalizing"} => r # 0
  PROVE  FulfilmentInv'
<1>1. \A q \in Proc \ {p} : Stage(q)'
  BY DEF FulfilmentInv, Stage, Tx, KeyOf, TypeInv, TypeOK
<1>2. Stage(p)'
  BY DEF Stage, Tx, KeyOf, TypeInv, TypeOK
<1> QED BY <1>1, <1>2 DEF FulfilmentInv

LEMMA AdvanceWhole ==
  ASSUME TypeInv, FulfilmentInv, NEW p \in Proc, NEW label, Advance(p, label),
         label = "verifying" => Tx(p).state = "absent",
         label \in OnRecord \ {"finalizing"} => Tx(p).response = 0,
         label \notin {"known", "finalizing"}
  PROVE  FulfilmentInv'
<1>1. /\ pc' = [pc EXCEPT ![p] = label]
      /\ result' = [result EXCEPT ![p] = result[p]]
      /\ UNCHANGED <<disk, mem, call, uuid>>
  BY DEF Advance, Goto, TypeInv, TypeOK
<1> QED BY <1>1, QuietWhole

LEMMA FinishWhole ==
  ASSUME TypeInv, FulfilmentInv, NEW p \in Proc, NEW r, Finish(p, r)
  PROVE  FulfilmentInv'
<1>1. /\ pc' = [pc EXCEPT ![p] = "done"]
      /\ result' = [result EXCEPT ![p] = r]
      /\ UNCHANGED <<disk, mem, call, uuid>>
  BY DEF Finish, Goto
<1> QED BY <1>1, QuietWhole DEF OnRecord

(* The steps around an operation, the deaths and the world.                *)
LEMMA EnvelopeWhole ==
  ASSUME TypeInv, FulfilmentInv, NEW p \in Proc,
         \/ \E c \in Call : StartCall(p, c)
         \/ LockWaitFails(p) \/ Enter(p) \/ Return(p) \/ Crash(p) \/ GuardianEvent(p)
  PROVE  FulfilmentInv'
<1>1. CASE (\E c \in Call : StartCall(p, c)) \/ LockWaitFails(p)
  <2>1. /\ UNCHANGED <<disk, mem, result, uuid>>
        /\ pc' = [pc EXCEPT ![p] = IF LockWaitFails(p) THEN "idle" ELSE "waiting"]
        /\ \A q \in Proc \ {p} : call'[q] = call[q]
    BY <1>1 DEF StartCall, LockWaitFails, Goto, TypeInv, TypeOK
  <2>2. /\ mem' = [mem EXCEPT ![p] = mem[p]]
        /\ result' = [result EXCEPT ![p] = result[p]]
    BY <2>1 DEF TypeInv, TypeOK
  <2>3. Stage(p)'
    BY <2>1 DEF Stage, OnRecord, TypeInv, TypeOK
  <2> QED BY <2>1, <2>2, <2>3, MemoryStep DEF FulfilmentInv
<1>2. CASE Enter(p)
  <2>1. /\ mem' = [mem EXCEPT ![p] = disk] /\ pc' = [pc EXCEPT ![p] = "begin"]
        /\ result' = [result EXCEPT ![p] = result[p]]
        /\ UNCHANGED <<disk, call, uuid>>
    BY <1>2 DEF Enter, Goto, TypeInv, TypeOK
  <2>2. Stage(p)'
    BY <2>1 DEF Stage, OnRecord, TypeInv, TypeOK
  <2> QED BY <2>1, <2>2, MemoryStep DEF FulfilmentInv
<1>3. CASE Return(p) \/ Crash(p)
  <2>1. /\ mem' = [mem EXCEPT ![p] = EmptyFile] /\ pc' = [pc EXCEPT ![p] = "idle"]
        /\ result' = [result EXCEPT ![p] = 0]
        /\ \A q \in Proc \ {p} : call'[q] = call[q]
        /\ UNCHANGED <<disk, uuid>>
    BY <1>3 DEF Return, Crash, Goto, TypeInv, TypeOK
  <2>2. Stage(p)'
    BY <2>1 DEF Stage, OnRecord, TypeInv, TypeOK
  <2> QED BY <2>1, <2>2, WholeEmpty, MemoryStep
<1>4. CASE GuardianEvent(p)
  BY <1>4 DEF GuardianEvent, procVars, FulfilmentInv, Stage, Tx, KeyOf
<1> QED BY <1>1, <1>2, <1>3, <1>4

LEMMA InvokeWhole ==
  ASSUME TypeInv, FulfilmentInv, NEW p \in Proc, InvokeStep(p)
  PROVE  FulfilmentInv'
<1>a. pc[p] # "idle"
  BY DEF InvokeStep, RejectInvoke, ReturnDuplicate, StartVerify, VerifyFails,
         RecordIntent, CallSettle, SettleSucceeds, SettleUnknown,
         StartReconcile, ReconcileSettled, ReconcileUnknown,
         ReportExecutionUnknown, ResumePaid, Claim, StartExecution, Effect,
         ExecuteReturns, ExecuteThrows, Reread, CommitFulfilment,
         CommitRefused, Invoking, Retrying
<1>b. /\ call[p] \in Call /\ KeyOf(p) \in Key
      /\ mem[p] \in File /\ disk \in File /\ Tx(p) \in Record
      /\ WellFormed(mem[p]) /\ result[p] \in Result
      /\ pc[p] \in OnRecord => Tx(p).state \notin Unjournalled
      /\ uuid \in Id /\ 0 \in Id /\ 0 \in Result
  BY <1>a, AtWork, Gate1BAssumption DEF TypeInv, TypeOK, Id, Result
<1>c. Stage(p) /\ Whole(mem[p], uuid) /\ Whole(disk, uuid)
  BY DEF FulfilmentInv
<1>d. uuid <= uuid
  BY <1>b DEF Id
<1>1. CASE RejectInvoke(p) \/ VerifyFails(p) \/ CommitRefused(p) \/ ReturnDuplicate(p)
  BY <1>1, FinishWhole DEF RejectInvoke, VerifyFails, CommitRefused, ReturnDuplicate
<1>2. CASE StartVerify(p) \/ StartReconcile(p) \/ ResumePaid(p)
  BY <1>2, AdvanceWhole
  DEF StartVerify, StartReconcile, ResumePaid, Retrying, OnRecord
<1>3. CASE RecordIntent(p)
  <2> DEFINE n == ReplayKeyOf[call[p].req.pay]
  <2>1. PICK covered \in BOOLEAN : Persist(p, Reserved(p, covered), "intent", 0)
    BY <1>3 DEF RecordIntent, AnchorCovers
  <2>2. call[p].req \in Request /\ n \in ReplayKey
    BY <1>3, <1>b, CallFields, RequestFields DEF RecordIntent, TypeInv
  <2>3. uuid' = uuid + 1 /\ uuid' \in Id /\ uuid < uuid' /\ uuid <= uuid'
    BY <1>3, <1>b, Gate1BAssumption DEF RecordIntent, Id
  <2> DEFINE intent == [EmptyRecord EXCEPT
        !.state = "settlement_unknown", !.req = call[p].req, !.gen = 1,
        !.id = uuid + 1, !.anchored = covered]
             f == WithTx(p, intent)
             g == [f EXCEPT !.replay = @ \cup {n}]
  <2>4. /\ intent \in Record /\ intent.req = call[p].req
        /\ intent.state = "settlement_unknown"
        /\ intent.id = uuid' /\ intent.response = 0
    BY <1>b, <2>2, <2>3 DEF EmptyRecord, Record, TxState
  <2>5. g = Reserved(p, covered)
    BY DEF Reserved
  <2> HIDE DEF intent, n
  <2>6. /\ f \in File /\ f.rec[KeyOf(p)] = intent
        /\ \A j \in Key \ {KeyOf(p)} : f.rec[j] = mem[p].rec[j]
    BY <1>b, <2>2, <2>4, WithRecord DEF WithTx, Unjournalled
  <2>7. /\ f.spent = mem[p].spent /\ f.entitlements = mem[p].entitlements
        /\ f.receipts = mem[p].receipts /\ f.revenue = mem[p].revenue
    BY <1>b DEF WithTx, File
  <2> HIDE DEF f
  <2>8. /\ g \in File /\ g.rec = f.rec /\ g.spent = f.spent
        /\ g.entitlements = f.entitlements
        /\ g.receipts = f.receipts /\ g.revenue = f.revenue
    BY <2>2, <2>6 DEF File
  <2> HIDE DEF g
  <2>9. mem[p].rec[KeyOf(p)].state = "absent"
    BY <1>3, <1>c DEF RecordIntent, Stage, Tx
  <2>10. Whole(g, uuid')
    <3>1. /\ g.rec[KeyOf(p)].state \notin Unjournalled
          /\ g.rec[KeyOf(p)].state # "fulfilled"
          /\ g.rec[KeyOf(p)].response = 0
          /\ g.rec[KeyOf(p)].id = uuid'
          /\ mem[p].rec[KeyOf(p)].state # "fulfilled"
      BY <2>4, <2>6, <2>8, <2>9 DEF Unjournalled
    <3>2. /\ \A j \in Key \ {KeyOf(p)} : g.rec[j] = mem[p].rec[j]
          /\ g.spent = mem[p].spent /\ g.entitlements = mem[p].entitlements
          /\ g.receipts = mem[p].receipts /\ g.revenue = mem[p].revenue
      BY <2>6, <2>7, <2>8
    <3>3. /\ mem[p] \in File /\ KeyOf(p) \in Key /\ uuid \in Id
          /\ Whole(mem[p], uuid)
      BY <1>b, <1>c
    <3> QED BY <2>3, <2>8, <3>1, <3>2, <3>3, WholeRecord, SMTT(30)
  <2>11. UNCHANGED call
    BY <1>3 DEF RecordIntent
  <2> QED
    BY <1>b, <2>1, <2>3, <2>4, <2>5, <2>6, <2>8, <2>10, <2>11, PersistWhole DEF Label
<1>4. CASE CallSettle(p)
  <2>1. PICK label \in {"settling", "done"} : pc' = [pc EXCEPT ![p] = label]
    BY <1>4 DEF CallSettle, Goto
  <2>2. /\ UNCHANGED <<disk, mem, call, uuid>>
        /\ result' = [result EXCEPT ![p] = result[p]]
    BY <1>4 DEF CallSettle, TypeInv, TypeOK
  <2>3. Tx(p).response = 0
    BY <1>4, <1>c DEF CallSettle, Stage, OnRecord, Label
  <2> QED BY <2>1, <2>2, <2>3, QuietWhole
<1>5. CASE \/ SettleSucceeds(p) \/ ReconcileSettled(p) \/ ReconcileUnknown(p)
           \/ ReportExecutionUnknown(p) \/ StartExecution(p)
           \/ ExecuteThrows(p) \/ ExecuteReturns(p) \/ Claim(p)
  <2>1. Tx(p).state \notin Unjournalled /\ Tx(p).response = 0
    BY <1>5, <1>b, <1>c
    DEF SettleSucceeds, ReconcileSettled, ReconcileUnknown, ReportExecutionUnknown,
        StartExecution, ExecuteThrows, ExecuteReturns, Claim, Retrying, Stage,
        OnRecord, Label, Unjournalled
  <2>2. CASE SettleSucceeds(p) \/ ReconcileSettled(p)
    <3> DEFINE s == Settled(Tx(p))
    <3>1. /\ s \in Record /\ s.req = Tx(p).req /\ s.id = Tx(p).id
          /\ s.response = 0 /\ s.state \notin Unjournalled \cup {"fulfilled"}
      BY <1>b, <2>1, RecordUpdates, UpdatesKeep DEF Unjournalled
    <3>2. /\ Persist(p, WithTx(p, s), "paid", 0)
          /\ UNCHANGED <<call, uuid>>
      BY <2>2 DEF SettleSucceeds, ReconcileSettled, Save
    <3> HIDE DEF s
    <3> QED BY <1>a, <1>b, <1>d, <2>1, <3>1, <3>2, SaveRecordWhole DEF Label
  <2>3. CASE \/ ReconcileUnknown(p) \/ ReportExecutionUnknown(p)
             \/ StartExecution(p) \/ ExecuteThrows(p)
    <3>1. PICK state \in {"unresolved", "execution_unknown", "executing"},
               label \in {"done", "executing"} :
            Save(p, WithTx(p, [Tx(p) EXCEPT !.state = state]), label, 0)
      BY <2>3 DEF ReconcileUnknown, ReportExecutionUnknown, ExecuteThrows, StartExecution
    <3> DEFINE s == [Tx(p) EXCEPT !.state = state]
    <3>2. /\ s \in Record /\ s.req = Tx(p).req /\ s.id = Tx(p).id
          /\ s.response = 0 /\ s.state \notin Unjournalled \cup {"fulfilled"}
      BY <1>b, <2>1 DEF Record, TxState, Unjournalled
    <3>3. /\ Persist(p, WithTx(p, s), label, 0)
          /\ UNCHANGED <<call, uuid>>
      BY <3>1 DEF Save
    <3> HIDE DEF s
    <3> QED BY <1>a, <1>b, <1>d, <2>1, <3>2, <3>3, SaveRecordWhole DEF Label
  <2>4. CASE ExecuteReturns(p)
    <3> DEFINE s == Known(Tx(p), result[p])
    <3>1. /\ s \in Record /\ s.req = Tx(p).req /\ s.id = Tx(p).id
          /\ s.response = 0 /\ s.state \notin Unjournalled \cup {"fulfilled"}
      BY <1>b, <2>1, RecordUpdates, UpdatesKeep DEF Unjournalled
    <3>2. /\ Persist(p, WithTx(p, s), "known", result[p]) /\ result[p] # 0
          /\ UNCHANGED <<call, uuid>>
      BY <2>4 DEF ExecuteReturns, Save
    <3> HIDE DEF s
    <3> QED BY <1>a, <1>b, <1>d, <2>1, <3>1, <3>2, SaveRecordWhole DEF Label
  <2>5. CASE Claim(p)
    <3>1. uuid' = uuid + 1 /\ uuid' \in Id /\ uuid <= uuid' /\ uuid + 1 \in Id
      BY <2>5, <1>b, Gate1BAssumption DEF Claim, Id
    <3> DEFINE s == Claimed(Tx(p), uuid + 1)
    <3>2. /\ s \in Record /\ s.req = Tx(p).req /\ s.id = Tx(p).id
          /\ s.response = 0 /\ s.state \notin Unjournalled \cup {"fulfilled"}
      BY <1>b, <2>1, <3>1, RecordUpdates, UpdatesKeep DEF Unjournalled
    <3>3. Persist(p, WithTx(p, s), "claimed", 0) /\ UNCHANGED call
      BY <2>5 DEF Claim, Claimed
    <3> HIDE DEF s
    <3> QED BY <1>a, <1>b, <2>1, <3>1, <3>2, <3>3, SaveRecordWhole DEF Label
  <2> QED BY <1>5, <2>2, <2>3, <2>4, <2>5
<1>6. CASE SettleUnknown(p)
  <2>1. Persist(p, mem[p], "done", 0) /\ UNCHANGED <<call, uuid>>
    BY <1>6 DEF SettleUnknown, Save
  <2> QED BY <1>b, <1>c, <1>d, <2>1, PersistWhole DEF Label, OnRecord
<1>7. CASE Effect(p)
  <2>1. /\ pc' = [pc EXCEPT ![p] = pc[p]]
        /\ result' = [result EXCEPT ![p] = effects[KeyOf(p)] + 1]
        /\ UNCHANGED <<disk, mem, call, uuid>>
        /\ pc[p] \in {"executing", "resuming"}
    BY <1>7 DEF Effect, TypeInv, TypeOK
  <2>2. Tx(p).response = 0
    BY <1>c, <2>1 DEF Stage, OnRecord, Label
  <2> QED BY <2>1, <2>2, QuietWhole
<1>8. CASE Reread(p)
  <2>1. /\ UNCHANGED <<disk, call, uuid>>
        /\ pc[p] = "known" /\ result[p] # 0
    BY <1>8, <1>c DEF Reread, Stage
  <2>2. CASE /\ mem' = [mem EXCEPT ![p] = disk]
             /\ pc' = [pc EXCEPT ![p] = "finalizing"] /\ UNCHANGED result
    <3>1. result' = [result EXCEPT ![p] = result[p]]
      BY <2>2 DEF TypeInv, TypeOK
    <3>2. Stage(p)'
      BY <2>1, <2>2 DEF Stage, TypeInv, TypeOK
    <3> QED BY <1>c, <2>1, <2>2, <3>1, <3>2, MemoryStep
  <2>3. CASE /\ pc' = [pc EXCEPT ![p] = "done"] /\ UNCHANGED mem
             /\ result' = [result EXCEPT ![p] = 0]
    BY <2>1, <2>3, QuietWhole DEF OnRecord
  <2> QED BY <1>8, <2>2, <2>3 DEF Reread, Goto
<1>9. CASE CommitFulfilment(p)
  <2>1. /\ Tx(p).state \notin Unjournalled /\ result[p] # 0
        /\ Tx(p).id \notin mem[p].revenue
    BY <1>9, <1>b, <1>c DEF CommitFulfilment, Stage, OnRecord, Label
  <2>2. Tx(p).state # "fulfilled"
    BY <1>b, <1>c, <2>1 DEF Whole, Ids, Tx
  <2> DEFINE f == Fulfilled(mem[p], KeyOf(p), result[p])
  <2>3. Whole(f, uuid) /\ f \in File
    BY <1>b, <1>c, <2>1, <2>2, FulfilledWhole DEF Tx
  <2>4. Persist(p, f, "done", result[p]) /\ UNCHANGED <<call, uuid>>
    BY <1>9 DEF CommitFulfilment, Save
  <2> HIDE DEF f
  <2> QED BY <1>b, <1>d, <2>3, <2>4, PersistWhole DEF Label, OnRecord
<1> QED
  BY <1>1, <1>2, <1>3, <1>4, <1>5, <1>6, <1>7, <1>8, <1>9 DEF InvokeStep

LEMMA RecoveryWhole ==
  ASSUME TypeInv, FulfilmentInv, NEW p \in Proc, RecoveryStep(p)
  PROVE  FulfilmentInv'
<1>a. pc[p] # "idle"
  BY DEF RecoveryStep, FinalizeSkips, FinalizeRecovered, RecoverSkips,
         AskWitness, WitnessUnknown, WitnessConfirmed, WitnessUseless,
         WitnessNotObserved, RevalidateFails, Revalidate, ResumeReturns,
         ResumeThrows, Recovering
<1>b. /\ KeyOf(p) \in Key /\ mem[p] \in File /\ Tx(p) \in Record
      /\ WellFormed(mem[p]) /\ result[p] \in Result
      /\ pc[p] \in OnRecord => Tx(p).state \notin Unjournalled
      /\ Tx(p).state # "absent" => Tx(p).req \in Request
      /\ uuid \in Id /\ 0 \in Result
  BY <1>a, AtWork, Gate1BAssumption DEF TypeInv, TypeOK, Id, Result
<1>c. Stage(p) /\ Whole(mem[p], uuid)
  BY DEF FulfilmentInv
<1>d. uuid <= uuid
  BY <1>b DEF Id
<1>1. CASE FinalizeSkips(p) \/ RecoverSkips(p) \/ WitnessUseless(p)
             \/ RevalidateFails(p) \/ ResumeThrows(p)
  BY <1>1, FinishWhole
  DEF FinalizeSkips, RecoverSkips, WitnessUseless, RevalidateFails, ResumeThrows
<1>2. CASE AskWitness(p) \/ WitnessNotObserved(p)
  BY <1>2, <1>c, AdvanceWhole
  DEF AskWitness, WitnessNotObserved, Stage, OnRecord, Label
<1>3. CASE FinalizeRecovered(p)
  <2>1. /\ Tx(p).state = "finalization_pending" /\ Tx(p).result # 0
        /\ Tx(p).result \in Result
    BY <1>3, <1>b DEF FinalizeRecovered, Eligible, Record
  <2> DEFINE f == Fulfilled(mem[p], KeyOf(p), Tx(p).result)
             kept == mem[p].receipts[Tx(p).id]
             g == [f EXCEPT !.receipts[Tx(p).id] = IF kept = 0 THEN @ ELSE kept]
  <2>2. Whole(f, uuid) /\ f \in File /\ kept = 0
    BY <1>b, <1>c, <2>1, FulfilledWhole DEF Tx, Unjournalled
  <2>3. Persist(p, g, "done", Tx(p).result) /\ UNCHANGED <<call, uuid>>
    BY <1>3 DEF FinalizeRecovered, Save
  <2> HIDE DEF f, kept
  <2>4. g = f
    BY <2>2 DEF File
  <2> HIDE DEF g
  <2> QED BY <1>b, <1>d, <2>1, <2>2, <2>3, <2>4, PersistWhole DEF Label, OnRecord
<1>4. CASE WitnessUnknown(p)
  <2>1. Tx(p).state \notin Unjournalled /\ Tx(p).response = 0
    BY <1>4, <1>b, <1>c DEF WitnessUnknown, Stage, OnRecord, Label
  <2> DEFINE s == [Tx(p) EXCEPT !.state = "execution_unknown"]
  <2>2. /\ s \in Record /\ s.req = Tx(p).req /\ s.id = Tx(p).id
        /\ s.response = 0 /\ s.state \notin Unjournalled \cup {"fulfilled"}
    BY <1>b, <2>1 DEF Record, TxState, Unjournalled
  <2>3. Persist(p, WithTx(p, s), "done", 0) /\ UNCHANGED <<call, uuid>>
    BY <1>4 DEF WitnessUnknown, Save
  <2> HIDE DEF s
  <2> QED BY <1>a, <1>b, <1>d, <2>1, <2>2, <2>3, SaveRecordWhole DEF Label
<1>5. CASE WitnessConfirmed(p) \/ ResumeReturns(p)
  <2>1. Tx(p).state \notin Unjournalled /\ Tx(p).response = 0
    BY <1>5, <1>b, <1>c DEF WitnessConfirmed, ResumeReturns, Stage, OnRecord, Label
  <2>2. PICK res \in Result : Save(p, WithTx(p, Known(Tx(p), res)), "done", 0)
    <3>1. 1 .. effects[KeyOf(p)] \subseteq Result
      BY <1>b, Gate1BAssumption DEF TypeInv, TypeOK, Result
    <3> QED BY <1>5, <1>b, <3>1 DEF WitnessConfirmed, ResumeReturns
  <2> DEFINE s == Known(Tx(p), res)
  <2>3. /\ s \in Record /\ s.req = Tx(p).req /\ s.id = Tx(p).id
        /\ s.response = 0 /\ s.state \notin Unjournalled \cup {"fulfilled"}
    <3>1. 0 \in Id
      BY Gate1BAssumption DEF Id
    <3> QED BY <1>b, <2>1, <3>1, RecordUpdates, UpdatesKeep DEF Unjournalled
  <2>4. Persist(p, WithTx(p, s), "done", 0) /\ UNCHANGED <<call, uuid>>
    BY <2>2 DEF Save
  <2> HIDE DEF s
  <2> QED BY <1>a, <1>b, <1>d, <2>1, <2>3, <2>4, SaveRecordWhole DEF Label
<1>6. CASE Revalidate(p)
  <2>1. Tx(p).state \notin Unjournalled /\ Tx(p).response = 0
    BY <1>6, <1>b, <1>c DEF Revalidate, Stage, OnRecord, Label
  <2>2. PICK covered \in BOOLEAN :
          mem' = [mem EXCEPT ![p] = WithTx(p, [Tx(p) EXCEPT !.anchored = covered])]
    BY <1>6 DEF Revalidate, AnchorCovers
  <2> DEFINE s == [Tx(p) EXCEPT !.anchored = covered]
             f == WithTx(p, s)
  <2>3. /\ s \in Record /\ s.req \in Request /\ s.id = Tx(p).id /\ s.state = Tx(p).state
        /\ s.response = 0
    BY <1>b, <2>1 DEF Record, Unjournalled
  <2> HIDE DEF s
  <2>4. /\ f \in File /\ f.rec[KeyOf(p)] = s
        /\ \A j \in Key \ {KeyOf(p)} : f.rec[j] = mem[p].rec[j]
    BY <1>b, <2>1, <2>3, WithRecord DEF WithTx
  <2>5. /\ f.spent = mem[p].spent /\ f.entitlements = mem[p].entitlements
        /\ f.receipts = mem[p].receipts /\ f.revenue = mem[p].revenue
    BY <1>b DEF WithTx, File
  <2>6. mem' = [mem EXCEPT ![p] = f]
    BY <2>2 DEF s
  <2> HIDE DEF f
  <2>7. Tx(p).state # "fulfilled"
    BY <1>b, <1>c, <2>1 DEF Whole, Tx
  <2>8. Whole(f, uuid)
    BY <1>b, <1>c, <1>d, <2>1, <2>3, <2>4, <2>5, <2>7, WholeRecord DEF Tx
  <2>9. /\ pc' = [pc EXCEPT ![p] = "resuming"]
        /\ result' = [result EXCEPT ![p] = result[p]]
        /\ UNCHANGED <<disk, call, uuid>>
    BY <1>6 DEF Revalidate, Goto, TypeInv, TypeOK
  <2>10. Stage(p)'
    BY <2>3, <2>4, <2>6, <2>9 DEF Stage, Tx, KeyOf, TypeInv, TypeOK
  <2> QED BY <2>6, <2>8, <2>9, <2>10, MemoryStep
<1> QED BY <1>1, <1>2, <1>3, <1>4, <1>5, <1>6 DEF RecoveryStep

LEMMA FulfilmentNext == TypeInv /\ FulfilmentInv /\ [Next]_vars => FulfilmentInv'
<1> SUFFICES ASSUME TypeInv, FulfilmentInv, [Next]_vars PROVE FulfilmentInv'
  OBVIOUS
<1>1. CASE Next
  <2>1. ASSUME NEW p \in Proc,
               (\E c \in Call : StartCall(p, c)) \/ Step(p) \/ Crash(p) \/ GuardianEvent(p)
        PROVE FulfilmentInv'
    BY <2>1, EnvelopeWhole, InvokeWhole, RecoveryWhole DEF Step
  <2>2. ASSUME NEW n \in Nonce, AuthorizationUsed(n) PROVE FulfilmentInv'
    BY <2>2 DEF AuthorizationUsed, procVars, FulfilmentInv, Stage, Tx, KeyOf
  <2> QED BY <1>1, <2>1, <2>2 DEF Next
<1>2. CASE UNCHANGED vars
  BY <1>2 DEF vars, FulfilmentInv, Stage, Tx, KeyOf
<1> QED BY <1>1, <1>2

(* Receipt, entitlement, revenue event, spent replay key and response are  *)
(* in the file together, with one result, or none of them is, after any    *)
(* crash and even when a process writes under a lock it has lost           *)
(* (lib/gate1b-production-adapter.mjs, commit and finalization).           *)
THEOREM WholeFulfilment == Spec => []FulfilmentAllOrNothing
<1>1. Spec => [](TypeInv /\ FulfilmentInv)
  BY TypeInit, TypeNext, FulfilmentInit, FulfilmentNext, PTL DEF Spec
<1>2. FulfilmentInv => FulfilmentAllOrNothing
  BY DEF FulfilmentInv, Whole, Ids, FulfilledIds, FulfilmentAllOrNothing,
         Journalled, DiskReplayKey, Unjournalled
<1> QED BY <1>1, <1>2, PTL

-----------------------------------------------------------------------------
(* What is executed was paid, or recovered.                                *)

(* The states in which the code goes on to claim and execute a purchase.   *)
Running == {"pending_fulfillment", "claimed", "executing", "finalization_pending"}

PaidRequest(r) == NonceOf[ReplayKeyOf[r.req.pay]] \in used

Backed(f) ==
  \A k \in Key : f.rec[k].state \in Running => effects[k] > 0 \/ PaidRequest(f.rec[k])

StageBacked(p) ==
  /\ pc[p] \in {"paid", "claimed", "executing"} => Tx(p).state \in Running
  /\ result[p] # 0 =>
       \/ pc[p] \in {"known", "finalizing", "done"}
       \/ pc[p] \in {"executing", "resuming"} /\ effects[KeyOf(p)] > 0

BackedInv == Backed(disk) /\ \A p \in Proc : Backed(mem[p]) /\ StageBacked(p)

LEMMA BackedInit == Init => BackedInv
<1> SUFFICES ASSUME Init PROVE BackedInv
  OBVIOUS
<1>1. PICK Old \in SUBSET LegacyKey : \E old \in [Old -> Request \X {0, 1}] :
        disk = [EmptyFile EXCEPT
                 !.rec = [k \in Key |-> IF k \in Old
                            THEN LegacyRecord(old[k][1], old[k][2])
                            ELSE EmptyRecord],
                 !.replay = {ReplayKeyOf[old[k][1].pay] : k \in Old}]
  BY DEF Init
<1>2. PICK old \in [Old -> Request \X {0, 1}] :
        disk = [EmptyFile EXCEPT
                 !.rec = [k \in Key |-> IF k \in Old
                            THEN LegacyRecord(old[k][1], old[k][2])
                            ELSE EmptyRecord],
                 !.replay = {ReplayKeyOf[old[k][1].pay] : k \in Old}]
  BY <1>1
<1>3. Backed(disk)
  BY <1>2 DEF EmptyFile, LegacyRecord, EmptyRecord, Backed, Running
<1>4. \A p \in Proc : mem[p] = EmptyFile /\ pc[p] = "idle" /\ result[p] = 0
  BY DEF Init
<1> QED BY <1>3, <1>4 DEF BackedInv, StageBacked, Backed, EmptyFile, EmptyRecord, Running

(* Nothing is taken back: neither an effect nor the use of a nonce.        *)
Growing == used \subseteq used' /\ \A k \in Key : effects[k] > 0 => effects'[k] > 0

LEMMA OthersBacked ==
  ASSUME TypeInv, BackedInv, Growing, NEW p \in Proc,
         \A q \in Proc \ {p} : /\ mem'[q] = mem[q] /\ pc'[q] = pc[q]
                               /\ call'[q] = call[q] /\ result'[q] = result[q]
  PROVE  \A q \in Proc \ {p} : Backed(mem[q])' /\ StageBacked(q)'
<1> SUFFICES ASSUME NEW q \in Proc \ {p} PROVE Backed(mem[q])' /\ StageBacked(q)'
  OBVIOUS
<1>1. Backed(mem[q])'
  BY DEF BackedInv, Backed, PaidRequest, Growing
<1>2. StageBacked(q)'
  <2>1. Tx(q)' = Tx(q) /\ KeyOf(q)' = KeyOf(q)
    BY DEF Tx, KeyOf
  <2>2. pc[q] # "idle" => KeyOf(q) \in Key
    BY AtWork
  <2> QED BY <2>1, <2>2 DEF BackedInv, StageBacked, Growing
<1> QED BY <1>1, <1>2

(* A step of p that leaves the file alone.                                 *)
LEMMA MemoryBacked ==
  ASSUME TypeInv, BackedInv, Growing, NEW p \in Proc, NEW f, NEW label, NEW r,
         mem' = [mem EXCEPT ![p] = f], Backed(f),
         pc' = [pc EXCEPT ![p] = label], result' = [result EXCEPT ![p] = r],
         \A q \in Proc \ {p} : call'[q] = call[q], UNCHANGED disk,
         StageBacked(p)'
  PROVE  BackedInv'
<1>1. \A q \in Proc \ {p} : Backed(mem[q])' /\ StageBacked(q)'
  BY OthersBacked DEF TypeInv, TypeOK
<1>2. Backed(disk)' /\ Backed(mem[p])'
  BY DEF BackedInv, Backed, PaidRequest, Growing, TypeInv, TypeOK
<1> QED BY <1>1, <1>2 DEF BackedInv

LEMMA QuietBacked ==
  ASSUME TypeInv, BackedInv, Growing, NEW p \in Proc, NEW label, NEW r,
         pc' = [pc EXCEPT ![p] = label], result' = [result EXCEPT ![p] = r],
         UNCHANGED <<disk, mem, call>>,
         label \in {"paid", "claimed", "executing"} => Tx(p).state \in Running,
         r # 0 => \/ label \in {"known", "finalizing", "done"}
                  \/ label \in {"executing", "resuming"} /\ effects'[KeyOf(p)] > 0
  PROVE  BackedInv'
<1>1. mem' = [mem EXCEPT ![p] = mem[p]] /\ Backed(mem[p])
  BY DEF TypeInv, TypeOK, BackedInv
<1>2. StageBacked(p)'
  BY DEF StageBacked, Tx, KeyOf, TypeInv, TypeOK
<1> QED BY <1>1, <1>2, MemoryBacked

LEMMA PersistBacked ==
  ASSUME TypeInv, BackedInv, NEW p \in Proc, NEW f, NEW label, NEW r,
         Persist(p, f, label, r), UNCHANGED <<call, used, effects>>, Backed(f),
         label \in {"paid", "claimed", "executing"} => f.rec[KeyOf(p)].state \in Running,
         r # 0 => label \in {"known", "done"}
  PROVE  BackedInv'
<1>1. Growing
  BY DEF Growing
<1>2. CASE AssertOwned(p)
  <2>1. /\ disk' = f /\ mem' = [mem EXCEPT ![p] = f]
        /\ pc' = [pc EXCEPT ![p] = label] /\ result' = [result EXCEPT ![p] = r]
    BY <1>2 DEF Persist, Goto
  <2>2. \A q \in Proc \ {p} : Backed(mem[q])' /\ StageBacked(q)'
    BY <1>1, <2>1, OthersBacked DEF TypeInv, TypeOK
  <2>3. mem'[p] = f /\ pc'[p] = label /\ result'[p] = r
    BY <2>1 DEF TypeInv, TypeOK
  <2>4. Backed(disk)' /\ Backed(mem[p])' /\ StageBacked(p)'
    BY <2>1, <2>3 DEF Backed, PaidRequest, StageBacked, Tx, KeyOf
  <2> QED BY <2>2, <2>4 DEF BackedInv
<1>3. CASE ~AssertOwned(p)
  BY <1>1, <1>3, QuietBacked DEF Persist, Goto
<1> QED BY <1>2, <1>3

(* A durable write of the operation's own record.                          *)
LEMMA SaveBacked ==
  ASSUME TypeInv, BackedInv, NEW p \in Proc, pc[p] # "idle", NEW s, NEW label, NEW r,
         Persist(p, WithTx(p, s), label, r), UNCHANGED <<call, used, effects>>,
         s.state \in Running => effects[KeyOf(p)] > 0 \/ PaidRequest(s),
         label \in {"paid", "claimed", "executing"} => s.state \in Running,
         r # 0 => label \in {"known", "done"}
  PROVE  BackedInv'
<1> DEFINE f == WithTx(p, s)
<1>1. mem[p] \in File /\ KeyOf(p) \in Key /\ Backed(mem[p])
  BY AtWork DEF BackedInv
<1>2. f.rec[KeyOf(p)] = s /\ \A j \in Key \ {KeyOf(p)} : f.rec[j] = mem[p].rec[j]
  BY <1>1 DEF WithTx, File
<1> HIDE DEF f
<1>3. Backed(f)
  BY <1>1, <1>2 DEF Backed
<1> QED BY <1>2, <1>3, PersistBacked DEF f

LEMMA EnvelopeBacked ==
  ASSUME TypeInv, BackedInv, NEW p \in Proc,
         \/ \E c \in Call : StartCall(p, c)
         \/ LockWaitFails(p) \/ Enter(p) \/ Return(p) \/ Crash(p) \/ GuardianEvent(p)
  PROVE  BackedInv' /\ effects' = effects
<1>1. Growing /\ UNCHANGED <<disk, used, effects>>
  BY DEF StartCall, LockWaitFails, Enter, Return, Crash, GuardianEvent, worldVars, Growing
<1>2. CASE (\E c \in Call : StartCall(p, c)) \/ LockWaitFails(p)
  <2>1. PICK label \in {"idle", "waiting"} :
          /\ pc[p] \in {"idle", "waiting"} /\ pc' = [pc EXCEPT ![p] = label]
          /\ UNCHANGED <<mem, result>>
          /\ \A q \in Proc \ {p} : call'[q] = call[q]
    BY <1>2 DEF StartCall, LockWaitFails, Goto, TypeInv, TypeOK
  <2>2. /\ mem' = [mem EXCEPT ![p] = mem[p]] /\ Backed(mem[p])
        /\ result' = [result EXCEPT ![p] = result[p]] /\ result[p] = 0
    BY <2>1 DEF TypeInv, TypeOK, BackedInv, StageBacked
  <2>3. StageBacked(p)'
    BY <2>1, <2>2 DEF StageBacked, TypeInv, TypeOK
  <2> QED BY <1>1, <2>1, <2>2, <2>3, MemoryBacked
<1>3. CASE Enter(p)
  <2>1. /\ pc[p] = "waiting" /\ pc' = [pc EXCEPT ![p] = "begin"]
        /\ mem' = [mem EXCEPT ![p] = disk] /\ UNCHANGED <<call, result>>
    BY <1>3 DEF Enter, Goto
  <2>2. Backed(disk) /\ result' = [result EXCEPT ![p] = result[p]] /\ result[p] = 0
    BY <2>1 DEF TypeInv, TypeOK, BackedInv, StageBacked
  <2>3. StageBacked(p)'
    BY <2>1, <2>2 DEF StageBacked, TypeInv, TypeOK
  <2> QED BY <1>1, <2>1, <2>2, <2>3, MemoryBacked
<1>4. CASE Return(p) \/ Crash(p)
  <2>1. /\ pc' = [pc EXCEPT ![p] = "idle"] /\ result' = [result EXCEPT ![p] = 0]
        /\ mem' = [mem EXCEPT ![p] = EmptyFile]
        /\ \A q \in Proc \ {p} : call'[q] = call[q]
    BY <1>4 DEF Return, Crash, Goto, TypeInv, TypeOK
  <2>2. Backed(EmptyFile)
    BY DEF Backed, EmptyFile, EmptyRecord, Running
  <2>3. StageBacked(p)'
    BY <2>1 DEF StageBacked, TypeInv, TypeOK
  <2> QED BY <1>1, <2>1, <2>2, <2>3, MemoryBacked
<1>5. CASE GuardianEvent(p)
  <2>1. UNCHANGED <<disk, mem, pc, call, result, used, effects>>
    BY <1>1, <1>5 DEF GuardianEvent, procVars
  <2> QED BY <2>1 DEF BackedInv, Backed, PaidRequest, StageBacked, Tx, KeyOf
<1> QED BY <1>1, <1>2, <1>3, <1>4, <1>5

(* The records the code writes ask for what the one before them did.       *)
LEMMA SameRequest ==
  ASSUME NEW r \in Record, NEW state, NEW o, NEW res
  PROVE  /\ [r EXCEPT !.state = state].req = r.req
         /\ [r EXCEPT !.state = state].state = state
         /\ Settled(r).req = r.req /\ Known(r, res).req = r.req
         /\ Claimed(r, o).req = r.req
         /\ Settled(r).state = "pending_fulfillment"
         /\ Known(r, res).state = "finalization_pending"
         /\ Claimed(r, o).state = "claimed"
BY DEF Record, Settled, Known, Claimed

(* Steps that go on or settle without touching a file.                     *)
LEMMA MovesBacked ==
  ASSUME TypeInv, BackedInv, NEW p \in Proc,
         \/ RejectInvoke(p) \/ VerifyFails(p) \/ CommitRefused(p) \/ ReturnDuplicate(p)
         \/ StartVerify(p) \/ StartReconcile(p) \/ ResumePaid(p) \/ CallSettle(p)
         \/ FinalizeSkips(p) \/ RecoverSkips(p) \/ WitnessUseless(p)
         \/ RevalidateFails(p) \/ ResumeThrows(p) \/ AskWitness(p) \/ WitnessNotObserved(p)
  PROVE  BackedInv' /\ effects' = effects
<1>1. Growing /\ UNCHANGED <<disk, mem, call, effects>>
  BY DEF RejectInvoke, VerifyFails, CommitRefused, ReturnDuplicate, StartVerify,
         StartReconcile, ResumePaid, CallSettle, FinalizeSkips, RecoverSkips,
         WitnessUseless, RevalidateFails, ResumeThrows, AskWitness, WitnessNotObserved,
         Finish, Advance, worldVars, Growing
<1>2. CASE \/ RejectInvoke(p) \/ VerifyFails(p) \/ CommitRefused(p) \/ ReturnDuplicate(p)
           \/ FinalizeSkips(p) \/ RecoverSkips(p) \/ WitnessUseless(p)
           \/ RevalidateFails(p) \/ ResumeThrows(p)
  <2>1. PICK r : pc' = [pc EXCEPT ![p] = "done"] /\ result' = [result EXCEPT ![p] = r]
    BY <1>2 DEF RejectInvoke, VerifyFails, CommitRefused, ReturnDuplicate, FinalizeSkips,
                RecoverSkips, WitnessUseless, RevalidateFails, ResumeThrows, Finish, Goto
  <2> QED BY <1>1, <2>1, QuietBacked
<1>3. CASE \/ StartVerify(p) \/ StartReconcile(p) \/ ResumePaid(p) \/ CallSettle(p)
           \/ AskWitness(p) \/ WitnessNotObserved(p)
  <2>1. pc[p] \in {"begin", "intent", "witness"}
    BY <1>3 DEF StartVerify, StartReconcile, ResumePaid, CallSettle, AskWitness,
                WitnessNotObserved, Retrying, Invoking, Recovering
  <2>2. result' = [result EXCEPT ![p] = result[p]] /\ result[p] = 0
    BY <1>3, <2>1 DEF StartVerify, StartReconcile, ResumePaid, CallSettle, AskWitness,
                WitnessNotObserved, Advance, TypeInv, TypeOK, BackedInv, StageBacked
  <2>3. PICK label : /\ pc' = [pc EXCEPT ![p] = label]
                     /\ label \in {"paid", "claimed", "executing"} => Tx(p).state \in Running
    BY <1>3 DEF StartVerify, StartReconcile, ResumePaid, CallSettle, AskWitness,
                WitnessNotObserved, Advance, Goto, Retrying, Running
  <2> QED BY <1>1, <2>2, <2>3, QuietBacked
<1> QED BY <1>1, <1>2, <1>3

(* Steps that write the operation's own record.                            *)
LEMMA RecordsBacked ==
  ASSUME TypeInv, BackedInv, NEW p \in Proc,
         \/ SettleSucceeds(p) \/ ReconcileSettled(p) \/ ReconcileUnknown(p)
         \/ ReportExecutionUnknown(p) \/ StartExecution(p) \/ ExecuteThrows(p)
         \/ ExecuteReturns(p) \/ Claim(p) \/ WitnessUnknown(p)
         \/ WitnessConfirmed(p) \/ ResumeReturns(p)
  PROVE  BackedInv' /\ effects' = effects
<1>1. pc[p] # "idle" /\ UNCHANGED <<call, used, effects>>
  BY DEF SettleSucceeds, ReconcileSettled, ReconcileUnknown, ReportExecutionUnknown,
         StartExecution, ExecuteThrows, ExecuteReturns, Claim, WitnessUnknown,
         WitnessConfirmed, ResumeReturns, Save, Retrying, Invoking, worldVars
<1>2. /\ Tx(p) \in Record /\ KeyOf(p) \in Key /\ effects[KeyOf(p)] \in Nat
      /\ Tx(p).state \in Running => effects[KeyOf(p)] > 0 \/ PaidRequest(Tx(p))
      /\ pc[p] \in {"paid", "claimed", "executing"} => Tx(p).state \in Running
      /\ pc[p] \in {"executing", "resuming"} /\ result[p] # 0 => effects[KeyOf(p)] > 0
  BY <1>1, AtWork DEF BackedInv, Backed, StageBacked, Tx, TypeInv, TypeOK
<1>3. CASE SettleSucceeds(p) \/ ReconcileSettled(p)
  <2>1. Persist(p, WithTx(p, Settled(Tx(p))), "paid", 0) /\ PaidFor(p)
    BY <1>3 DEF SettleSucceeds, ReconcileSettled, Save
  <2>2. PaidRequest(Settled(Tx(p))) /\ Settled(Tx(p)).state \in Running
    BY <1>2, <2>1, SameRequest DEF PaidRequest, PaidFor, ReplayKeyFor, Running
  <2> QED BY <1>1, <2>1, <2>2, SaveBacked
<1>4. CASE \/ ReconcileUnknown(p) \/ ReportExecutionUnknown(p)
           \/ ExecuteThrows(p) \/ WitnessUnknown(p)
  <2>1. PICK state \in {"unresolved", "execution_unknown"} :
          Persist(p, WithTx(p, [Tx(p) EXCEPT !.state = state]), "done", 0)
    BY <1>4 DEF ReconcileUnknown, ReportExecutionUnknown, ExecuteThrows, WitnessUnknown, Save
  <2>2. [Tx(p) EXCEPT !.state = state].state \notin Running
    BY <1>2, <2>1, SameRequest DEF Running
  <2> QED BY <1>1, <2>1, <2>2, SaveBacked
<1>5. CASE StartExecution(p)
  <2>1. /\ Persist(p, WithTx(p, [Tx(p) EXCEPT !.state = "executing"]), "executing", 0)
        /\ pc[p] = "claimed"
    BY <1>5 DEF StartExecution, Save
  <2> DEFINE s == [Tx(p) EXCEPT !.state = "executing"]
  <2>2. s.req = Tx(p).req /\ s.state = "executing"
    BY <1>2, SameRequest
  <2>3. Persist(p, WithTx(p, s), "executing", 0)
    BY <2>1
  <2> HIDE DEF s
  <2> QED BY <1>1, <1>2, <2>1, <2>2, <2>3, SaveBacked DEF PaidRequest, Running
<1>6. CASE Claim(p)
  <2>1. /\ Persist(p, WithTx(p, Claimed(Tx(p), uuid + 1)), "claimed", 0) /\ pc[p] = "paid"
    BY <1>6 DEF Claim, Claimed
  <2> DEFINE s == Claimed(Tx(p), uuid + 1)
  <2>2. s.req = Tx(p).req /\ s.state = "claimed"
    BY <1>2, SameRequest
  <2>3. Persist(p, WithTx(p, s), "claimed", 0)
    BY <2>1
  <2> HIDE DEF s
  <2> QED BY <1>1, <1>2, <2>1, <2>2, <2>3, SaveBacked DEF PaidRequest, Running
<1>7. CASE ExecuteReturns(p)
  <2>1. Persist(p, WithTx(p, Known(Tx(p), result[p])), "known", result[p])
    BY <1>7 DEF ExecuteReturns, Save
  <2>2. effects[KeyOf(p)] > 0
    BY <1>2, <1>7 DEF ExecuteReturns
  <2> QED BY <1>1, <2>1, <2>2, SaveBacked
<1>8. CASE ResumeReturns(p)
  <2>1. Persist(p, WithTx(p, Known(Tx(p), result[p])), "done", 0)
    BY <1>8 DEF ResumeReturns, Save
  <2>2. effects[KeyOf(p)] > 0
    BY <1>2, <1>8 DEF ResumeReturns
  <2> QED BY <1>1, <2>1, <2>2, SaveBacked
<1>9. CASE WitnessConfirmed(p)
  <2>1. PICK res \in 1 .. effects[KeyOf(p)] :
          Persist(p, WithTx(p, Known(Tx(p), res)), "done", 0)
    BY <1>9 DEF WitnessConfirmed, Save
  <2>2. effects[KeyOf(p)] > 0
    BY <1>2, <2>1
  <2> QED BY <1>1, <2>1, <2>2, SaveBacked
<1> QED BY <1>1, <1>3, <1>4, <1>5, <1>6, <1>7, <1>8, <1>9

(* Steps that write, or read again, more than the record.                  *)
LEMMA FilesBacked ==
  ASSUME TypeInv, BackedInv, NEW p \in Proc,
         \/ RecordIntent(p) \/ SettleUnknown(p) \/ Reread(p)
         \/ CommitFulfilment(p) \/ FinalizeRecovered(p) \/ Revalidate(p)
  PROVE  BackedInv' /\ effects' = effects
<1>1. pc[p] # "idle" /\ Growing /\ UNCHANGED <<call, used, effects>>
  BY DEF RecordIntent, SettleUnknown, Reread, CommitFulfilment, FinalizeRecovered,
         Revalidate, Save, worldVars, Growing
<1>2. /\ mem[p] \in File /\ Tx(p) \in Record /\ KeyOf(p) \in Key /\ Backed(mem[p])
      /\ Backed(disk) /\ WellFormed(mem[p]) /\ result[p] \in Result /\ 0 \in Result
      /\ pc[p] \in OnRecord => Tx(p).state \notin Unjournalled
  BY <1>1, AtWork, Gate1BAssumption DEF BackedInv, TypeInv, TypeOK, Result
<1>3. CASE RecordIntent(p)
  <2>1. PICK covered \in BOOLEAN : Persist(p, Reserved(p, covered), "intent", 0)
    BY <1>3 DEF RecordIntent, AnchorCovers
  <2> DEFINE f == Reserved(p, covered)
  <2>2. /\ f.rec[KeyOf(p)].state = "settlement_unknown"
        /\ \A j \in Key \ {KeyOf(p)} : f.rec[j] = mem[p].rec[j]
    BY <1>2 DEF Reserved, WithTx, File, EmptyRecord
  <2>3. Persist(p, f, "intent", 0)
    BY <2>1
  <2> HIDE DEF f
  <2>4. Backed(f)
    BY <1>2, <2>2 DEF Backed, Running
  <2> QED BY <1>1, <2>3, <2>4, PersistBacked
<1>4. CASE SettleUnknown(p)
  BY <1>1, <1>2, <1>4, PersistBacked DEF SettleUnknown, Save
<1>5. CASE Reread(p)
  <2>1. CASE pc' = [pc EXCEPT ![p] = "done"] /\ UNCHANGED mem
    <3>1. PICK r : result' = [result EXCEPT ![p] = r]
      BY <1>5 DEF Reread, TypeInv, TypeOK
    <3>2. UNCHANGED disk
      BY <1>5 DEF Reread
    <3> QED BY <1>1, <2>1, <3>1, <3>2, QuietBacked
  <2>2. CASE /\ pc' = [pc EXCEPT ![p] = "finalizing"] /\ UNCHANGED result
             /\ mem' = [mem EXCEPT ![p] = disk]
    <3>1. UNCHANGED disk /\ result' = [result EXCEPT ![p] = result[p]]
      BY <1>5, <2>2 DEF Reread, TypeInv, TypeOK
    <3>2. StageBacked(p)'
      BY <2>2 DEF StageBacked, TypeInv, TypeOK
    <3> QED BY <1>1, <1>2, <2>2, <3>1, <3>2, MemoryBacked
  <2> QED BY <1>5, <2>1, <2>2 DEF Reread, Goto
<1>6. CASE CommitFulfilment(p) \/ FinalizeRecovered(p)
  <2>a. \E res \in Result : \E f :
          /\ Tx(p).state \notin Unjournalled
          /\ f.rec = Fulfilled(mem[p], KeyOf(p), res).rec
          /\ Persist(p, f, "done", res)
    <3>1. CASE CommitFulfilment(p)
      BY <1>2, <3>1 DEF CommitFulfilment, Save, OnRecord, Label
    <3>2. CASE FinalizeRecovered(p)
      <4> DEFINE g == Fulfilled(mem[p], KeyOf(p), Tx(p).result)
                 kept == mem[p].receipts[Tx(p).id]
                 f == [g EXCEPT !.receipts[Tx(p).id] = IF kept = 0 THEN @ ELSE kept]
      <4>1. /\ Persist(p, f, "done", Tx(p).result)
            /\ Tx(p).state \notin Unjournalled /\ Tx(p).result \in Result
        BY <1>2, <3>2 DEF FinalizeRecovered, Eligible, Save, Unjournalled, Record
      <4>2. g \in File
        BY <1>2, <4>1, FulfilledFacts DEF Tx
      <4> HIDE DEF g, kept
      <4>3. f.rec = g.rec
        BY <4>2 DEF File
      <4> QED BY <4>1, <4>3 DEF g
    <3> QED BY <1>6, <3>1, <3>2
  <2>b. PICK res \in Result : \E f :
          /\ Tx(p).state \notin Unjournalled
          /\ f.rec = Fulfilled(mem[p], KeyOf(p), res).rec
          /\ Persist(p, f, "done", res)
    BY <2>a
  <2>1. PICK f : /\ Tx(p).state \notin Unjournalled
                 /\ f.rec = Fulfilled(mem[p], KeyOf(p), res).rec
                 /\ Persist(p, f, "done", res)
    BY <2>b
  <2> DEFINE g == Fulfilled(mem[p], KeyOf(p), res)
  <2>2. g.rec[KeyOf(p)].state = "fulfilled" /\ \A j \in Key \ {KeyOf(p)} : g.rec[j] = mem[p].rec[j]
    BY <1>2, <2>1, FulfilledFacts DEF Tx
  <2>3. f.rec = g.rec
    BY <2>1
  <2> HIDE DEF g
  <2>4. Backed(f)
    BY <1>2, <2>2, <2>3 DEF Backed, Running
  <2> QED BY <1>1, <2>1, <2>4, PersistBacked
<1>7. CASE Revalidate(p)
  <2>1. PICK covered \in BOOLEAN :
          mem' = [mem EXCEPT ![p] = WithTx(p, [Tx(p) EXCEPT !.anchored = covered])]
    BY <1>7 DEF Revalidate, AnchorCovers
  <2> DEFINE s == [Tx(p) EXCEPT !.anchored = covered]
             f == WithTx(p, s)
  <2>2. s.state = Tx(p).state /\ s.req = Tx(p).req
    BY <1>2 DEF Record
  <2>3. f.rec[KeyOf(p)] = s /\ \A j \in Key \ {KeyOf(p)} : f.rec[j] = mem[p].rec[j]
    BY <1>2 DEF WithTx, File
  <2>4. mem' = [mem EXCEPT ![p] = f]
    BY <2>1
  <2> HIDE DEF s, f
  <2>5. Backed(f)
    BY <1>2, <2>2, <2>3 DEF Backed, PaidRequest, Tx
  <2>6. /\ pc[p] = "revalidating" /\ pc' = [pc EXCEPT ![p] = "resuming"]
        /\ result' = [result EXCEPT ![p] = result[p]] /\ UNCHANGED disk
    BY <1>7 DEF Revalidate, Goto, TypeInv, TypeOK
  <2>7. StageBacked(p)'
    BY <2>6 DEF BackedInv, StageBacked, TypeInv, TypeOK
  <2> QED BY <1>1, <2>4, <2>5, <2>6, <2>7, MemoryBacked
<1> QED BY <1>1, <1>3, <1>4, <1>5, <1>6, <1>7

LEMMA EffectBacked ==
  ASSUME TypeInv, BackedInv, NEW p \in Proc, Effect(p)
  PROVE  BackedInv'
<1>1. /\ pc[p] \in {"executing", "resuming"} /\ pc' = [pc EXCEPT ![p] = pc[p]]
      /\ UNCHANGED <<disk, mem, call, used>>
      /\ effects' = [effects EXCEPT ![KeyOf(p)] = @ + 1]
      /\ result' = [result EXCEPT ![p] = effects[KeyOf(p)] + 1]
  BY DEF Effect, TypeInv, TypeOK
<1>2. KeyOf(p) \in Key /\ \A k \in Key : effects[k] \in Nat
  BY <1>1, AtWork DEF TypeInv, TypeOK
<1>3. Growing /\ effects'[KeyOf(p)] > 0
  BY <1>1, <1>2 DEF Growing, TypeInv, TypeOK
<1>4. pc[p] = "executing" => Tx(p).state \in Running
  BY DEF BackedInv, StageBacked
<1> QED BY <1>1, <1>3, <1>4, QuietBacked

LEMMA BackedNext == TypeInv /\ BackedInv /\ [Next]_vars => BackedInv'
<1> SUFFICES ASSUME TypeInv, BackedInv, [Next]_vars PROVE BackedInv'
  OBVIOUS
<1>1. CASE \E p \in Proc : \/ \E c \in Call : StartCall(p, c)
                           \/ Step(p) \/ Crash(p) \/ GuardianEvent(p)
  BY <1>1, EnvelopeBacked, MovesBacked, RecordsBacked, FilesBacked, EffectBacked
  DEF Step, InvokeStep, RecoveryStep
<1>2. CASE (\E n \in Nonce : AuthorizationUsed(n)) \/ UNCHANGED vars
  <2>1. UNCHANGED <<disk, mem, pc, call, result, effects>> /\ used \subseteq used'
    BY <1>2 DEF AuthorizationUsed, procVars, vars
  <2> QED BY <2>1 DEF BackedInv, Backed, PaidRequest, StageBacked, Tx, KeyOf
<1> QED BY <1>1, <1>2 DEF Next

FirstEffect ==
  \A k \in Key : effects[k] = 0 /\ effects'[k] > 0 =>
    \E p \in Proc :
      /\ pc[p] = "resuming" \/ (pc[p] = "executing" /\ PaidFor(p))
      /\ KeyOf(p) = k

LEMMA FirstEffectStep == TypeInv /\ BackedInv /\ [Next]_vars => FirstEffect
<1> SUFFICES ASSUME TypeInv, BackedInv, [Next]_vars, NEW k \in Key,
                    effects[k] = 0, effects'[k] > 0
             PROVE  \E p \in Proc :
                      /\ pc[p] = "resuming" \/ (pc[p] = "executing" /\ PaidFor(p))
                      /\ KeyOf(p) = k
  BY DEF FirstEffect
<1>1. effects' # effects
  OBVIOUS
<1>2. PICK p \in Proc : Effect(p)
  <2>1. CASE \E p \in Proc : \/ \E c \in Call : StartCall(p, c)
                             \/ Step(p) \/ Crash(p) \/ GuardianEvent(p)
    BY <1>1, <2>1, EnvelopeBacked, MovesBacked, RecordsBacked, FilesBacked
    DEF Step, InvokeStep, RecoveryStep
  <2>2. CASE (\E n \in Nonce : AuthorizationUsed(n)) \/ UNCHANGED vars
    BY <1>1, <2>2 DEF AuthorizationUsed, vars
  <2> QED BY <2>1, <2>2 DEF Next
<1>3. /\ pc[p] \in {"executing", "resuming"} /\ KeyOf(p) \in Key
      /\ effects' = [effects EXCEPT ![KeyOf(p)] = @ + 1]
  BY <1>2, AtWork DEF Effect
<1>4. KeyOf(p) = k
  BY <1>3 DEF TypeInv, TypeOK
<1>5. pc[p] = "executing" => PaidFor(p)
  BY <1>4 DEF BackedInv, StageBacked, Backed, PaidRequest, PaidFor, ReplayKeyFor, Tx
<1> QED BY <1>3, <1>4, <1>5

(* Whatever is lost, repeated or overwritten, a purchase is executed for   *)
(* the first time only by a call whose payment is on chain, or by the      *)
(* recovery an operator asked for, which does not look at the payment      *)
(* (lib/gate1b-production-adapter.mjs, recoverExecutionOutcome).  No       *)
(* assumption on locks, witnesses or the states an operator picks.         *)
THEOREM UnpaidRecovery == Spec => UnpaidOnlyByRecovery
<1>1. Spec => [](TypeInv /\ BackedInv)
  BY TypeInit, TypeNext, BackedInit, BackedNext, PTL DEF Spec
<1>2. TypeInv /\ BackedInv /\ [Next]_vars => [FirstEffect]_vars
  BY FirstEffectStep
<1>3. Spec => [][FirstEffect]_vars
  BY <1>1, <1>2, PTL DEF Spec
<1> QED BY <1>3 DEF UnpaidOnlyByRecovery, FirstEffect

=============================================================================
