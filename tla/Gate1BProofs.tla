---------------------------- MODULE Gate1BProofs ----------------------------
(***************************************************************************)
(* Proofs about Gate1B for any number of processes, keys, payments and     *)
(* nonces and for any bounds.                                              *)
(*                                                                         *)
(* The argument has three layers.  TypeInv is the type invariant together  *)
(* with what makes it inductive.  LockInv says who holds the kernel lock.  *)
(* JournalInv says that the lock owner works on the file as it is and what *)
(* the reserved replay keys have to do with the settle calls.  The last    *)
(* two need that assertOwned is exact (ExactOwnership): with LateClose, a  *)
(* process whose guardian just died can overwrite what the next owner of   *)
(* the lock has written.                                                   *)
(***************************************************************************)
EXTENDS Gate1B, TLAPS

Unjournalled == {"absent", "legacy"}

(* Every record that exists names a request, a missing one says nothing,   *)
(* and only journalled ones have an owner.                                 *)
WellFormed(f) ==
  \A k \in Key : /\ f.rec[k].state # "absent" => f.rec[k].req \in Request
                 /\ f.rec[k].state = "absent" => f.rec[k] = EmptyRecord
                 /\ f.rec[k].state \in Unjournalled => f.rec[k].owner = 0

(* Labels at which an operation works on a record that is journalled.      *)
OnRecord == Label \ {"idle", "waiting", "begin", "verifying", "done"}
OnClaim == {"claimed", "executing", "known"}

TypeInv ==
  /\ TypeOK
  /\ WellFormed(disk)
  /\ \A p \in Proc :
       /\ WellFormed(mem[p])
       /\ pc[p] = "verifying" => call[p].op = "invoke"
       /\ pc[p] \in OnRecord => Tx(p).state \notin Unjournalled
       /\ pc[p] \in OnClaim => Tx(p).owner # 0

LockInv ==
  \A p \in Proc :
    /\ pc[p] = "idle" => guardian[p] = "none"
    /\ pc[p] = "waiting" => guardian[p] = "queued"
    /\ pc[p] \notin {"idle", "waiting"} => guardian[p] \in {"holding", "exited"}
    /\ guardian[p] = "holding" => owned[p]
    /\ guardian[p] = "exited" => GuardianMayDie
    /\ owned[p] => guardian[p] \in {"holding", "exited"}
    /\ \A q \in Proc : guardian[p] = "holding" /\ guardian[q] = "holding" => p = q

(* The owner's copy of the file is the file, apart from the anchor that a  *)
(* revalidation moves in memory.                                           *)
Current(p) ==
  IF pc[p] = "resuming"
  THEN \E a \in BOOLEAN :
         mem[p] = [disk EXCEPT !.rec[KeyOf(p)] = [@ EXCEPT !.anchored = a]]
  ELSE mem[p] = disk

(* What the owner of the lock has established on its way.                  *)
OwnerInv(p) ==
  /\ pc[p] # "done" => Current(p)
  /\ pc[p] = "verifying" => /\ Tx(p).state = "absent"
                            /\ ReplayKeyOf[call[p].req.pay] \notin disk.replay
  /\ pc[p] = "intent" => settles[ReplayKeyFor(p)] = 0
  /\ pc[p] \in OnRecord => Tx(p).response = 0

(* What the file says of the authorizations.                               *)
ReplayInv ==
  /\ \A k \in Key : Journalled(k) => DiskReplayKey(k) \in disk.replay
  /\ OnePurchasePerReplayKey
  /\ JournalBeforeSettlement
  /\ SettledOncePerReplayKey

JournalInv == ReplayInv /\ \A p \in Proc : guardian[p] = "holding" => OwnerInv(p)

-----------------------------------------------------------------------------
(* Facts about the data.                                                   *)

LEMMA CallFields ==
  ASSUME NEW c \in Call
  PROVE  /\ c.key \in Key
         /\ c.op \in {"invoke", "finalize", "recover"}
         /\ c.op = "invoke" => c.req \in Request
  BY DEF Call

LEMMA RequestFields ==
  ASSUME NEW r \in Request PROVE ReplayKeyOf[r.pay] \in ReplayKey
  BY Gate1BAssumption DEF Request

LEMMA EmptyFileType == EmptyFile \in File /\ WellFormed(EmptyFile)
  <1>1. EmptyRecord \in Record
    BY Gate1BAssumption DEF EmptyRecord, Record, TxState, Id, Result
  <1>2. [i \in Id |-> 0] \in [Id -> Result]
    BY Gate1BAssumption DEF Id, Result
  <1> QED BY <1>1, <1>2 DEF EmptyFile, File, WellFormed, EmptyRecord

LEMMA LegacyRecordType ==
  ASSUME NEW r \in Request, NEW a \in Result
  PROVE  /\ LegacyRecord(r, a) \in Record
         /\ LegacyRecord(r, a).state = "legacy"
         /\ LegacyRecord(r, a).req = r
         /\ LegacyRecord(r, a).owner = 0
  <1>1. 0 \in Id /\ 0 \in Result
    BY Gate1BAssumption DEF Id, Result
  <1> QED BY <1>1 DEF LegacyRecord, EmptyRecord, Record, TxState

(* Replacing one record of a file by another journalled one.               *)
LEMMA WithRecord ==
  ASSUME NEW f \in File, NEW k \in Key, NEW r \in Record, WellFormed(f),
         r.state \notin Unjournalled, r.req \in Request
  PROVE  /\ [f EXCEPT !.rec[k] = r] \in File
         /\ WellFormed([f EXCEPT !.rec[k] = r])
         /\ [f EXCEPT !.rec[k] = r].rec[k] = r
         /\ \A j \in Key \ {k} : [f EXCEPT !.rec[k] = r].rec[j] = f.rec[j]
         /\ [f EXCEPT !.rec[k] = r].replay = f.replay
  BY DEF File, WellFormed, Unjournalled

(* The three updates of a journalled record that count generations.        *)
Claimed(r, o) == [r EXCEPT !.state = "claimed", !.owner = o, !.gen = @ + 1]

LEMMA RecordUpdates ==
  ASSUME NEW r \in Record, NEW res \in Result, NEW o \in Id
  PROVE  /\ Known(r, res).owner = r.owner
         /\ Settled(r) \in Record /\ Known(r, res) \in Record /\ Claimed(r, o) \in Record
         /\ Settled(r).req = r.req /\ Known(r, res).req = r.req /\ Claimed(r, o).req = r.req
         /\ Settled(r).state = "pending_fulfillment"
         /\ Known(r, res).state = "finalization_pending"
         /\ Claimed(r, o).state = "claimed" /\ Claimed(r, o).owner = o
<1> DEFINE g == r.gen + 1
<1>a. g \in Nat
  BY DEF Record
<1>b. /\ Settled(r) = [r EXCEPT !.settled = TRUE, !.state = "pending_fulfillment", !.gen = g]
      /\ Known(r, res) = [r EXCEPT !.result = res, !.state = "finalization_pending", !.gen = g]
      /\ Claimed(r, o) = [r EXCEPT !.state = "claimed", !.owner = o, !.gen = g]
  BY DEF Settled, Known, Claimed
<1> HIDE DEF g
<1>1. /\ Settled(r) \in Record /\ Settled(r).req = r.req
      /\ Settled(r).state = "pending_fulfillment"
  BY <1>a, <1>b DEF Record, TxState
<1>2. /\ Known(r, res) \in Record /\ Known(r, res).req = r.req
      /\ Known(r, res).state = "finalization_pending" /\ Known(r, res).owner = r.owner
  BY <1>a, <1>b DEF Record, TxState
<1>3. /\ Claimed(r, o) \in Record /\ Claimed(r, o).req = r.req
      /\ Claimed(r, o).state = "claimed" /\ Claimed(r, o).owner = o
  BY <1>a, <1>b DEF Record, TxState
<1> QED BY <1>1, <1>2, <1>3

(* Fulfilled changes one record and adds to the other parts of the file.   *)
LEMMA FulfilledFacts ==
  ASSUME NEW f \in File, NEW k \in Key, NEW res \in Result, WellFormed(f),
         f.rec[k].state \notin Unjournalled
  PROVE  LET g == Fulfilled(f, k, res)
         IN  /\ g \in File /\ WellFormed(g)
             /\ g.rec[k] = Answered(f.rec[k], res)
             /\ g.rec[k].state = "fulfilled" /\ g.rec[k].req = f.rec[k].req
             /\ \A j \in Key \ {k} : g.rec[j] = f.rec[j]
             /\ g.replay = f.replay \cup {ReplayKeyOf[f.rec[k].req.pay]}
<1> DEFINE g == Fulfilled(f, k, res)
           r == Answered(f.rec[k], res)
<1>1. f.rec[k] \in Record /\ f.rec[k].req \in Request
  BY DEF File, WellFormed, Unjournalled
<1>2. ReplayKeyOf[f.rec[k].req.pay] \in ReplayKey /\ f.rec[k].id \in Id
  BY <1>1, RequestFields DEF Record
<1>3. r \in Record /\ r.req = f.rec[k].req /\ r.state = "fulfilled"
  <2> DEFINE gen == f.rec[k].gen + 1
  <2>1. gen \in Nat /\ r = [f.rec[k] EXCEPT !.state = "fulfilled", !.response = res, !.gen = gen]
    BY <1>1 DEF Record, Answered
  <2> HIDE DEF gen, r
  <2> QED BY <1>1, <2>1 DEF Record, TxState
<1>4. /\ g \in File /\ g.rec[k] = r
      /\ g.replay = f.replay \cup {ReplayKeyOf[f.rec[k].req.pay]}
      /\ \A j \in Key \ {k} : g.rec[j] = f.rec[j]
  <2> HIDE DEF r
  <2> QED BY <1>2, <1>3 DEF Fulfilled, File, r
<1>5. WellFormed(g)
  BY <1>1, <1>3, <1>4 DEF WellFormed, Unjournalled
<1> QED BY <1>3, <1>4, <1>5

(* What TypeInv says of an operation at work.                              *)
LEMMA AtWork ==
  ASSUME TypeInv, NEW p \in Proc, pc[p] # "idle"
  PROVE  /\ call[p] \in Call
         /\ KeyOf(p) \in Key
         /\ mem[p] \in File
         /\ disk \in File
         /\ Tx(p) \in Record
         /\ Tx(p).state # "absent" => Tx(p).req \in Request
  BY CallFields DEF TypeInv, TypeOK, KeyOf, Tx, File, WellFormed

-----------------------------------------------------------------------------
(* TypeInv is inductive.                                                   *)

LEMMA TypeInit == Init => TypeInv
<1> SUFFICES ASSUME Init PROVE TypeInv
  OBVIOUS
<1>1. LockTypeOK
  BY DEF Init, LockInit, LockTypeOK
<1>8. PICK Old \in SUBSET LegacyKey : \E old \in [Old -> Request \X {0, 1}] :
        disk = [EmptyFile EXCEPT
                 !.rec = [k \in Key |-> IF k \in Old
                            THEN LegacyRecord(old[k][1], old[k][2])
                            ELSE EmptyRecord],
                 !.replay = {ReplayKeyOf[old[k][1].pay] : k \in Old}]
  BY DEF Init
<1>2. PICK old \in [Old -> Request \X {0, 1}] :
        disk = [EmptyFile EXCEPT
                 !.rec = [k \in Key |-> IF k \in Old
                            THEN LegacyRecord(old[k][1], old[k][2])
                            ELSE EmptyRecord],
                 !.replay = {ReplayKeyOf[old[k][1].pay] : k \in Old}]
  BY <1>8
<1>3. ASSUME NEW k \in Old
      PROVE  /\ k \in Key
             /\ old[k][1] \in Request
             /\ ReplayKeyOf[old[k][1].pay] \in ReplayKey
             /\ LegacyRecord(old[k][1], old[k][2]) \in Record
             /\ LegacyRecord(old[k][1], old[k][2]).state # "absent"
             /\ LegacyRecord(old[k][1], old[k][2]).req = old[k][1]
             /\ LegacyRecord(old[k][1], old[k][2]).owner = 0
  <2>1. old[k] \in Request \X {0, 1}
    OBVIOUS
  <2>2. old[k][1] \in Request /\ old[k][2] \in {0, 1}
    BY <2>1
  <2>3. {0, 1} \subseteq Result
    BY Gate1BAssumption DEF Result
  <2>4. ReplayKeyOf[old[k][1].pay] \in ReplayKey
    BY <2>2, RequestFields
  <2>5. k \in Key
    BY <1>8, Gate1BAssumption
  <2> QED BY <2>2, <2>3, <2>4, <2>5, LegacyRecordType
<1>4. EmptyRecord \in Record /\ EmptyRecord.state = "absent" /\ EmptyRecord.owner = 0
  BY Gate1BAssumption DEF EmptyRecord, Record, TxState, Id, Result
<1>5. disk \in File /\ WellFormed(disk)
  <2>1. disk.rec \in [Key -> Record]
    BY <1>2, <1>3, <1>4 DEF EmptyFile
  <2>2. disk.replay \subseteq ReplayKey
    BY <1>2, <1>3 DEF EmptyFile
  <2>3. [i \in Id |-> 0] \in [Id -> Result]
    BY Gate1BAssumption DEF Id, Result
  <2>4. disk \in File
    <3> DEFINE rec == [k \in Key |-> IF k \in Old
                            THEN LegacyRecord(old[k][1], old[k][2])
                            ELSE EmptyRecord]
               rep == {ReplayKeyOf[old[k][1].pay] : k \in Old}
    <3>1. rec \in [Key -> Record] /\ rep \subseteq ReplayKey
      BY <1>3, <1>4
    <3>2. disk = [EmptyFile EXCEPT !.rec = rec, !.replay = rep]
      BY <1>2
    <3> HIDE DEF rec, rep
    <3> QED BY <3>1, <3>2, <2>3, EmptyFileType DEF File
  <2>5. \A k \in Key : disk.rec[k] = IF k \in Old
                            THEN LegacyRecord(old[k][1], old[k][2])
                            ELSE EmptyRecord
    BY <1>2 DEF EmptyFile
  <2>6. WellFormed(disk)
    BY <2>5, <1>3, <1>4 DEF WellFormed
  <2> QED BY <2>4, <2>6
<1>6. mem = [p \in Proc |-> EmptyFile] /\ pc = [p \in Proc |-> "idle"]
  BY DEF Init
<1>7. TypeOK
  <2>1. 0 \in Id /\ 0 \in Result /\ 0 \in 0 .. MaxExec /\ 0 \in 0 .. MaxCrash
    BY Gate1BAssumption DEF Id, Result
  <2> QED
    BY <1>1, <1>5, <1>6, <2>1, EmptyFileType DEF Init, TypeOK, Label
<1> QED BY <1>5, <1>6, <1>7, EmptyFileType DEF TypeInv, OnRecord, OnClaim

(* An operation that moves on without touching anything, or settles.       *)
LEMMA AdvanceType ==
  ASSUME TypeInv, NEW p \in Proc, NEW label \in Label, pc[p] # "idle",
         Advance(p, label),
         label = "verifying" => call[p].op = "invoke",
         label \in OnRecord => Tx(p).state \notin Unjournalled,
         label \notin OnClaim
  PROVE  TypeInv'
<1>1. /\ pc' = [pc EXCEPT ![p] = label]
      /\ UNCHANGED <<guardian, owned, disk, mem, call, result, uuid, crashes,
                     used, settles, effects, replies>>
  BY DEF Advance, Goto, lockVars, worldVars
<1>2. TypeOK'
  BY <1>1 DEF TypeInv, TypeOK, LockTypeOK
<1> QED BY <1>1, <1>2 DEF TypeInv, TypeOK, WellFormed, Tx, KeyOf

LEMMA FinishType ==
  ASSUME TypeInv, NEW p \in Proc, NEW r \in Result, pc[p] # "idle", Finish(p, r)
  PROVE  TypeInv'
<1>1. /\ pc' = [pc EXCEPT ![p] = "done"]
      /\ result' = [result EXCEPT ![p] = r]
      /\ UNCHANGED <<guardian, owned, disk, mem, call, uuid, crashes,
                     used, settles, effects, replies>>
  BY DEF Finish, Goto, lockVars, worldVars
<1>2. TypeOK'
  BY <1>1 DEF TypeInv, TypeOK, LockTypeOK, Label
<1> QED BY <1>1, <1>2 DEF TypeInv, TypeOK, WellFormed, Tx, KeyOf, OnRecord, OnClaim

(* A durable write that leaves the operation's record journalled.          *)
LEMMA PersistType ==
  ASSUME TypeInv, NEW p \in Proc, NEW f \in File, NEW label \in Label,
         NEW r \in Result, pc[p] # "idle",
         Persist(p, f, label, r), WellFormed(f),
         f.rec[KeyOf(p)].state \notin Unjournalled, label # "verifying",
         label \in OnClaim => f.rec[KeyOf(p)].owner # 0,
         UNCHANGED <<guardian, owned, call, crashes, worldVars>>, uuid' \in Id
  PROVE  TypeInv'
<1>1. CASE AssertOwned(p)
  <2>1. /\ disk' = f
        /\ mem' = [mem EXCEPT ![p] = f]
        /\ pc' = [pc EXCEPT ![p] = label]
        /\ result' = [result EXCEPT ![p] = r]
        /\ UNCHANGED <<guardian, owned, call, crashes, used, settles, effects, replies>>
    BY <1>1 DEF Persist, Goto, worldVars
  <2>2. TypeOK'
    BY <2>1 DEF TypeInv, TypeOK, LockTypeOK
  <2> QED BY <2>1, <2>2 DEF TypeInv, TypeOK, WellFormed, Tx, KeyOf
<1>2. CASE ~AssertOwned(p)
  <2>1. /\ pc' = [pc EXCEPT ![p] = "done"]
        /\ result' = [result EXCEPT ![p] = 0]
        /\ UNCHANGED <<disk, mem, guardian, owned, call, crashes, used, settles, effects, replies>>
    BY <1>2 DEF Persist, Goto, worldVars
  <2>2. TypeOK'
    <3>1. 0 \in Result
      BY Gate1BAssumption DEF Result
    <3> QED BY <2>1, <3>1 DEF TypeInv, TypeOK, LockTypeOK, Label
  <2> QED BY <2>1, <2>2 DEF TypeInv, TypeOK, WellFormed, Tx, KeyOf, OnRecord, OnClaim
<1> QED BY <1>1, <1>2

(* A durable write of the operation's own record, which stays journalled.  *)
LEMMA SaveRecordType ==
  ASSUME TypeInv, NEW p \in Proc, NEW s \in Record, NEW label \in Label,
         NEW r \in Result, pc[p] # "idle", Tx(p).state \notin Unjournalled,
         Save(p, WithTx(p, s), label, r),
         s.state \notin Unjournalled, s.req = Tx(p).req, label # "verifying",
         label \in OnClaim => s.owner # 0
  PROVE  TypeInv'
<1> DEFINE f == WithTx(p, s)
<1>1. f \in File /\ WellFormed(f) /\ f.rec[KeyOf(p)] = s
  <2>1. s.req \in Request
    BY AtWork DEF Unjournalled
  <2> QED BY <2>1, AtWork, WithRecord DEF WithTx, TypeInv
<1>2. /\ Persist(p, f, label, r)
      /\ UNCHANGED <<guardian, owned, call, uuid, crashes, worldVars>>
  BY DEF Save, lockVars
<1>3. uuid' \in Id
  BY <1>2 DEF TypeInv, TypeOK
<1> HIDE DEF f
<1> QED BY <1>1, <1>2, <1>3, PersistType

LEMMA StartCallType ==
  ASSUME TypeInv, NEW p \in Proc, NEW c \in Call, StartCall(p, c)
  PROVE  TypeInv'
BY DEF TypeInv, TypeOK, LockTypeOK, WellFormed, Tx, KeyOf, Label, OnRecord, OnClaim,
       worldVars, Goto, StartCall, Enqueue

LEMMA AuthorizationUsedType ==
  ASSUME TypeInv, NEW n \in Nonce, AuthorizationUsed(n)
  PROVE  TypeInv'
BY DEF TypeInv, TypeOK, LockTypeOK, WellFormed, Tx, KeyOf, lockVars,
       procVars, AuthorizationUsed

(* The steps around an operation and the deaths.                           *)
LEMMA EnvelopeType ==
  ASSUME TypeInv, NEW p \in Proc,
         LockWaitFails(p) \/ Enter(p) \/ Return(p) \/ Crash(p) \/ GuardianEvent(p)
  PROVE  TypeInv'
<1> USE DEF TypeInv, TypeOK, LockTypeOK, WellFormed, Tx, KeyOf, Label,
            OnRecord, OnClaim, worldVars, lockVars, procVars, Goto
<1>1. CASE LockWaitFails(p)
  BY <1>1 DEF LockWaitFails, GiveUp
<1>2. CASE Enter(p)
  BY <1>2 DEF Enter, Grant
<1>3. CASE Return(p)
  <2>1. replies' \in [Key -> SUBSET (Request \X Result)]
    <3>1. KeyOf(p) \in Key
      BY <1>3, AtWork DEF Return
    <3>2. call[p].op = "invoke" => <<call[p].req, result[p]>> \in Request \X Result
      BY <1>3, CallFields DEF Return
    <3> QED BY <1>3, <3>1, <3>2 DEF Return
  <2>2. 0 \in Result
    BY Gate1BAssumption DEF Result
  <2> QED BY <1>3, <2>1, <2>2, EmptyFileType DEF Return, Release
<1>4. CASE Crash(p)
  <2>1. 0 \in Result /\ crashes + 1 \in 0 .. MaxCrash
    BY <1>4, Gate1BAssumption DEF Result, Crash
  <2> QED BY <1>4, <2>1, EmptyFileType DEF Crash, Release
<1>5. CASE GuardianEvent(p)
  <2>1. crashes' \in 0 .. MaxCrash
    BY <1>5, Gate1BAssumption DEF GuardianEvent
  <2> QED BY <1>5, <2>1 DEF GuardianEvent, GuardianDies, NoticeClose
<1> QED BY <1>1, <1>2, <1>3, <1>4, <1>5

LEMMA InvokeType ==
  ASSUME TypeInv, NEW p \in Proc, InvokeStep(p)
  PROVE  TypeInv'
<1>a. pc[p] # "idle"
  BY DEF InvokeStep, RejectInvoke, ReturnDuplicate, StartVerify, VerifyFails,
         RecordIntent, CallSettle, SettleSucceeds, SettleUnknown,
         StartReconcile, ReconcileSettled, ReconcileUnknown,
         ReportExecutionUnknown, ResumePaid, Claim, StartExecution, Effect,
         ExecuteReturns, ExecuteThrows, Reread, CommitFulfilment,
         CommitRefused, Invoking, Retrying
<1>b. /\ call[p] \in Call /\ KeyOf(p) \in Key
      /\ mem[p] \in File /\ disk \in File /\ Tx(p) \in Record
      /\ Tx(p).state # "absent" => Tx(p).req \in Request
      /\ pc[p] \in OnRecord => Tx(p).state \notin Unjournalled
      /\ WellFormed(mem[p]) /\ WellFormed(disk)
      /\ result[p] \in Result
      /\ pc[p] \in OnClaim => Tx(p).owner # 0
  BY <1>a, AtWork DEF TypeInv, TypeOK
<1>c. 0 \in Result /\ 0 \in Id
  BY Gate1BAssumption DEF Result, Id
<1>1. CASE RejectInvoke(p) \/ VerifyFails(p) \/ CommitRefused(p)
  BY <1>1, <1>a, <1>c, FinishType DEF RejectInvoke, VerifyFails, CommitRefused
<1>2. CASE ReturnDuplicate(p)
  <2>1. Tx(p).response \in Result
    BY <1>b DEF Record
  <2> QED BY <1>2, <2>1, <1>a, FinishType DEF ReturnDuplicate
<1>3. CASE StartVerify(p)
  BY <1>3, <1>a, AdvanceType DEF StartVerify, Invoking, Label, OnRecord, OnClaim
<1>4. CASE RecordIntent(p)
  <2> DEFINE n == ReplayKeyOf[call[p].req.pay]
  <2>1. PICK covered \in BOOLEAN : Persist(p, Reserved(p, covered), "intent", 0)
    BY <1>4 DEF RecordIntent, AnchorCovers
  <2>2. call[p].req \in Request /\ n \in ReplayKey
    BY <1>4, <1>b, CallFields, RequestFields DEF RecordIntent, TypeInv
  <2>3. covered \in BOOLEAN
    BY <2>1
  <2>4. uuid + 1 \in Id /\ uuid' \in Id
    BY <1>4, Gate1BAssumption DEF RecordIntent, TypeInv, TypeOK, Id
  <2> DEFINE intent == [EmptyRecord EXCEPT
        !.state = "settlement_unknown", !.req = call[p].req, !.gen = 1,
        !.id = uuid + 1, !.anchored = covered]
             f == WithTx(p, intent)
  <2>5. /\ intent \in Record /\ intent.req = call[p].req
        /\ intent.state = "settlement_unknown"
    BY <1>c, <2>2, <2>3, <2>4 DEF EmptyRecord, Record, TxState
  <2> HIDE DEF intent, n
  <2>6. f \in File /\ WellFormed(f) /\ f.rec[KeyOf(p)] = intent
    BY <1>b, <2>2, <2>5, WithRecord DEF WithTx, Unjournalled
  <2> HIDE DEF f
  <2>7. Reserved(p, covered) = [f EXCEPT !.replay = @ \cup {n}]
    BY DEF Reserved, f, n, intent
  <2>8. /\ Reserved(p, covered) \in File /\ WellFormed(Reserved(p, covered))
        /\ Reserved(p, covered).rec[KeyOf(p)] = intent
    BY <2>2, <2>6, <2>7 DEF File, WellFormed
  <2>9. UNCHANGED <<guardian, owned, call, crashes, worldVars>>
    BY <1>4 DEF RecordIntent, lockVars
  <2> QED
    BY <1>a, <1>c, <2>1, <2>4, <2>5, <2>8, <2>9, PersistType
    DEF Label, OnClaim, Unjournalled
<1>5. CASE CallSettle(p)
  <2>1. settles' \in [ReplayKey -> Nat]
    <3>1. ReplayKeyFor(p) \in ReplayKey
      BY <1>5, <1>b, RequestFields DEF CallSettle, ReplayKeyFor, OnRecord, Label, Unjournalled
    <3> QED BY <1>5, <3>1 DEF CallSettle, TypeInv, TypeOK
  <2>2. TypeOK'
    BY <1>5, <2>1 DEF CallSettle, TypeInv, TypeOK, LockTypeOK, lockVars, Goto, Label
  <2> QED
    BY <1>5, <2>2 DEF CallSettle, TypeInv, TypeOK, WellFormed, Tx, KeyOf,
                      lockVars, Goto, Label, OnRecord, OnClaim
<1>6. CASE SettleSucceeds(p) \/ ReconcileSettled(p)
  <2>1. Tx(p).state \notin Unjournalled
    BY <1>6, <1>b DEF SettleSucceeds, ReconcileSettled, OnRecord, Label
  <2>2. /\ Settled(Tx(p)) \in Record /\ Settled(Tx(p)).req = Tx(p).req
        /\ Settled(Tx(p)).state \notin Unjournalled
    BY <1>b, <1>c, RecordUpdates DEF Unjournalled
  <2>3. Save(p, WithTx(p, Settled(Tx(p))), "paid", 0)
    BY <1>6 DEF SettleSucceeds, ReconcileSettled
  <2> QED BY <1>a, <1>c, <2>1, <2>2, <2>3, SaveRecordType DEF Label, OnClaim
<1>7. CASE SettleUnknown(p)
  <2>1. Tx(p).state \notin Unjournalled
    BY <1>7, <1>b DEF SettleUnknown, OnRecord, Label
  <2>2. /\ Persist(p, mem[p], "done", 0) /\ uuid' \in Id
        /\ UNCHANGED <<guardian, owned, call, crashes, worldVars>>
    BY <1>7 DEF SettleUnknown, Save, lockVars, TypeInv, TypeOK
  <2>3. mem[p].rec[KeyOf(p)].state \notin Unjournalled
    BY <2>1 DEF Tx
  <2> QED BY <1>a, <1>b, <1>c, <2>2, <2>3, PersistType DEF Label, OnClaim
<1>8. CASE StartReconcile(p) \/ ResumePaid(p)
  BY <1>8, <1>a, AdvanceType
  DEF StartReconcile, ResumePaid, Retrying, Label, OnRecord, OnClaim, Unjournalled
<1>9. CASE ReconcileUnknown(p) \/ ReportExecutionUnknown(p) \/ ExecuteThrows(p)
             \/ StartExecution(p)
  <2>1. Tx(p).state \notin Unjournalled
    BY <1>9, <1>b DEF ReconcileUnknown, ReportExecutionUnknown, ExecuteThrows,
                      StartExecution, Retrying, OnRecord, Label, Unjournalled
  <2>2. PICK state \in {"unresolved", "execution_unknown", "executing"},
             label \in {"done", "executing"} :
          /\ Save(p, WithTx(p, [Tx(p) EXCEPT !.state = state]), label, 0)
          /\ label = "executing" => pc[p] = "claimed"
    BY <1>9 DEF ReconcileUnknown, ReportExecutionUnknown, ExecuteThrows, StartExecution
  <2> DEFINE s == [Tx(p) EXCEPT !.state = state]
  <2>3. /\ s \in Record /\ s.req = Tx(p).req /\ s.state \notin Unjournalled
        /\ s.owner = Tx(p).owner
    BY <1>b DEF Record, TxState, Unjournalled
  <2> HIDE DEF s
  <2>4. Save(p, WithTx(p, s), label, 0)
    BY <2>2 DEF s
  <2>5. label \in OnClaim => s.owner # 0
    BY <1>b, <2>2, <2>3 DEF OnClaim
  <2> QED BY <1>a, <1>c, <2>1, <2>3, <2>4, <2>5, SaveRecordType DEF Label
<1>10. CASE Claim(p)
  <2>1. Tx(p).state \notin Unjournalled
    BY <1>10, <1>b DEF Claim, OnRecord, Label
  <2> DEFINE s == Claimed(Tx(p), uuid + 1)
  <2>2. uuid + 1 \in Id /\ uuid + 1 # 0 /\ uuid' \in Id
    BY <1>10, Gate1BAssumption DEF Claim, TypeInv, TypeOK, Id
  <2>3. /\ s \in Record /\ s.req = Tx(p).req /\ s.state \notin Unjournalled
        /\ s.owner # 0
    BY <1>b, <1>c, <2>2, RecordUpdates DEF Unjournalled
  <2> HIDE DEF s
  <2>4. Persist(p, WithTx(p, s), "claimed", 0)
    BY <1>10 DEF Claim, Claimed, s
  <2>5. s.req \in Request
    BY <1>b, <2>1, <2>3 DEF Unjournalled
  <2>6. /\ WithTx(p, s) \in File /\ WellFormed(WithTx(p, s))
        /\ WithTx(p, s).rec[KeyOf(p)] = s
    BY <1>b, <2>3, <2>5, WithRecord DEF WithTx
  <2>7. UNCHANGED <<guardian, owned, call, crashes, worldVars>>
    BY <1>10 DEF Claim, lockVars
  <2> QED BY <1>a, <1>c, <2>2, <2>3, <2>4, <2>6, <2>7, PersistType DEF Label, OnClaim
<1>11. CASE Effect(p)
  <2>1. effects' \in [Key -> 0 .. MaxExec] /\ result' \in [Proc -> Result]
    <3>1. effects[KeyOf(p)] + 1 \in 0 .. MaxExec
      BY <1>11, <1>b, Gate1BAssumption DEF Effect, TypeInv, TypeOK
    <3> QED BY <1>11, <1>b, <3>1 DEF Effect, TypeInv, TypeOK, Result
  <2> QED
    BY <1>11, <2>1 DEF Effect, TypeInv, TypeOK, LockTypeOK, WellFormed, Tx, KeyOf, lockVars
<1>12. CASE ExecuteReturns(p)
  <2>1. Tx(p).state \notin Unjournalled
    BY <1>12, <1>b DEF ExecuteReturns, OnRecord, Label
  <2> DEFINE s == Known(Tx(p), result[p])
  <2>2. /\ s \in Record /\ s.req = Tx(p).req /\ s.state \notin Unjournalled
        /\ s.owner # 0
    BY <1>12, <1>b, <1>c, RecordUpdates DEF ExecuteReturns, OnClaim, Unjournalled
  <2> HIDE DEF s
  <2>3. Save(p, WithTx(p, s), "known", result[p])
    BY <1>12 DEF ExecuteReturns, s
  <2> QED BY <1>a, <1>b, <2>1, <2>2, <2>3, SaveRecordType DEF Label, OnClaim
<1>13. CASE Reread(p)
  <2>1. CASE mem' = [mem EXCEPT ![p] = disk] /\ pc' = [pc EXCEPT ![p] = "finalizing"]
             /\ UNCHANGED result /\ disk.rec[KeyOf(p)].owner = Tx(p).owner
    <3>1. /\ disk.rec[KeyOf(p)].state \notin Unjournalled
          /\ mem'[p] = disk
      BY <1>13, <1>b, <2>1 DEF Reread, WellFormed, OnClaim, TypeInv, TypeOK
    <3>2. TypeOK'
      BY <1>13, <1>b, <2>1 DEF Reread, TypeInv, TypeOK, LockTypeOK, lockVars, worldVars, Label
    <3>3. /\ WellFormed(disk)'
          /\ \A q \in Proc : WellFormed(mem[q])'
      BY <1>13, <1>b, <2>1, <3>1 DEF Reread, TypeInv, TypeOK, WellFormed
    <3>4. ASSUME NEW q \in Proc
          PROVE  /\ pc'[q] = "verifying" => call'[q].op = "invoke"
                 /\ pc'[q] \in OnRecord => Tx(q)'.state \notin Unjournalled
                 /\ pc'[q] \in OnClaim => Tx(q)'.owner # 0
      <4>1. call' = call /\ pc'[p] = "finalizing" /\ Tx(p)' = disk.rec[KeyOf(p)]
        BY <1>13, <2>1, <3>1 DEF Reread, Tx, KeyOf, TypeInv, TypeOK
      <4>2. q # p => pc'[q] = pc[q] /\ Tx(q)' = Tx(q)
        BY <4>1, <2>1 DEF Tx, KeyOf, TypeInv, TypeOK
      <4>3. CASE q = p
        BY <4>1, <4>3, <3>1 DEF OnClaim
      <4>4. CASE q # p
        BY <4>1, <4>2, <4>4 DEF TypeInv
      <4> QED BY <4>3, <4>4
    <3> QED BY <3>2, <3>3, <3>4 DEF TypeInv
  <2>2. CASE pc' = [pc EXCEPT ![p] = "done"] /\ result' = [result EXCEPT ![p] = 0]
             /\ UNCHANGED mem
    BY <1>13, <1>c, <2>2 DEF Reread, TypeInv, TypeOK, LockTypeOK, WellFormed, Tx, KeyOf,
                      lockVars, worldVars, Label, OnRecord, OnClaim
  <2> QED BY <1>13, <2>1, <2>2 DEF Reread, Goto
<1>14. CASE CommitFulfilment(p)
  <2>1. Tx(p).state \notin Unjournalled
    BY <1>14, <1>b DEF CommitFulfilment, OnRecord, Label
  <2> DEFINE f == Fulfilled(mem[p], KeyOf(p), result[p])
  <2>2. f \in File /\ WellFormed(f) /\ f.rec[KeyOf(p)].state \notin Unjournalled
    BY <1>b, <2>1, FulfilledFacts DEF Tx, Record, Unjournalled, File
  <2> HIDE DEF f
  <2>3. /\ Persist(p, f, "done", result[p]) /\ uuid' \in Id
        /\ UNCHANGED <<guardian, owned, call, crashes, worldVars>>
    BY <1>14 DEF CommitFulfilment, Save, lockVars, TypeInv, TypeOK, f
  <2> QED BY <1>a, <1>b, <2>2, <2>3, PersistType DEF Label, OnClaim
<1> QED
  BY <1>1, <1>2, <1>3, <1>4, <1>5, <1>6, <1>7, <1>8, <1>9, <1>10, <1>11, <1>12,
     <1>13, <1>14 DEF InvokeStep

LEMMA RecoveryType ==
  ASSUME TypeInv, NEW p \in Proc, RecoveryStep(p)
  PROVE  TypeInv'
<1>a. pc[p] # "idle"
  BY DEF RecoveryStep, FinalizeSkips, FinalizeRecovered, RecoverSkips,
         AskWitness, WitnessUnknown, WitnessConfirmed, WitnessUseless,
         WitnessNotObserved, RevalidateFails, Revalidate, ResumeReturns,
         ResumeThrows, Recovering
<1>b. /\ KeyOf(p) \in Key /\ mem[p] \in File /\ Tx(p) \in Record
      /\ Tx(p).state # "absent" => Tx(p).req \in Request
      /\ pc[p] \in OnRecord => Tx(p).state \notin Unjournalled
      /\ WellFormed(mem[p]) /\ result[p] \in Result
  BY <1>a, AtWork DEF TypeInv, TypeOK
<1>c. 0 \in Result /\ 0 \in Id
  BY Gate1BAssumption DEF Result, Id
<1>1. CASE FinalizeSkips(p) \/ RecoverSkips(p) \/ WitnessUseless(p)
             \/ RevalidateFails(p) \/ ResumeThrows(p)
  BY <1>1, <1>a, <1>c, FinishType
  DEF FinalizeSkips, RecoverSkips, WitnessUseless, RevalidateFails, ResumeThrows
<1>2. CASE AskWitness(p) \/ WitnessNotObserved(p)
  BY <1>2, <1>a, <1>b, AdvanceType
  DEF AskWitness, WitnessNotObserved, Unjournalled, Label, OnRecord, OnClaim
<1>3. CASE FinalizeRecovered(p)
  <2>1. Tx(p).state \notin Unjournalled
    BY <1>3 DEF FinalizeRecovered, Eligible, Unjournalled
  <2> DEFINE f == Fulfilled(mem[p], KeyOf(p), Tx(p).result)
             kept == mem[p].receipts[Tx(p).id]
             g == [f EXCEPT !.receipts[Tx(p).id] = IF kept = 0 THEN @ ELSE kept]
  <2>2. Tx(p).result \in Result /\ Tx(p).id \in Id
    BY <1>b DEF Record
  <2>3. f \in File /\ WellFormed(f) /\ f.rec[KeyOf(p)].state \notin Unjournalled
    <3>1. mem[p].rec[KeyOf(p)].state \notin Unjournalled
      BY <2>1 DEF Tx
    <3> QED BY <1>b, <2>2, <3>1, FulfilledFacts DEF Unjournalled
  <2>4. kept \in Result
    BY <1>b, <2>2 DEF File
  <2>5. Save(p, g, "done", Tx(p).result)
    BY <1>3 DEF FinalizeRecovered
  <2> HIDE DEF f, kept
  <2>6. g \in File /\ WellFormed(g) /\ g.rec[KeyOf(p)].state \notin Unjournalled
    BY <2>2, <2>3, <2>4 DEF File, WellFormed
  <2> HIDE DEF g
  <2>7. /\ Persist(p, g, "done", Tx(p).result) /\ uuid' \in Id
        /\ UNCHANGED <<guardian, owned, call, crashes, worldVars>>
    BY <2>5 DEF Save, lockVars, TypeInv, TypeOK
  <2> QED BY <1>a, <2>2, <2>6, <2>7, PersistType DEF Label, OnClaim
<1>4. CASE WitnessUnknown(p)
  <2>1. Tx(p).state \notin Unjournalled
    BY <1>4, <1>b DEF WitnessUnknown, OnRecord, Label
  <2> DEFINE s == [Tx(p) EXCEPT !.state = "execution_unknown"]
  <2>2. s \in Record /\ s.req = Tx(p).req /\ s.state \notin Unjournalled
    BY <1>b DEF Record, TxState, Unjournalled
  <2>3. Save(p, WithTx(p, s), "done", 0)
    BY <1>4 DEF WitnessUnknown
  <2> HIDE DEF s
  <2> QED BY <1>a, <1>c, <2>1, <2>2, <2>3, SaveRecordType DEF Label, OnClaim
<1>5. CASE WitnessConfirmed(p) \/ ResumeReturns(p)
  <2>1. Tx(p).state \notin Unjournalled
    BY <1>5, <1>b DEF WitnessConfirmed, ResumeReturns, OnRecord, Label
  <2>2. PICK res \in Result : Save(p, WithTx(p, Known(Tx(p), res)), "done", 0)
    <3>1. CASE WitnessConfirmed(p)
      <4>1. 1 .. effects[KeyOf(p)] \subseteq Result
        BY <1>b, Gate1BAssumption DEF TypeInv, TypeOK, Result
      <4> QED BY <3>1, <4>1 DEF WitnessConfirmed
    <3>2. CASE ResumeReturns(p)
      BY <3>2, <1>b DEF ResumeReturns
    <3> QED BY <1>5, <3>1, <3>2
  <2> DEFINE s == Known(Tx(p), res)
  <2>3. s \in Record /\ s.req = Tx(p).req /\ s.state \notin Unjournalled
    BY <1>b, <1>c, RecordUpdates DEF Unjournalled
  <2>4. Save(p, WithTx(p, s), "done", 0)
    BY <2>2
  <2> HIDE DEF s
  <2> QED BY <1>a, <1>c, <2>1, <2>3, <2>4, SaveRecordType DEF Label, OnClaim
<1>6. CASE Revalidate(p)
  <2>1. Tx(p).state \notin Unjournalled
    BY <1>6, <1>b DEF Revalidate, OnRecord, Label
  <2>2. PICK covered \in BOOLEAN :
          mem' = [mem EXCEPT ![p] = WithTx(p, [Tx(p) EXCEPT !.anchored = covered])]
    BY <1>6 DEF Revalidate, AnchorCovers
  <2> DEFINE s == [Tx(p) EXCEPT !.anchored = covered]
             f == WithTx(p, s)
  <2>3. s \in Record /\ s.req = Tx(p).req /\ s.state \notin Unjournalled
    BY <1>b, <2>1 DEF Record
  <2>4. f \in File /\ WellFormed(f) /\ f.rec[KeyOf(p)] = s
    BY <1>b, <2>1, <2>3, WithRecord DEF WithTx, Unjournalled
  <2>5. mem' = [mem EXCEPT ![p] = f]
    BY <2>2
  <2> HIDE DEF f, s
  <2>6. TypeOK'
    BY <1>6, <2>4, <2>5
    DEF Revalidate, TypeInv, TypeOK, LockTypeOK, lockVars, worldVars, Goto, Label
  <2>7. call' = call /\ disk' = disk /\ pc' = [pc EXCEPT ![p] = "resuming"]
    BY <1>6 DEF Revalidate, Goto
  <2>8. WellFormed(disk)' /\ \A q \in Proc : WellFormed(mem[q])'
    BY <2>4, <2>5, <2>7 DEF TypeInv, TypeOK, WellFormed
  <2>9. ASSUME NEW q \in Proc
        PROVE  /\ pc'[q] = "verifying" => call'[q].op = "invoke"
               /\ pc'[q] \in OnRecord => Tx(q)'.state \notin Unjournalled
               /\ pc'[q] \in OnClaim => Tx(q)'.owner # 0
    <3>1. CASE q = p
      BY <3>1, <2>3, <2>4, <2>5, <2>7 DEF Tx, KeyOf, OnClaim, TypeInv, TypeOK
    <3>2. CASE q # p
      BY <3>2, <2>5, <2>7 DEF Tx, KeyOf, TypeInv, TypeOK
    <3> QED BY <3>1, <3>2
  <2> QED BY <2>6, <2>8, <2>9 DEF TypeInv
<1> QED BY <1>1, <1>2, <1>3, <1>4, <1>5, <1>6 DEF RecoveryStep

LEMMA TypeNext == TypeInv /\ [Next]_vars => TypeInv'
<1> SUFFICES ASSUME TypeInv, [Next]_vars PROVE TypeInv'
  OBVIOUS
<1>1. CASE Next
  <2>1. ASSUME NEW p \in Proc, NEW c \in Call, StartCall(p, c) PROVE TypeInv'
    BY <2>1, StartCallType
  <2>2. ASSUME NEW p \in Proc, Step(p) \/ Crash(p) \/ GuardianEvent(p) PROVE TypeInv'
    BY <2>2, EnvelopeType, InvokeType, RecoveryType DEF Step
  <2>3. ASSUME NEW n \in Nonce, AuthorizationUsed(n) PROVE TypeInv'
    BY <2>3, AuthorizationUsedType
  <2> QED BY <1>1, <2>1, <2>2, <2>3 DEF Next
<1>2. CASE UNCHANGED vars
  BY <1>2 DEF vars, TypeInv, TypeOK, LockTypeOK, WellFormed, Tx, KeyOf
<1> QED BY <1>1, <1>2

(* The variables keep their types, whatever the instance: also when a      *)
(* process may act on a lock it has just lost (lib/gate1b-store.mjs).      *)
THEOREM TypeCorrect == Spec => []TypeOK
<1>1. Spec => []TypeInv
  BY TypeInit, TypeNext, PTL DEF Spec
<1>2. TypeInv => TypeOK
  BY DEF TypeInv
<1> QED BY <1>1, <1>2, PTL

-----------------------------------------------------------------------------
(* The lock.                                                               *)

(* No process passes assertOwned after its guardian died under it: either  *)
(* no guardian does, or the parent always notices first.                   *)
ExactOwnership == ~GuardianMayDie \/ ~LateClose

Within == Label \ {"idle", "waiting"}

(* The steps of an operation that runs move its label, not the lock.       *)
LEMMA RunningStep ==
  ASSUME TypeInv, NEW p \in Proc, InvokeStep(p) \/ RecoveryStep(p)
  PROVE  /\ UNCHANGED <<guardian, owned, call, crashes>>
         /\ pc[p] \in Within
         /\ \E label \in Within : pc' = [pc EXCEPT ![p] = label]
<1> USE DEF Advance, Finish, Save, Persist, Goto, lockVars, worldVars, Within,
            Label, Invoking, Retrying, Recovering
<1>1. CASE InvokeStep(p)
  <2>1. CASE Effect(p)
    BY <2>1 DEF Effect, TypeInv, TypeOK
  <2>2. CASE CallSettle(p) \/ RecordIntent(p) \/ Claim(p) \/ Reread(p)
    BY <2>2 DEF CallSettle, RecordIntent, Claim, Reread
  <2>3. CASE RejectInvoke(p) \/ ReturnDuplicate(p) \/ StartVerify(p)
               \/ VerifyFails(p) \/ CommitRefused(p)
    BY <2>3 DEF RejectInvoke, ReturnDuplicate, StartVerify, VerifyFails, CommitRefused
  <2>4. CASE SettleSucceeds(p) \/ SettleUnknown(p) \/ StartReconcile(p)
               \/ ReconcileSettled(p) \/ ReconcileUnknown(p)
    BY <2>4 DEF SettleSucceeds, SettleUnknown, StartReconcile, ReconcileSettled,
                ReconcileUnknown
  <2>5. CASE ReportExecutionUnknown(p) \/ ResumePaid(p) \/ StartExecution(p)
               \/ ExecuteReturns(p) \/ ExecuteThrows(p) \/ CommitFulfilment(p)
    BY <2>5 DEF ReportExecutionUnknown, ResumePaid, StartExecution,
                ExecuteReturns, ExecuteThrows, CommitFulfilment
  <2> QED BY <1>1, <2>1, <2>2, <2>3, <2>4, <2>5 DEF InvokeStep
<1>2. CASE RecoveryStep(p)
  <2>1. CASE FinalizeSkips(p) \/ FinalizeRecovered(p) \/ RecoverSkips(p)
               \/ AskWitness(p) \/ WitnessUnknown(p) \/ WitnessConfirmed(p)
    BY <2>1 DEF FinalizeSkips, FinalizeRecovered, RecoverSkips, AskWitness,
                WitnessUnknown, WitnessConfirmed
  <2>2. CASE WitnessUseless(p) \/ WitnessNotObserved(p) \/ RevalidateFails(p)
               \/ Revalidate(p) \/ ResumeReturns(p) \/ ResumeThrows(p)
    BY <2>2 DEF WitnessUseless, WitnessNotObserved, RevalidateFails, Revalidate,
                ResumeReturns, ResumeThrows
  <2> QED BY <1>2, <2>1, <2>2 DEF RecoveryStep
<1> QED BY <1>1, <1>2

LEMMA LockNext == TypeInv /\ LockInv /\ [Next]_vars => LockInv'
<1> SUFFICES ASSUME TypeInv, LockInv, [Next]_vars PROVE LockInv'
  OBVIOUS
<1> USE DEF LockInv, TypeInv, TypeOK, LockTypeOK, Goto
<1>1. ASSUME NEW p \in Proc, InvokeStep(p) \/ RecoveryStep(p) PROVE LockInv'
  BY <1>1, RunningStep DEF Within, Label
<1>2. ASSUME NEW p \in Proc, NEW c \in Call, StartCall(p, c) PROVE LockInv'
  BY <1>2 DEF StartCall, Enqueue
<1>3. ASSUME NEW p \in Proc, LockWaitFails(p) \/ Enter(p) PROVE LockInv'
  BY <1>3 DEF LockWaitFails, GiveUp, Enter, Grant, KernelLocked
<1>4. ASSUME NEW p \in Proc, Return(p) \/ Crash(p) PROVE LockInv'
  BY <1>4 DEF Return, Crash, Release
<1>5. ASSUME NEW p \in Proc, GuardianEvent(p) PROVE LockInv'
  BY <1>5 DEF GuardianEvent, GuardianDies, NoticeClose, procVars
<1>6. ASSUME NEW n \in Nonce, AuthorizationUsed(n) PROVE LockInv'
  BY <1>6 DEF AuthorizationUsed, lockVars, procVars
<1>7. CASE UNCHANGED vars
  BY <1>7 DEF vars
<1> QED BY <1>1, <1>2, <1>3, <1>4, <1>5, <1>6, <1>7 DEF Next, Step

LEMMA SafeLock == Spec => [](TypeInv /\ LockInv)
<1>1. Init => TypeInv /\ LockInv
  BY TypeInit DEF Init, LockInit, LockInv
<1>2. (TypeInv /\ LockInv) /\ [Next]_vars => (TypeInv /\ LockInv)'
  BY TypeNext, LockNext
<1> QED BY <1>1, <1>2, PTL DEF Spec

LEMMA OwnerHolds ==
  ASSUME LockInv, ExactOwnership, NEW p \in Proc
  PROVE  AssertOwned(p) <=> guardian[p] = "holding"
BY DEF LockInv, AssertOwned, ExactOwnership

-----------------------------------------------------------------------------
(* What one step may do to the file.                                       *)

(* A record that is worked on keeps its past.                              *)
RecordGrows(old, new) ==
  /\ old.state \notin Unjournalled /\ new.state \notin Unjournalled
  /\ old.response = 0
  /\ new.req = old.req /\ new.id = old.id
  /\ old.settled => new.settled
  /\ old.gen <= new.gen

FileGrows(f, g, k) ==
  /\ RecordGrows(f.rec[k], g.rec[k])
  /\ \A j \in Key \ {k} : g.rec[j] = f.rec[j]
  /\ f.replay \subseteq g.replay

(* The body of PastIsKept.                                                 *)
PastStep ==
  \A k \in Key :
    LET old == disk.rec[k]  new == disk'.rec[k] IN
    /\ old.state # "absent" => new.req = old.req /\ new.id = old.id
    /\ old.response # 0 => new = old
    /\ old.settled => new.settled
    /\ old.gen <= new.gen

SafeInv == TypeInv /\ LockInv /\ JournalInv

LEMMA Unwritten ==
  ASSUME SafeInv, disk' = disk PROVE PastStep
BY DEF SafeInv, TypeInv, TypeOK, File, Record, PastStep

(* The owner's copy agrees with the file but for the anchor of its record. *)
LEMMA OwnerFile ==
  ASSUME SafeInv, NEW p \in Proc, guardian[p] = "holding",
         pc[p] \notin {"idle", "waiting", "done"}
  PROVE  /\ KeyOf(p) \in Key
         /\ mem[p].replay = disk.replay
         /\ \A j \in Key \ {KeyOf(p)} : mem[p].rec[j] = disk.rec[j]
         /\ \A s \in Record : RecordGrows(Tx(p), s) => RecordGrows(disk.rec[KeyOf(p)], s)
         /\ pc[p] # "resuming" => mem[p] = disk
<1>1. KeyOf(p) \in Key /\ Current(p) /\ disk \in File
  BY AtWork DEF SafeInv, JournalInv, OwnerInv, TypeInv, TypeOK
<1>2. CASE pc[p] # "resuming"
  BY <1>1, <1>2 DEF Current, Tx
<1>3. CASE pc[p] = "resuming"
  <2>1. PICK a \in BOOLEAN :
          mem[p] = [disk EXCEPT !.rec[KeyOf(p)] = [@ EXCEPT !.anchored = a]]
    BY <1>1, <1>3 DEF Current
  <2>2. disk.rec[KeyOf(p)] \in Record
    BY <1>1 DEF File
  <2>3. /\ mem[p].replay = disk.replay
        /\ Tx(p) = [disk.rec[KeyOf(p)] EXCEPT !.anchored = a]
        /\ \A j \in Key \ {KeyOf(p)} : mem[p].rec[j] = disk.rec[j]
    BY <1>1, <2>1 DEF File, Tx
  <2>4. \A s \in Record : RecordGrows(Tx(p), s) => RecordGrows(disk.rec[KeyOf(p)], s)
    BY <2>2, <2>3 DEF RecordGrows, Record
  <2> QED BY <1>1, <1>3, <2>3, <2>4
<1> QED BY <1>2, <1>3

(* So writing its record back makes the file grow.                         *)
LEMMA OwnRecordGrows ==
  ASSUME SafeInv, NEW p \in Proc, guardian[p] = "holding",
         pc[p] \notin {"idle", "waiting", "done"},
         NEW s \in Record, RecordGrows(Tx(p), s)
  PROVE  FileGrows(disk, WithTx(p, s), KeyOf(p))
<1>1. mem[p] \in File
  BY DEF SafeInv, TypeInv, TypeOK
<1>2. /\ WithTx(p, s).rec[KeyOf(p)] = s
      /\ WithTx(p, s).replay = mem[p].replay
      /\ \A j \in Key \ {KeyOf(p)} : WithTx(p, s).rec[j] = mem[p].rec[j]
  BY <1>1, OwnerFile DEF WithTx, File
<1> QED BY <1>2, OwnerFile DEF FileGrows

(* ReplayInv survives any growth of the file.                               *)
LEMMA ReplaysKept ==
  ASSUME SafeInv, NEW k \in Key, settles' = settles,
         disk' = disk \/ FileGrows(disk, disk', k)
  PROVE  ReplayInv'
<1>1. /\ disk.replay \subseteq disk'.replay
      /\ \A j \in Key : Journalled(j)' <=> Journalled(j)
      /\ \A j \in Key : Journalled(j) => DiskReplayKey(j)' = DiskReplayKey(j)
  BY DEF FileGrows, RecordGrows, Journalled, DiskReplayKey, Unjournalled
<1> QED
  BY <1>1 DEF SafeInv, JournalInv, ReplayInv, OnePurchasePerReplayKey,
              JournalBeforeSettlement, SettledOncePerReplayKey

(* The steps that touch nothing but their label and result.                *)
LEMMA QuietJournal ==
  ASSUME SafeInv, NEW p \in Proc, NEW label \in Label,
         pc' = [pc EXCEPT ![p] = label],
         UNCHANGED <<guardian, disk, mem, call, settles>>,
         label \notin {"verifying", "intent", "resuming"},
         guardian[p] = "holding" =>
           /\ label # "done" => mem[p] = disk
           /\ label \in OnRecord => Tx(p).response = 0
  PROVE  JournalInv'
<1>1. ReplayInv'
  BY DEF SafeInv, JournalInv, ReplayInv, OnePurchasePerReplayKey, Journalled,
         DiskReplayKey, JournalBeforeSettlement, SettledOncePerReplayKey
<1>2. ASSUME NEW q \in Proc, guardian'[q] = "holding" PROVE OwnerInv(q)'
  <2>1. CASE q = p
    BY <1>2, <2>1 DEF SafeInv, TypeInv, TypeOK, OwnerInv, Current, Tx, KeyOf
  <2>2. CASE q # p
    BY <1>2, <2>2
    DEF SafeInv, TypeInv, TypeOK, JournalInv, OwnerInv, Current, Tx, KeyOf, ReplayKeyFor
  <2> QED BY <2>1, <2>2
<1> QED BY <1>1, <1>2 DEF JournalInv

(* A durable write by the owner that makes the file grow.                  *)
LEMMA PersistJournal ==
  ASSUME SafeInv, ExactOwnership, NEW p \in Proc, NEW f \in File,
         NEW label \in Label, NEW r \in Result,
         pc[p] \in Within, Persist(p, f, label, r),
         UNCHANGED <<guardian, call, settles>>,
         label \notin {"verifying", "intent", "resuming"},
         guardian[p] = "holding" =>
           /\ disk' = disk \/ FileGrows(disk, f, KeyOf(p))
           /\ label \in OnRecord => f.rec[KeyOf(p)].response = 0
  PROVE  JournalInv' /\ PastStep
<1>0. KeyOf(p) \in Key
  BY AtWork DEF SafeInv, Within
<1>1. CASE AssertOwned(p)
  <2>1. /\ guardian[p] = "holding" /\ disk' = f /\ mem' = [mem EXCEPT ![p] = f]
        /\ pc' = [pc EXCEPT ![p] = label]
    BY <1>1, OwnerHolds DEF SafeInv, Persist, Goto
  <2>2. ReplayInv'
    BY <1>0, <2>1, ReplaysKept
  <2>3. ASSUME NEW q \in Proc, guardian'[q] = "holding" PROVE OwnerInv(q)'
    <3>1. q = p
      BY <2>1, <2>3 DEF SafeInv, LockInv
    <3> QED
      BY <2>1, <3>1 DEF SafeInv, TypeInv, TypeOK, OwnerInv, Current, Tx, KeyOf
  <2>4. PastStep
    <3>1. disk \in File /\ disk' \in File
      BY <2>1 DEF SafeInv, TypeInv, TypeOK
    <3>2. CASE disk' = disk
      BY <3>2, Unwritten
    <3>3. CASE FileGrows(disk, f, KeyOf(p))
      BY <1>0, <2>1, <3>1, <3>3 DEF FileGrows, RecordGrows, PastStep, File, Record
    <3> QED BY <2>1, <3>2, <3>3
  <2> QED BY <2>2, <2>3, <2>4 DEF JournalInv
<1>2. CASE ~AssertOwned(p)
  <2>1. guardian[p] # "holding"
    BY <1>2, OwnerHolds DEF SafeInv
  <2>2. pc' = [pc EXCEPT ![p] = "done"] /\ UNCHANGED <<disk, mem>>
    BY <1>2 DEF Persist, Goto
  <2> QED BY <2>1, <2>2, QuietJournal, Unwritten DEF Label, OnRecord
<1> QED BY <1>1, <1>2

-----------------------------------------------------------------------------
(* Every step keeps JournalInv and the past.                               *)

(* How the updates of the code make a record grow.                         *)
LEMMA UpdatesGrow ==
  ASSUME NEW r \in Record, r.state \notin Unjournalled, r.response = 0,
         NEW res \in Result, NEW o \in Id
  PROVE  /\ RecordGrows(r, Settled(r)) /\ Settled(r).response = 0
         /\ RecordGrows(r, Known(r, res)) /\ Known(r, res).response = 0
         /\ RecordGrows(r, Claimed(r, o)) /\ Claimed(r, o).response = 0
         /\ RecordGrows(r, Answered(r, res))
         /\ \A state \in TxState \ Unjournalled :
              /\ RecordGrows(r, [r EXCEPT !.state = state])
              /\ [r EXCEPT !.state = state].response = 0
<1>1. r.gen \in Nat /\ r.gen <= r.gen /\ r.gen <= r.gen + 1
  BY DEF Record
<1>2. RecordGrows(r, Settled(r)) /\ Settled(r).response = 0
  BY <1>1 DEF RecordGrows, Settled, Record, Unjournalled
<1>3. RecordGrows(r, Known(r, res)) /\ Known(r, res).response = 0
  BY <1>1 DEF RecordGrows, Known, Record, Unjournalled
<1>4. RecordGrows(r, Claimed(r, o)) /\ Claimed(r, o).response = 0
  BY <1>1 DEF RecordGrows, Claimed, Record, Unjournalled
<1>5. RecordGrows(r, Answered(r, res))
  BY <1>1 DEF RecordGrows, Answered, Record, Unjournalled
<1>6. ASSUME NEW state \in TxState \ Unjournalled
      PROVE  /\ RecordGrows(r, [r EXCEPT !.state = state])
             /\ [r EXCEPT !.state = state].response = 0
  BY <1>1 DEF RecordGrows, Record
<1> QED BY <1>2, <1>3, <1>4, <1>5, <1>6

(* A step that saves a grown version of its own record.                    *)
LEMMA SaveJournal ==
  ASSUME SafeInv, ExactOwnership, NEW p \in Proc, NEW s \in Record,
         NEW label \in Label, NEW r \in Result,
         pc[p] \in Within \ {"done"}, Persist(p, WithTx(p, s), label, r),
         UNCHANGED <<guardian, call, settles>>,
         label \notin {"verifying", "intent", "resuming"},
         guardian[p] = "holding" =>
           /\ RecordGrows(Tx(p), s)
           /\ label \in OnRecord => s.response = 0,
         Tx(p).state \notin Unjournalled, s.req = Tx(p).req,
         s.state \notin Unjournalled
  PROVE  JournalInv' /\ PastStep
<1> DEFINE f == WithTx(p, s)
<1>1. f \in File /\ f.rec[KeyOf(p)] = s
  <2>1. s.req \in Request
    BY AtWork DEF SafeInv, Within, Unjournalled
  <2>2. /\ mem[p] \in File /\ WellFormed(mem[p]) /\ KeyOf(p) \in Key
    BY AtWork DEF SafeInv, Within, TypeInv
  <2> QED BY <2>1, <2>2, WithRecord DEF WithTx
<1>2. guardian[p] = "holding" => FileGrows(disk, f, KeyOf(p))
  BY OwnRecordGrows DEF Within
<1> HIDE DEF f
<1>3. Persist(p, f, label, r)
  BY DEF f
<1> QED BY <1>1, <1>2, <1>3, PersistJournal

(* invoke, the steps that only move on.                                    *)
LEMMA InvokeQuietJournal ==
  ASSUME SafeInv, NEW p \in Proc,
         \/ RejectInvoke(p) \/ ReturnDuplicate(p) \/ VerifyFails(p)
         \/ CommitRefused(p) \/ StartReconcile(p) \/ ResumePaid(p)
  PROVE  JournalInv' /\ PastStep
<1>1. PICK label \in {"done", "reconciling", "paid"} :
        /\ pc' = [pc EXCEPT ![p] = label]
        /\ label # "done" => pc[p] = "begin" /\ Tx(p).response = 0
        /\ UNCHANGED <<guardian, disk, mem, call, settles>>
  BY DEF RejectInvoke, ReturnDuplicate, VerifyFails, CommitRefused,
         StartReconcile, ResumePaid, Retrying, Invoking, Advance, Finish, Goto,
         lockVars, worldVars
<1>2. guardian[p] = "holding" /\ label # "done" => mem[p] = disk
  BY <1>1, OwnerFile
<1> QED BY <1>1, <1>2, QuietJournal, Unwritten DEF Label, OnRecord

LEMMA StartVerifyJournal ==
  ASSUME SafeInv, NEW p \in Proc, StartVerify(p)
  PROVE  JournalInv' /\ PastStep
<1>1. /\ pc[p] = "begin" /\ pc' = [pc EXCEPT ![p] = "verifying"]
      /\ Tx(p).state = "absent"
      /\ ReplayKeyOf[call[p].req.pay] \notin mem[p].replay
      /\ UNCHANGED <<guardian, disk, mem, call, settles>>
  BY DEF StartVerify, Invoking, Advance, Goto, lockVars, worldVars
<1>2. ReplayInv'
  BY <1>1, ReplaysKept, AtWork DEF SafeInv
<1>3. ASSUME NEW q \in Proc, guardian'[q] = "holding" PROVE OwnerInv(q)'
  <2>1. CASE q = p
    <3>1. mem[p] = disk
      BY <1>1, <1>3, <2>1, OwnerFile
    <3> QED
      BY <1>1, <2>1, <3>1
      DEF SafeInv, TypeInv, TypeOK, OwnerInv, Current, Tx, KeyOf, OnRecord
  <2>2. CASE q # p
    BY <1>1, <1>3, <2>2
    DEF SafeInv, TypeInv, TypeOK, JournalInv, OwnerInv, Current, Tx, KeyOf, ReplayKeyFor
  <2> QED BY <2>1, <2>2
<1> QED BY <1>1, <1>2, <1>3, Unwritten DEF JournalInv

(* The intent takes a nonce that no purchase has reserved, so none was     *)
(* settled with it.                                                        *)
LEMMA RecordIntentJournal ==
  ASSUME SafeInv, ExactOwnership, NEW p \in Proc, RecordIntent(p)
  PROVE  JournalInv' /\ PastStep
<1>1. /\ pc[p] = "verifying"
      /\ UNCHANGED <<guardian, owned, call, settles>>
  BY DEF RecordIntent, lockVars, worldVars
<1>2. PICK k \in Key, n \in ReplayKey : k = KeyOf(p) /\ n = ReplayKeyOf[call[p].req.pay]
  BY <1>1, AtWork, CallFields, RequestFields DEF SafeInv, TypeInv
<1>3. PICK covered \in BOOLEAN : Persist(p, Reserved(p, covered), "intent", 0)
  BY <1>2 DEF RecordIntent, AnchorCovers
<1>4. CASE AssertOwned(p)
  <2>1. /\ guardian[p] = "holding" /\ disk' = Reserved(p, covered)
        /\ mem' = [mem EXCEPT ![p] = disk'] /\ pc' = [pc EXCEPT ![p] = "intent"]
    BY <1>3, <1>4, OwnerHolds DEF SafeInv, Persist, Goto
  <2>2. /\ mem[p] = disk /\ disk \in File
        /\ disk.rec[k].state = "absent" /\ n \notin disk.replay
    BY <1>1, <1>2, <2>1, OwnerFile DEF SafeInv, JournalInv, OwnerInv, Tx, TypeInv, TypeOK
  <2>3. /\ disk'.replay = disk.replay \cup {n}
        /\ disk'.rec[k].state = "settlement_unknown"
        /\ disk'.rec[k].req = call[p].req
        /\ disk'.rec[k].response = 0 /\ disk'.rec[k].gen = 1
        /\ \A j \in Key \ {k} : disk'.rec[j] = disk.rec[j]
    BY <1>2, <2>1, <2>2 DEF Reserved, WithTx, File, EmptyRecord
  <2>4. /\ \A j \in Key \ {k} : Journalled(j)' = Journalled(j) /\ DiskReplayKey(j)' = DiskReplayKey(j)
        /\ ~Journalled(k) /\ Journalled(k)' /\ DiskReplayKey(k)' = n
    <3>1. DiskReplayKey(k)' = n
      BY <1>2, <2>3 DEF DiskReplayKey
    <3>2. ~Journalled(k) /\ Journalled(k)'
      BY <2>2, <2>3 DEF Journalled
    <3>3. \A j \in Key \ {k} : Journalled(j)' = Journalled(j) /\ DiskReplayKey(j)' = DiskReplayKey(j)
      BY <2>3 DEF Journalled, DiskReplayKey
    <3> QED BY <3>1, <3>2, <3>3
  <2>5. ReplayInv'
    BY <1>1, <1>2, <2>2, <2>3, <2>4
    DEF SafeInv, JournalInv, ReplayInv, OnePurchasePerReplayKey,
        JournalBeforeSettlement, SettledOncePerReplayKey
  <2>6. settles[n] = 0
    BY <1>2, <2>2 DEF SafeInv, JournalInv, ReplayInv, JournalBeforeSettlement,
                      TypeInv, TypeOK
  <2>7. ASSUME NEW q \in Proc, guardian'[q] = "holding" PROVE OwnerInv(q)'
    <3>1. q = p
      BY <1>1, <2>1, <2>7 DEF SafeInv, LockInv
    <3>2. /\ pc'[p] = "intent" /\ mem'[p] = disk' /\ KeyOf(p)' = k
          /\ Tx(p)' = disk'.rec[k]
      BY <1>1, <1>2, <2>1 DEF SafeInv, TypeInv, TypeOK, Tx, KeyOf
    <3>3. settles'[ReplayKeyFor(p)'] = 0 /\ Tx(p)'.response = 0
      BY <1>1, <1>2, <2>3, <2>6, <3>2 DEF ReplayKeyFor
    <3> QED BY <3>1, <3>2, <3>3 DEF OwnerInv, Current
  <2>8. PastStep
    <3>1. disk.rec[k].response = 0 /\ ~disk.rec[k].settled /\ disk.rec[k].gen = 0
      BY <1>2, <2>2 DEF SafeInv, TypeInv, WellFormed, EmptyRecord
    <3>2. \A j \in Key : disk.rec[j].gen \in Nat
      BY <2>2 DEF File, Record
    <3> QED BY <2>2, <2>3, <3>1, <3>2 DEF PastStep
  <2> QED BY <2>5, <2>7, <2>8 DEF JournalInv
<1>5. CASE ~AssertOwned(p)
  <2>1. guardian[p] # "holding"
    BY <1>5, OwnerHolds DEF SafeInv
  <2>2. pc' = [pc EXCEPT ![p] = "done"] /\ UNCHANGED <<disk, mem>>
    BY <1>3, <1>5 DEF Persist, Goto
  <2> QED BY <1>1, <2>1, <2>2, QuietJournal, Unwritten DEF Label, OnRecord
<1> QED BY <1>4, <1>5

(* invoke, the steps that save the record they work on.                    *)
LEMMA InvokeSaveJournal ==
  ASSUME SafeInv, ExactOwnership, NEW p \in Proc,
         \/ SettleSucceeds(p) \/ ReconcileSettled(p) \/ ReconcileUnknown(p)
         \/ ReportExecutionUnknown(p) \/ Claim(p) \/ StartExecution(p)
         \/ ExecuteReturns(p) \/ ExecuteThrows(p)
  PROVE  JournalInv' /\ PastStep
<1>1. /\ pc[p] \in Within \ {"done"}
      /\ UNCHANGED <<guardian, call, settles>>
      /\ guardian[p] = "holding" => Tx(p).response = 0
      /\ Tx(p).state \notin Unjournalled
  BY DEF SafeInv, TypeInv, JournalInv, OwnerInv, SettleSucceeds,
         ReconcileSettled, ReconcileUnknown, ReportExecutionUnknown, Claim,
         StartExecution, ExecuteReturns, ExecuteThrows, Retrying, Invoking,
         Save, Within, Label, OnRecord, Unjournalled, lockVars, worldVars
<1>2. Tx(p) \in Record /\ result[p] \in Result /\ 0 \in Result
  BY <1>1, AtWork, Gate1BAssumption DEF SafeInv, TypeInv, TypeOK, Within, Result
<1>3. PICK s \in Record, label \in {"paid", "done", "claimed", "executing", "known"},
           r \in Result :
        /\ Persist(p, WithTx(p, s), label, r)
        /\ s.req = Tx(p).req /\ s.state \notin Unjournalled
        /\ Tx(p).response = 0 => s.response = 0 /\ RecordGrows(Tx(p), s)
  <2>1. CASE SettleSucceeds(p) \/ ReconcileSettled(p)
    <3>1. Persist(p, WithTx(p, Settled(Tx(p))), "paid", 0)
      BY <2>1 DEF SettleSucceeds, ReconcileSettled, Save
    <3> QED BY <1>1, <1>2, <3>1, RecordUpdates, UpdatesGrow, Gate1BAssumption
            DEF Unjournalled, Id
  <2>2. CASE ReconcileUnknown(p) \/ ReportExecutionUnknown(p)
               \/ StartExecution(p) \/ ExecuteThrows(p)
    <3>1. PICK state \in {"unresolved", "execution_unknown", "executing"},
               label \in {"done", "executing"} :
            Persist(p, WithTx(p, [Tx(p) EXCEPT !.state = state]), label, 0)
      BY <2>2 DEF ReconcileUnknown, ReportExecutionUnknown, StartExecution,
                  ExecuteThrows, Save
    <3>2. /\ [Tx(p) EXCEPT !.state = state] \in Record
          /\ [Tx(p) EXCEPT !.state = state].req = Tx(p).req
          /\ [Tx(p) EXCEPT !.state = state].state \notin Unjournalled
      BY <1>2 DEF Record, TxState, Unjournalled
    <3>3. Tx(p).response = 0 =>
            /\ RecordGrows(Tx(p), [Tx(p) EXCEPT !.state = state])
            /\ [Tx(p) EXCEPT !.state = state].response = 0
      <4>1. state \in TxState \ Unjournalled /\ 0 \in Id
        BY Gate1BAssumption DEF TxState, Unjournalled, Id
      <4> QED BY <1>1, <1>2, <4>1, UpdatesGrow
    <3> QED BY <1>2, <3>1, <3>2, <3>3
  <2>3. CASE Claim(p)
    <3>1. Persist(p, WithTx(p, Claimed(Tx(p), uuid + 1)), "claimed", 0)
      BY <2>3 DEF Claim, Claimed
    <3>2. uuid + 1 \in Id
      BY <2>3, Gate1BAssumption DEF Claim, SafeInv, TypeInv, TypeOK, Id
    <3> QED BY <1>1, <1>2, <3>1, <3>2, RecordUpdates, UpdatesGrow DEF Unjournalled
  <2>4. CASE ExecuteReturns(p)
    <3>1. Persist(p, WithTx(p, Known(Tx(p), result[p])), "known", result[p])
      BY <2>4 DEF ExecuteReturns, Save
    <3> QED BY <1>1, <1>2, <3>1, RecordUpdates, UpdatesGrow, Gate1BAssumption
            DEF Unjournalled, Id
  <2> QED BY <2>1, <2>2, <2>3, <2>4
<1> QED BY <1>1, <1>3, SaveJournal DEF Label

LEMMA SettleUnknownJournal ==
  ASSUME SafeInv, ExactOwnership, NEW p \in Proc, SettleUnknown(p)
  PROVE  JournalInv' /\ PastStep
<1>1. /\ pc[p] = "settling" /\ Persist(p, mem[p], "done", 0)
      /\ UNCHANGED <<guardian, call, settles>>
  BY DEF SettleUnknown, Save, lockVars, worldVars
<1>2. guardian[p] = "holding" => mem[p] = disk
  BY <1>1, OwnerFile
<1>3. mem[p] \in File /\ 0 \in Result
  BY Gate1BAssumption DEF SafeInv, TypeInv, TypeOK, Result
<1>4. guardian[p] = "holding" => disk' = disk
  BY <1>1, <1>2, OwnerHolds DEF Persist, SafeInv
<1> QED BY <1>1, <1>3, <1>4, PersistJournal DEF Within, Label, OnRecord

(* The only step that asks for money: once per reserved nonce.             *)
LEMMA CallSettleJournal ==
  ASSUME SafeInv, ExactOwnership, NEW p \in Proc, CallSettle(p)
  PROVE  JournalInv' /\ PastStep
<1>1. CASE AssertOwned(p)
  <2>1. /\ pc[p] = "intent" /\ guardian[p] = "holding"
        /\ settles' = [settles EXCEPT ![ReplayKeyFor(p)] = @ + 1]
        /\ pc' = [pc EXCEPT ![p] = "settling"]
        /\ UNCHANGED <<guardian, disk, mem, call>>
    BY <1>1, OwnerHolds DEF SafeInv, CallSettle, Goto, lockVars
  <2>2. PICK k \in Key, n \in ReplayKey :
          /\ k = KeyOf(p) /\ n = ReplayKeyFor(p)
          /\ Journalled(k) /\ DiskReplayKey(k) = n /\ settles[n] = 0
    <3>1. mem[p] = disk
      BY <2>1, OwnerFile
    <3>2. KeyOf(p) \in Key /\ Tx(p).state \notin Unjournalled /\ Tx(p).req \in Request
      BY <2>1, AtWork DEF SafeInv, TypeInv, OnRecord, Label, Unjournalled
    <3>3. settles[ReplayKeyFor(p)] = 0
      BY <2>1 DEF SafeInv, JournalInv, OwnerInv
    <3>4. ReplayKeyFor(p) \in ReplayKey
      BY <3>2, RequestFields DEF ReplayKeyFor
    <3> QED BY <3>1, <3>2, <3>3, <3>4
            DEF Journalled, DiskReplayKey, ReplayKeyFor, Tx, Unjournalled
  <2>3. settles' = [settles EXCEPT ![n] = 1] /\ settles \in [ReplayKey -> Nat]
    BY <2>1, <2>2 DEF SafeInv, TypeInv, TypeOK
  <2>4. ReplayInv'
    BY <2>1, <2>2, <2>3
    DEF SafeInv, JournalInv, ReplayInv, OnePurchasePerReplayKey, Journalled,
        DiskReplayKey, JournalBeforeSettlement, SettledOncePerReplayKey
  <2>5. ASSUME NEW q \in Proc, guardian'[q] = "holding" PROVE OwnerInv(q)'
    <3>1. q = p
      BY <2>1, <2>5 DEF SafeInv, LockInv
    <3>2. mem[p] = disk /\ Tx(p).response = 0
      BY <2>1, OwnerFile DEF SafeInv, JournalInv, OwnerInv, OnRecord, Label
    <3> QED
      BY <2>1, <3>1, <3>2 DEF SafeInv, TypeInv, TypeOK, OwnerInv, Current, Tx, KeyOf
  <2> QED BY <2>1, <2>4, <2>5, Unwritten DEF JournalInv
<1>2. CASE ~AssertOwned(p)
  <2>1. /\ guardian[p] # "holding" /\ pc' = [pc EXCEPT ![p] = "done"]
        /\ UNCHANGED <<guardian, disk, mem, call, settles>>
    BY <1>2, OwnerHolds DEF CallSettle, SafeInv, Goto, lockVars
  <2> QED BY <2>1, QuietJournal, Unwritten DEF Label, OnRecord
<1> QED BY <1>1, <1>2

(* The executor's effect changes nothing of this.                          *)
LEMMA EffectJournal ==
  ASSUME SafeInv, NEW p \in Proc, Effect(p)
  PROVE  JournalInv' /\ PastStep
<1>1. UNCHANGED <<guardian, disk, mem, pc, call, settles>>
  BY DEF Effect, lockVars
<1>2. ReplayInv'
  BY <1>1
  DEF SafeInv, JournalInv, ReplayInv, OnePurchasePerReplayKey, Journalled,
      DiskReplayKey, JournalBeforeSettlement, SettledOncePerReplayKey
<1>3. ASSUME NEW q \in Proc, guardian'[q] = "holding" PROVE OwnerInv(q)'
  <2>1. OwnerInv(q)
    BY <1>1, <1>3 DEF SafeInv, JournalInv
  <2> QED BY <1>1, <2>1 DEF OwnerInv, Current, Tx, KeyOf, ReplayKeyFor
<1> QED BY <1>1, <1>2, <1>3, Unwritten DEF JournalInv

LEMMA RereadJournal ==
  ASSUME SafeInv, NEW p \in Proc, Reread(p)
  PROVE  JournalInv' /\ PastStep
<1>1. pc[p] = "known" /\ UNCHANGED <<guardian, disk, call, settles>>
  BY DEF Reread, lockVars, worldVars
<1>2. CASE mem' = [mem EXCEPT ![p] = disk] /\ pc' = [pc EXCEPT ![p] = "finalizing"]
  <2>1. guardian[p] = "holding" => mem' = mem /\ Tx(p).response = 0 /\ mem[p] = disk
    BY <1>1, <1>2, OwnerFile
    DEF SafeInv, JournalInv, OwnerInv, OnRecord, Label, TypeInv, TypeOK
  <2>2. CASE guardian[p] = "holding"
    BY <1>1, <1>2, <2>1, <2>2, QuietJournal, Unwritten DEF Label
  <2>3. CASE guardian[p] # "holding"
    <3>1. ReplayInv'
      BY <1>1, ReplaysKept, AtWork DEF SafeInv
    <3>2. ASSUME NEW q \in Proc, guardian'[q] = "holding" PROVE OwnerInv(q)'
      BY <1>1, <1>2, <2>3, <3>2
      DEF SafeInv, TypeInv, TypeOK, JournalInv, OwnerInv, Current, Tx, KeyOf, ReplayKeyFor
    <3> QED BY <1>1, <3>1, <3>2, Unwritten DEF JournalInv
  <2> QED BY <2>2, <2>3
<1>3. CASE mem' = mem /\ pc' = [pc EXCEPT ![p] = "done"]
  BY <1>1, <1>3, QuietJournal, Unwritten DEF Label, OnRecord
<1> QED BY <1>2, <1>3 DEF Reread, Goto

(* The two finalizations answer the record and reserve its nonce for good. *)
LEMMA FulfilJournal ==
  ASSUME SafeInv, ExactOwnership, NEW p \in Proc,
         CommitFulfilment(p) \/ FinalizeRecovered(p)
  PROVE  JournalInv' /\ PastStep
<1>1. /\ pc[p] \in {"begin", "finalizing"} /\ Tx(p).state \notin Unjournalled
      /\ UNCHANGED <<guardian, call, settles>>
      /\ guardian[p] = "holding" => Tx(p).response = 0 /\ mem[p] = disk
  BY OwnerFile
  DEF CommitFulfilment, FinalizeRecovered, Eligible, Save, lockVars, worldVars,
      SafeInv, TypeInv, JournalInv, OwnerInv, OnRecord, Label, Unjournalled
<1>2. /\ KeyOf(p) \in Key /\ Tx(p) \in Record /\ mem[p] \in File
      /\ WellFormed(mem[p]) /\ result[p] \in Result
  BY <1>1, AtWork DEF SafeInv, TypeInv, TypeOK
<1>3. PICK f \in File, r \in Result :
        /\ Persist(p, f, "done", r)
        /\ f.rec = Fulfilled(mem[p], KeyOf(p), r).rec
        /\ f.replay = Fulfilled(mem[p], KeyOf(p), r).replay
  <2>1. CASE CommitFulfilment(p)
    <3>1. Fulfilled(mem[p], KeyOf(p), result[p]) \in File
      BY <1>1, <1>2, FulfilledFacts DEF Tx
    <3> QED BY <1>2, <2>1, <3>1 DEF CommitFulfilment, Save
  <2>2. CASE FinalizeRecovered(p)
    <3>1. PICK r \in Result, kept \in Result, id \in Id :
            r = Tx(p).result /\ kept = mem[p].receipts[Tx(p).id] /\ id = Tx(p).id
      BY <1>2 DEF Record, File
    <3>2. PICK g \in File : g = Fulfilled(mem[p], KeyOf(p), r)
      BY <1>1, <1>2, FulfilledFacts DEF Tx
    <3>3. Persist(p, [g EXCEPT !.receipts[id] = IF kept = 0 THEN @ ELSE kept], "done", r)
      BY <2>2, <3>1, <3>2 DEF FinalizeRecovered, Save
    <3>4. [g EXCEPT !.receipts[id] = IF kept = 0 THEN @ ELSE kept] \in File
      BY DEF File
    <3>5. /\ [g EXCEPT !.receipts[id] = IF kept = 0 THEN @ ELSE kept].rec = g.rec
          /\ [g EXCEPT !.receipts[id] = IF kept = 0 THEN @ ELSE kept].replay = g.replay
      BY DEF File
    <3> QED BY <3>2, <3>3, <3>4, <3>5
  <2> QED BY <2>1, <2>2
<1>4. /\ f.rec[KeyOf(p)] = Answered(Tx(p), r)
      /\ \A j \in Key \ {KeyOf(p)} : f.rec[j] = mem[p].rec[j]
      /\ mem[p].replay \subseteq f.replay
  BY <1>1, <1>2, <1>3, FulfilledFacts DEF Tx
<1>5. guardian[p] = "holding" => FileGrows(disk, f, KeyOf(p))
  <2>1. Tx(p).response = 0 => RecordGrows(Tx(p), Answered(Tx(p), r))
    BY <1>1, <1>2, UpdatesGrow, Gate1BAssumption DEF Id
  <2> QED BY <1>1, <1>4, <2>1 DEF FileGrows, Tx
<1> QED BY <1>1, <1>3, <1>5, PersistJournal DEF Within, Label, OnRecord

LEMMA InvokeJournal ==
  ASSUME SafeInv, ExactOwnership, NEW p \in Proc, InvokeStep(p)
  PROVE  JournalInv' /\ PastStep
BY InvokeQuietJournal, StartVerifyJournal, RecordIntentJournal,
   InvokeSaveJournal, SettleUnknownJournal, CallSettleJournal, EffectJournal,
   RereadJournal, FulfilJournal DEF InvokeStep

LEMMA RecoveryJournal ==
  ASSUME SafeInv, ExactOwnership, NEW p \in Proc, RecoveryStep(p)
  PROVE  JournalInv' /\ PastStep
<1>1. CASE FinalizeSkips(p) \/ RecoverSkips(p) \/ WitnessUseless(p)
             \/ RevalidateFails(p) \/ ResumeThrows(p)
  <2>1. /\ pc' = [pc EXCEPT ![p] = "done"]
        /\ UNCHANGED <<guardian, disk, mem, call, settles>>
    BY <1>1 DEF FinalizeSkips, RecoverSkips, WitnessUseless, RevalidateFails,
                ResumeThrows, Finish, Goto, lockVars, worldVars
  <2> QED BY <2>1, QuietJournal, Unwritten DEF Label, OnRecord
<1>2. CASE AskWitness(p) \/ WitnessNotObserved(p)
  <2>1. PICK label \in {"witness", "revalidating"} :
          /\ pc' = [pc EXCEPT ![p] = label] /\ pc[p] \in {"begin", "witness"}
          /\ pc[p] = "begin" => Tx(p).response = 0
          /\ UNCHANGED <<guardian, disk, mem, call, settles>>
    BY <1>2 DEF AskWitness, WitnessNotObserved, Recovering, Advance, Goto,
                lockVars, worldVars
  <2>2. guardian[p] = "holding" => mem[p] = disk /\ Tx(p).response = 0
    BY <2>1, OwnerFile DEF SafeInv, JournalInv, OwnerInv, OnRecord, Label
  <2> QED BY <2>1, <2>2, QuietJournal, Unwritten DEF Label, OnRecord
<1>3. CASE WitnessUnknown(p) \/ WitnessConfirmed(p) \/ ResumeReturns(p)
  <2>1. /\ pc[p] \in {"witness", "resuming"}
        /\ UNCHANGED <<guardian, call, settles>>
        /\ guardian[p] = "holding" => Tx(p).response = 0
        /\ Tx(p).state \notin Unjournalled
    BY <1>3 DEF SafeInv, TypeInv, JournalInv, OwnerInv, WitnessUnknown,
                WitnessConfirmed, ResumeReturns, Save, Label, OnRecord,
                lockVars, worldVars
  <2>2. Tx(p) \in Record /\ result[p] \in Result /\ 0 \in Result /\ 0 \in Id
        /\ KeyOf(p) \in Key
    BY <2>1, AtWork, Gate1BAssumption DEF SafeInv, TypeInv, TypeOK, Result, Id
  <2>3. PICK s \in Record :
          /\ Persist(p, WithTx(p, s), "done", 0)
          /\ s.req = Tx(p).req /\ s.state \notin Unjournalled
          /\ Tx(p).response = 0 => RecordGrows(Tx(p), s)
    <3>1. CASE WitnessUnknown(p)
      <4>1. /\ [Tx(p) EXCEPT !.state = "execution_unknown"] \in Record
            /\ [Tx(p) EXCEPT !.state = "execution_unknown"].req = Tx(p).req
            /\ [Tx(p) EXCEPT !.state = "execution_unknown"].state \notin Unjournalled
            /\ "execution_unknown" \in TxState \ Unjournalled
        BY <2>2 DEF Record, TxState, Unjournalled
      <4>2. Tx(p).response = 0 =>
              RecordGrows(Tx(p), [Tx(p) EXCEPT !.state = "execution_unknown"])
        BY <2>1, <2>2, <4>1, UpdatesGrow
      <4> QED BY <3>1, <4>1, <4>2 DEF WitnessUnknown, Save
    <3>2. CASE WitnessConfirmed(p) \/ ResumeReturns(p)
      <4>1. PICK res \in Result : Persist(p, WithTx(p, Known(Tx(p), res)), "done", 0)
        <5>1. 1 .. effects[KeyOf(p)] \subseteq Result
          BY <2>2, Gate1BAssumption DEF SafeInv, TypeInv, TypeOK, Result
        <5> QED BY <2>2, <3>2, <5>1 DEF WitnessConfirmed, ResumeReturns, Save
      <4> QED BY <2>1, <2>2, <4>1, RecordUpdates, UpdatesGrow DEF Unjournalled
    <3> QED BY <1>3, <3>1, <3>2
  <2> QED BY <2>1, <2>2, <2>3, SaveJournal DEF Within, Label, OnRecord
<1>4. CASE Revalidate(p)
  <2>1. PICK covered \in BOOLEAN :
          /\ pc[p] = "revalidating" /\ pc' = [pc EXCEPT ![p] = "resuming"]
          /\ mem' = [mem EXCEPT ![p] = WithTx(p, [Tx(p) EXCEPT !.anchored = covered])]
          /\ UNCHANGED <<guardian, disk, call, settles>>
    BY <1>4 DEF Revalidate, AnchorCovers, Goto, lockVars, worldVars
  <2>2. ReplayInv'
    BY <2>1, ReplaysKept, AtWork DEF SafeInv
  <2>3. ASSUME NEW q \in Proc, guardian'[q] = "holding" PROVE OwnerInv(q)'
    <3>1. CASE q # p
      BY <2>1, <2>3, <3>1
      DEF SafeInv, TypeInv, TypeOK, JournalInv, OwnerInv, Current, Tx, KeyOf, ReplayKeyFor
    <3>2. CASE q = p
      <4>1. /\ mem[p] = disk /\ Tx(p).response = 0 /\ KeyOf(p) \in Key
            /\ disk \in File
        BY <2>1, <2>3, <3>2, OwnerFile
        DEF SafeInv, JournalInv, OwnerInv, OnRecord, Label, TypeInv, TypeOK
      <4>2. mem'[p] = [disk EXCEPT !.rec[KeyOf(p)] = [@ EXCEPT !.anchored = covered]]
        BY <2>1, <4>1 DEF WithTx, Tx, SafeInv, TypeInv, TypeOK
      <4>3. mem'[p].rec[KeyOf(p)].response = 0
        BY <4>1, <4>2 DEF Tx, File, Record
      <4>4. KeyOf(p)' = KeyOf(p) /\ pc'[p] = "resuming"
        BY <2>1 DEF KeyOf, SafeInv, TypeInv, TypeOK
      <4> QED BY <2>1, <3>2, <4>2, <4>3, <4>4 DEF OwnerInv, Current, Tx
    <3> QED BY <3>1, <3>2
  <2> QED BY <2>1, <2>2, <2>3, Unwritten DEF JournalInv
<1>5. CASE FinalizeRecovered(p)
  BY <1>5, FulfilJournal
<1> QED BY <1>1, <1>2, <1>3, <1>4, <1>5 DEF RecoveryStep

(* The steps around an operation: only Enter makes a process an owner.     *)
LEMMA EnvelopeJournal ==
  ASSUME SafeInv, NEW p \in Proc,
         \/ \E c \in Call : StartCall(p, c)
         \/ LockWaitFails(p) \/ Enter(p) \/ Return(p) \/ Crash(p)
         \/ GuardianEvent(p)
  PROVE  JournalInv' /\ PastStep
<1>1. UNCHANGED <<disk, settles>>
  BY DEF StartCall, LockWaitFails, Enter, Return, Crash, GuardianEvent, worldVars
<1>2. ReplayInv'
  BY <1>1
  DEF SafeInv, JournalInv, ReplayInv, OnePurchasePerReplayKey, Journalled,
      DiskReplayKey, JournalBeforeSettlement, SettledOncePerReplayKey
<1>3. ASSUME NEW q \in Proc \ {p}
      PROVE  guardian'[q] = guardian[q] /\ mem'[q] = mem[q] /\ pc'[q] = pc[q]
               /\ call'[q] = call[q]
  BY DEF StartCall, LockWaitFails, Enter, Return, Crash, GuardianEvent, Enqueue,
         GiveUp, Grant, Release, GuardianDies, NoticeClose, Goto, procVars,
         SafeInv, TypeInv, TypeOK, LockTypeOK
<1>4. ASSUME guardian'[p] = "holding"
      PROVE  \/ Enter(p)
             \/ guardian[p] = "holding" /\ UNCHANGED <<mem, pc, call>>
  BY <1>4 DEF StartCall, LockWaitFails, Return, Crash, GuardianEvent, Enqueue,
         GiveUp, Release, GuardianDies, NoticeClose, procVars,
         SafeInv, TypeInv, TypeOK, LockTypeOK
<1>5. ASSUME NEW q \in Proc, guardian'[q] = "holding" PROVE OwnerInv(q)'
  <2>1. CASE q # p
    <3>1. OwnerInv(q)
      BY <1>3, <1>5, <2>1 DEF SafeInv, JournalInv
    <3> QED BY <1>1, <1>3, <2>1, <3>1 DEF OwnerInv, Current, Tx, KeyOf, ReplayKeyFor
  <2>2. CASE q = p /\ Enter(p)
    BY <2>2 DEF Enter, Goto, OwnerInv, Current, OnRecord, SafeInv, TypeInv, TypeOK
  <2>3. CASE q = p /\ guardian[p] = "holding" /\ UNCHANGED <<mem, pc, call>>
    <3>1. OwnerInv(p)
      BY <2>3 DEF SafeInv, JournalInv
    <3> QED BY <1>1, <2>3, <3>1 DEF OwnerInv, Current, Tx, KeyOf, ReplayKeyFor
  <2> QED BY <1>4, <1>5, <2>1, <2>2, <2>3
<1> QED BY <1>1, <1>2, <1>5, Unwritten DEF JournalInv

LEMMA JournalNext ==
  ASSUME ExactOwnership, SafeInv, [Next]_vars PROVE JournalInv' /\ PastStep
<1>1. ASSUME UNCHANGED <<guardian, mem, pc, call, disk, settles>>
      PROVE  JournalInv' /\ PastStep
  <2>1. ReplayInv'
    BY <1>1
    DEF SafeInv, JournalInv, ReplayInv, OnePurchasePerReplayKey, Journalled,
        DiskReplayKey, JournalBeforeSettlement, SettledOncePerReplayKey
  <2>2. ASSUME NEW q \in Proc, guardian'[q] = "holding" PROVE OwnerInv(q)'
    <3>1. OwnerInv(q)
      BY <1>1, <2>2 DEF SafeInv, JournalInv
    <3> QED BY <1>1, <3>1 DEF OwnerInv, Current, Tx, KeyOf, ReplayKeyFor
  <2> QED BY <1>1, <2>1, <2>2, Unwritten DEF JournalInv
<1>2. CASE \E n \in Nonce : AuthorizationUsed(n)
  BY <1>1, <1>2 DEF AuthorizationUsed, lockVars, procVars
<1>3. CASE UNCHANGED vars
  BY <1>1, <1>3 DEF vars
<1>4. CASE \E p \in Proc : \/ \E c \in Call : StartCall(p, c)
                           \/ Step(p) \/ Crash(p) \/ GuardianEvent(p)
  BY <1>4, EnvelopeJournal, InvokeJournal, RecoveryJournal DEF Step
<1> QED BY <1>2, <1>3, <1>4 DEF Next

LEMMA JournalInit == ASSUME Init PROVE JournalInv
<1>1. \A k \in Key : ~Journalled(k)
  BY DEF Init, Journalled, LegacyRecord, EmptyRecord, EmptyFile
<1>2. settles = [n \in ReplayKey |-> 0] /\ \A p \in Proc : guardian[p] # "holding"
  BY DEF Init, LockInit
<1> QED
  BY <1>1, <1>2 DEF JournalInv, ReplayInv, OnePurchasePerReplayKey,
                    JournalBeforeSettlement, SettledOncePerReplayKey

LEMMA Safe == ASSUME ExactOwnership PROVE Spec => []SafeInv
<1>1. Init => SafeInv
  BY TypeInit, JournalInit DEF SafeInv, Init, LockInit, LockInv
<1>2. SafeInv /\ [Next]_vars => SafeInv'
  BY TypeNext, LockNext, JournalNext DEF SafeInv
<1> QED BY <1>1, <1>2, PTL DEF Spec

(* Two purchases never rest on one payment authorization (replayKeys).     *)
THEOREM NoSharedPayment == ASSUME ExactOwnership PROVE Spec => []OnePurchasePerReplayKey
<1>1. SafeInv => OnePurchasePerReplayKey
  BY DEF SafeInv, JournalInv, ReplayInv
<1> QED BY <1>1, Safe, PTL

(* Whatever was sent to settlement is durably journalled and reserved.     *)
THEOREM JournalledFirst == ASSUME ExactOwnership PROVE Spec => []JournalBeforeSettlement
<1>1. SafeInv => JournalBeforeSettlement
  BY DEF SafeInv, JournalInv, ReplayInv
<1> QED BY <1>1, Safe, PTL

(* "Retry can ONLY reconcile; never settle again": one settle call per     *)
(* authorization, over any number of retries, crashes and processes.       *)
THEOREM OneSettlement == ASSUME ExactOwnership PROVE Spec => []SettledOncePerReplayKey
<1>1. SafeInv => SettledOncePerReplayKey
  BY DEF SafeInv, JournalInv, ReplayInv
<1> QED BY <1>1, Safe, PTL

(* No step of any process takes back what the file said of a purchase.     *)
THEOREM PastKept == ASSUME ExactOwnership PROVE Spec => PastIsKept
<1>1. SafeInv /\ [Next]_vars => [PastStep]_vars
  BY JournalNext
<1>2. Spec => [][PastStep]_vars
  BY <1>1, Safe, PTL DEF Spec
<1> QED BY <1>2 DEF PastIsKept, PastStep

=============================================================================
