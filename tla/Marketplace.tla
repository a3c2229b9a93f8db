---------------------------- MODULE Marketplace ----------------------------
(***************************************************************************)
(* Purchases and the catalog of lib/marketplace.mjs, run by the server     *)
(* process and the operator's command line over one durable JSON file, and *)
(* the replay keys and projections a purchase shares with the core file of *)
(* Gate1B.                                                                 *)
(*                                                                         *)
(* A purchase holds two file locks, core before market, from its first     *)
(* read to its answer.  It never calls assertOwned, so of ProcessLock only *)
(* the kernel lock matters here: who holds it, and that it is free again   *)
(* when a guardian dies although the purchase goes on.  Synchronous        *)
(* updates (lock, read, change, write) are one action each.                *)
(*                                                                         *)
(* Crashes, failing writes, waits for a lock that expire and deaths of     *)
(* guardians are faults; MaxFault bounds their number.                     *)
(*                                                                         *)
(* Abstractions of data: one provider with one capability, whose price,    *)
(* rights and metadata are the number of the catalog edit they come from   *)
(* (terms); authentication of the caller, text, prices and timestamps are  *)
(* left out.  A key stands for a buyer and an idempotency key.  A replay    *)
(* key is the nonce of an authorization as the buyer spelled it: the same  *)
(* authorization with other hexadecimal digits in capitals is another one, *)
(* and nothing in the code relates the two.                                *)
(*                                                                         *)
(* Definitions whose name ends in a phrase after an underscore             *)
(* (Journal_AnyTerms) are faulty variants of the definition that follows:  *)
(* no behaviour uses them; each shows that a property can fail.            *)
(***************************************************************************)
EXTENDS Naturals

CONSTANTS
  Proc,            \* processes, one marketplace call each
  Key,             \* idempotency keys of buyers
  Input,           \* inputs of the capability
  ReplayKey,       \* replay keys: authorizations as their nonce is spelled
  Approval,        \* ids of human approvals
  NoProc,          \* a lock without holder
  NoRequest,       \* a key without purchase
  NoCall,          \* a process without a call
  NoApproval,      \* an approval id not minted yet
  GuardianMayDie,  \* may a lock guardian die while its parent lives?
  MaxTerms,        \* bound: edits of the capability
  MaxFault         \* bound: faults

Request == [input : Input, replayKey : ReplayKey, approval : Approval]
Terms == 0 .. MaxTerms          \* 0: no capability

Job == {"none", "awaiting_payment", "paid", "executing", "delivered",
        "verified", "failed", "disputed"}
Pay == {"none", "unverified", "settlement_pending", "successful", "failed"}

(* One purchase with its job, receipt, entitlement and allocation.         *)
Purchase == [req : Request \cup {NoRequest}, terms : Terms, job : Job,
             pay : Pay, answered : BOOLEAN,
             receipt : {"none", "pending", "result", "failed"},
             ent : {"none", "active", "consumed", "suspended"},
             uses : 0 .. 3,
             alloc : {"none", "recorded", "disputed", "payable", "settled"}]

(* "listed" stands for active and public, "unlisted" for the other states. *)
(* "inactive" is a pending, suspended or rejected provider.                *)
Catalog == [provider : {"absent", "inactive", "active"},
            status : {"absent", "unlisted", "listed"},
            affirmed : BOOLEAN, asset : BOOLEAN, terms : Terms]

ApprovalRecord == [key : Key, input : Input, terms : Terms, used : BOOLEAN]

ASSUME MarketplaceAssumption ==
  /\ GuardianMayDie \in BOOLEAN
  /\ MaxTerms \in Nat /\ MaxFault \in Nat
  /\ NoProc \notin Proc
  /\ NoRequest \notin Request /\ NoApproval \notin ApprovalRecord

(* The marketplace JSON file.                                              *)
File == [catalog : Catalog,
         approvals : [Approval -> ApprovalRecord \cup {NoApproval}],
         rec : [Key -> Purchase]]

(* What a purchase touches of the machine_commerce file: replay keys, and  *)
(* the outcome its receipt and entitlement are projected with.             *)
CoreFile == [replay : SUBSET ReplayKey, projected : [Key -> Job]]

EmptyPurchase ==
  [req |-> NoRequest, terms |-> 0, job |-> "none", pay |-> "none",
   answered |-> FALSE, receipt |-> "none", ent |-> "none", uses |-> 0,
   alloc |-> "none"]

EmptyFile ==
  [catalog |-> [provider |-> "absent", status |-> "absent",
                affirmed |-> FALSE, asset |-> FALSE, terms |-> 0],
   approvals |-> [a \in Approval |-> NoApproval],
   rec |-> [k \in Key |-> EmptyPurchase]]

Label == {"idle", "waitCore", "waitMarket", "begin", "reserve", "verifying",
          "settle", "settling", "paid", "executing", "delivered", "caught",
          "project", "answered", "failed"}

Call == [op : {"purchase"}, key : Key, req : Request]
          \cup [op : {"download"}, key : Key] \cup [op : {"list"}]

VARIABLES
  lock,      \* lock["core"], lock["market"]: holder of the kernel lock
  disk,      \* the marketplace file
  core,      \* the core file
  mem,       \* mem[p]: the copy of the marketplace file p works on
  pc,        \* pc[p]: where p's call is
  call,      \* call[p]: its arguments
  faults,    \* faults so far
  settles,   \* settles[n]: settle calls made with replay key n
  asked,     \* keys whose purchase asked for settlement
  served,    \* served[k]: artifacts handed out for the entitlement of k
  replies    \* replies[k]: the <<request, answer>> pairs given for k

localVars == <<mem, pc, call>>
worldVars == <<settles, asked, served, replies>>
vars == <<lock, disk, core, mem, pc, call, faults,
          settles, asked, served, replies>>

TypeOK ==
  /\ lock \in [{"core", "market"} -> Proc \cup {NoProc}]
  /\ disk \in File
  /\ core \in CoreFile
  /\ mem \in [Proc -> File]
  /\ pc \in [Proc -> Label]
  /\ call \in [Proc -> Call \cup {NoCall}]
  /\ faults \in 0 .. MaxFault
  /\ settles \in [ReplayKey -> Nat]
  /\ asked \subseteq Key
  /\ served \in [Key -> Nat]
  /\ replies \in [Key -> SUBSET (Request \X (Job \X Pay))]

Init ==
  /\ lock = [l \in {"core", "market"} |-> NoProc]
  /\ disk = EmptyFile
  /\ core = [replay |-> {}, projected |-> [k \in Key |-> "none"]]
  /\ mem = [p \in Proc |-> EmptyFile]
  /\ pc = [p \in Proc |-> "idle"]
  /\ call = [p \in Proc |-> NoCall]
  /\ faults = 0
  /\ settles = [n \in ReplayKey |-> 0]
  /\ asked = {}
  /\ served = [k \in Key |-> 0]
  /\ replies = [k \in Key |-> {}]

-----------------------------------------------------------------------------
(* Shorthands for the call of process p.                                   *)
KeyOf(p) == call[p].key
Rec(p) == mem[p].rec[KeyOf(p)]
WithRec(p, r) == [mem[p] EXCEPT !.rec[KeyOf(p)] = r]

Goto(p, label) == pc' = [pc EXCEPT ![p] = label]

Fault == faults < MaxFault /\ faults' = faults + 1

Advance(p, label) ==
  /\ Goto(p, label)
  /\ UNCHANGED <<lock, disk, core, mem, call, faults, worldVars>>

(* write(s): an atomic replacement of the file.  When it throws, the       *)
(* replacement may or may not have become visible; the copy in memory has  *)
(* changed anyway, and the code goes on at onError.                        *)
Write(p, f, next, onError) ==
  /\ mem' = [mem EXCEPT ![p] = f]
  /\ \/ disk' = f /\ Goto(p, next) /\ UNCHANGED faults
     \/ disk' \in {disk, f} /\ Goto(p, onError) /\ Fault
  /\ UNCHANGED <<lock, core, call, worldVars>>

(* The same for the core file.                                             *)
WriteCore(p, f, next, onError) ==
  /\ \/ core' = f /\ Goto(p, next) /\ UNCHANGED faults
     \/ core' \in {core, f} /\ Goto(p, onError) /\ Fault
  /\ UNCHANGED <<lock, disk, mem, call, worldVars>>

-----------------------------------------------------------------------------
(* Calls, locks and faults.                                                *)

(* setCapabilityStatus looks at the capability, and runs its preflight,    *)
(* before it has the lock.                                                 *)
StartCall(p, c) ==
  /\ pc[p] = "idle"
  /\ c.op = "list" => disk.catalog.status # "absent" /\ disk.catalog.affirmed
  /\ Goto(p, IF c.op = "purchase" THEN "waitCore" ELSE "waitMarket")
  /\ call' = [call EXCEPT ![p] = c]
  /\ UNCHANGED <<lock, disk, core, mem, faults, worldVars>>

AcquireCore(p) ==
  /\ pc[p] = "waitCore"
  /\ lock["core"] = NoProc
  /\ lock' = [lock EXCEPT !["core"] = p]
  /\ Goto(p, "waitMarket")
  /\ UNCHANGED <<disk, core, mem, call, faults, worldVars>>

AcquireMarket_WithoutLock(p) ==
  /\ pc[p] = "waitMarket"
  /\ call[p].op # "list"
  /\ mem' = [mem EXCEPT ![p] = disk]
  /\ Goto(p, "begin")
  /\ UNCHANGED <<lock, disk, core, call, faults, worldVars>>

AcquireMarket(p) ==
  /\ pc[p] = "waitMarket"
  /\ call[p].op # "list"
  /\ lock["market"] = NoProc
  /\ lock' = [lock EXCEPT !["market"] = p]
  /\ mem' = [mem EXCEPT ![p] = disk]
  /\ Goto(p, "begin")
  /\ UNCHANGED <<disk, core, call, faults, worldVars>>

Released(p) == [l \in {"core", "market"} |-> IF lock[l] = p THEN NoProc ELSE lock[l]]

End(p) ==
  /\ lock' = Released(p)
  /\ Goto(p, "idle")
  /\ mem' = [mem EXCEPT ![p] = EmptyFile]
  /\ call' = [call EXCEPT ![p] = NoCall]

(* The wait for a lock expires, or the process is busy with another call   *)
(* under that lock (STORE_BUSY).                                           *)
WaitFails(p) ==
  /\ pc[p] \in {"waitCore", "waitMarket"}
  /\ End(p)
  /\ Fault
  /\ UNCHANGED <<disk, core, worldVars>>

Return_KeepsCoreLock(p) ==
  /\ pc[p] \in {"answered", "failed"}
  /\ lock' = [lock EXCEPT !["market"] = NoProc]
  /\ Goto(p, "idle")
  /\ UNCHANGED <<disk, core, mem, call, faults, worldVars>>

(* Both locks are free before the caller sees the answer.                  *)
Return(p) ==
  /\ pc[p] \in {"answered", "failed"}
  /\ End(p)
  /\ replies' = IF call[p].op = "purchase" /\ pc[p] = "answered"
                THEN [replies EXCEPT ![KeyOf(p)] =
                        @ \cup {<<call[p].req, <<Rec(p).job, Rec(p).pay>>>>}]
                ELSE replies
  /\ served' = IF call[p].op = "download" /\ pc[p] = "answered"
               THEN [served EXCEPT ![KeyOf(p)] = @ + 1]
               ELSE served
  /\ UNCHANGED <<disk, core, faults, settles, asked>>

Crash(p) ==
  /\ pc[p] # "idle"
  /\ End(p)
  /\ Fault
  /\ UNCHANGED <<disk, core, worldVars>>

GuardianDies(l) ==
  /\ GuardianMayDie
  /\ lock[l] # NoProc
  /\ lock' = [lock EXCEPT ![l] = NoProc]
  /\ Fault
  /\ UNCHANGED <<disk, core, localVars, worldVars>>

-----------------------------------------------------------------------------
(* purchase                                                                *)

Purchasing(p) == pc[p] = "begin" /\ call[p].op = "purchase"
Known(p) == Rec(p).req # NoRequest

(* IDEMPOTENCY_CONFLICT.                                                   *)
Conflict(p) ==
  /\ Purchasing(p)
  /\ Known(p)
  /\ Rec(p).req # call[p].req
  /\ Advance(p, "failed")

Duplicate_AnyRequest(p) ==
  /\ Purchasing(p)
  /\ Known(p)
  /\ Rec(p).answered
  /\ Advance(p, "answered")

Duplicate(p) ==
  /\ Purchasing(p)
  /\ Rec(p).req = call[p].req
  /\ Rec(p).answered
  /\ Advance(p, "answered")

Stranded_NoAnswer(p) ==
  /\ Purchasing(p)
  /\ Rec(p).req = call[p].req
  /\ ~Rec(p).answered
  /\ Advance(p, "failed")

(* An earlier call died without an answer: the job becomes disputed, the   *)
(* rest of the purchase stays as that call left it.                        *)
Stranded(p) ==
  /\ Purchasing(p)
  /\ Rec(p).req = call[p].req
  /\ ~Rec(p).answered
  /\ Write(p, WithRec(p, [Rec(p) EXCEPT !.job = "disputed"]),
           "answered", "failed")

(* Invalid input, a full store, a failed preflight, a payment outside the  *)
(* policy, an expired approval: nothing is written.                        *)
Refuse(p) ==
  /\ Purchasing(p)
  /\ ~Known(p)
  /\ Advance(p, "failed")

Sellable(f) == f.catalog.status = "listed" /\ f.catalog.provider = "active"
                 /\ f.catalog.affirmed

Approved_AnyTerms(f, k, req) ==
  LET a == f.approvals[req.approval]
  IN  a # NoApproval /\ a.key = k /\ a.input = req.input /\ ~a.used

(* assertApproval: the approval is unused and binds buyer, key, input and  *)
(* the quoted terms.                                                       *)
Approved(f, k, req) ==
  f.approvals[req.approval] =
    [key |-> k, input |-> req.input, terms |-> f.catalog.terms, used |-> FALSE]

Journalled(f, k, req) ==
  [f EXCEPT !.approvals[req.approval].used = TRUE,
            !.rec[k] = [EmptyPurchase EXCEPT
               !.req = req, !.terms = f.catalog.terms,
               !.job = "awaiting_payment", !.pay = "unverified"]]

(* "Journal BEFORE any facilitator request".  The core file is read here,  *)
(* after the preflight of the adapter.                                     *)
Journal(p) ==
  /\ Purchasing(p)
  /\ ~Known(p)
  /\ Sellable(mem[p])
  /\ Approved(mem[p], KeyOf(p), call[p].req)
  /\ call[p].req.replayKey \notin core.replay
  /\ Write(p, Journalled(mem[p], KeyOf(p), call[p].req), "reserve", "failed")

Reserve_Skipped(p) ==
  /\ pc[p] = "reserve"
  /\ Advance(p, "verifying")

Reserve(p) ==
  /\ pc[p] = "reserve"
  /\ WriteCore(p, [core EXCEPT !.replay = @ \cup {Rec(p).req.replayKey}],
               "verifying", "failed")

VerifyFails(p) ==
  /\ pc[p] = "verifying"
  /\ Advance(p, "caught")

VerifySucceeds_InMemory(p) ==
  /\ pc[p] = "verifying"
  /\ mem' = [mem EXCEPT ![p] =
               WithRec(p, [Rec(p) EXCEPT !.pay = "settlement_pending"])]
  /\ Goto(p, "settle")
  /\ UNCHANGED <<lock, disk, core, call, faults, worldVars>>

VerifySucceeds(p) ==
  /\ pc[p] = "verifying"
  /\ Write(p, WithRec(p, [Rec(p) EXCEPT !.pay = "settlement_pending"]),
           "settle", "caught")

CallSettle(p) ==
  /\ pc[p] = "settle"
  /\ settles' = [settles EXCEPT ![Rec(p).req.replayKey] = @ + 1]
  /\ asked' = asked \cup {KeyOf(p)}
  /\ Goto(p, "settling")
  /\ UNCHANGED <<lock, disk, core, mem, call, faults, served, replies>>

(* It reports failure, throws or times out: the outcome is uncertain.      *)
SettleFails(p) ==
  /\ pc[p] = "settling"
  /\ Advance(p, "caught")

Paid_WrongStatus(r) ==
  [r EXCEPT !.pay = "successful", !.job = "paid", !.receipt = "pending",
            !.ent = "granted", !.uses = 1, !.alloc = "recorded"]

Paid(r) == [r EXCEPT !.pay = "successful", !.job = "paid",
                     !.receipt = "pending", !.ent = "active", !.uses = 1,
                     !.alloc = "recorded"]

SettleSucceeds(p) ==
  /\ pc[p] = "settling"
  /\ Write(p, WithRec(p, Paid(Rec(p))), "paid", "caught")

StartExecution(p) ==
  /\ pc[p] = "paid"
  /\ Write(p, WithRec(p, [Rec(p) EXCEPT !.job = "executing"]),
           "executing", "caught")

(* The provider fails, times out or answers outside the output schema.     *)
ExecuteFails(p) ==
  /\ pc[p] = "executing"
  /\ Advance(p, "caught")

ExecuteSucceeds(p) ==
  /\ pc[p] = "executing"
  /\ Write(p, WithRec(p, [Rec(p) EXCEPT !.job = "delivered"]),
           "delivered", "caught")

Verified(r, asset) ==
  [r EXCEPT !.job = "verified", !.receipt = "result", !.alloc = "payable",
            !.ent = IF asset THEN "active" ELSE "consumed",
            !.uses = IF asset THEN 3 ELSE 0, !.answered = TRUE]

(* The receipt is completed, the allocation becomes payable and the        *)
(* response is stored.                                                     *)
Complete(p) ==
  /\ pc[p] = "delivered"
  /\ Write(p, WithRec(p, Verified(Rec(p), mem[p].catalog.asset)),
           "project", "failed")

Failed_StillRecorded(r) ==
  LET uncertain == r.pay = "settlement_pending"
  IN  [r EXCEPT !.job = IF uncertain THEN "disputed" ELSE "failed",
                !.receipt = IF @ = "none" THEN @ ELSE "failed",
                !.answered = TRUE]

Failed(r) ==
  LET isPaid == r.pay = "successful"
      uncertain == r.pay = "settlement_pending"
  IN  [r EXCEPT !.job = IF uncertain THEN "disputed" ELSE "failed",
                !.pay = IF isPaid \/ uncertain THEN @ ELSE "failed",
                !.receipt = IF @ = "none" THEN @ ELSE "failed",
                !.ent = IF @ = "none" THEN @ ELSE "suspended",
                !.alloc = IF @ = "none" THEN @ ELSE "disputed",
                !.answered = TRUE]

(* The catch block, and the response it leads to.                          *)
Caught(p) ==
  /\ pc[p] = "caught"
  /\ Write(p, WithRec(p, Failed(Rec(p))),
           IF Rec(p).receipt = "none" THEN "answered" ELSE "project", "failed")

(* The receipt and the entitlement are copied to the core file, which must *)
(* have the replay key still.                                              *)
Project(p) ==
  /\ pc[p] = "project"
  /\ IF Rec(p).req.replayKey \in core.replay
     THEN WriteCore(p, [core EXCEPT !.projected[KeyOf(p)] = Rec(p).job],
                    "answered", "failed")
     ELSE Advance(p, "failed")

-----------------------------------------------------------------------------
(* download                                                                *)

Downloading(p) == pc[p] = "begin" /\ call[p].op = "download"

(* Not found, used up, suspended, not an asset, or the artifact changed.   *)
RefuseDownload(p) ==
  /\ Downloading(p)
  /\ Advance(p, "failed")

Download_NotCounted(p) ==
  /\ Downloading(p)
  /\ Rec(p).ent = "active" /\ Rec(p).uses > 0
  /\ mem[p].catalog.asset
  /\ Advance(p, "answered")

Download(p) ==
  /\ Downloading(p)
  /\ Rec(p).ent = "active" /\ Rec(p).uses > 0
  /\ mem[p].catalog.asset
  /\ Write(p, WithRec(p, [Rec(p) EXCEPT !.uses = @ - 1]), "answered", "failed")

-----------------------------------------------------------------------------
(* The catalog, approvals and accounting: one update of the file each,     *)
(* which a failure makes happen or not happen.                             *)

Edit(f) ==
  /\ lock["market"] = NoProc
  /\ disk' = f
  /\ UNCHANGED <<lock, core, localVars, faults, worldVars>>

(* An edit of the capability; updatedAt makes every quote before it void.  *)
Edited(catalog) == [catalog EXCEPT !.terms = @ + 1]
MoreTerms(f) == f.catalog.terms < MaxTerms

RegisterProvider ==
  /\ disk.catalog.provider = "absent"
  /\ Edit([disk EXCEPT !.catalog.provider = "inactive"])

SetProviderStatus(status) ==
  /\ disk.catalog.provider # "absent"
  /\ Edit([disk EXCEPT !.catalog.provider = status])

(* The staged import needs no active provider and affirms no rights.       *)
RegisterCapability(staged, asset) ==
  /\ disk.catalog.status = "absent"
  /\ disk.catalog.provider # "absent"
  /\ staged \/ disk.catalog.provider = "active"
  /\ MoreTerms(disk)
  /\ Edit([disk EXCEPT !.catalog = Edited([@ EXCEPT
             !.status = "unlisted", !.affirmed = ~staged, !.asset = asset])])

AffirmRights ==
  /\ disk.catalog.status # "absent"
  /\ MoreTerms(disk)
  /\ Edit([disk EXCEPT !.catalog = Edited([@ EXCEPT !.affirmed = TRUE])])

Unlist ==
  /\ disk.catalog.status # "absent"
  /\ MoreTerms(disk)
  /\ Edit([disk EXCEPT !.catalog = Edited([@ EXCEPT !.status = "unlisted"])])

(* The second half of setCapabilityStatus(active, public), one update      *)
(* under the lock; beyond the bound on edits it is refused.                *)
List(p) ==
  /\ pc[p] = "waitMarket"
  /\ call[p].op = "list"
  /\ lock["market"] = NoProc
  /\ disk' = IF disk.catalog.provider = "active" /\ MoreTerms(disk)
             THEN [disk EXCEPT !.catalog =
                     Edited([@ EXCEPT !.status = "listed"])]
             ELSE disk
  /\ Goto(p, "idle")
  /\ call' = [call EXCEPT ![p] = NoCall]
  /\ UNCHANGED <<lock, core, mem, faults, worldVars>>

(* approvePurchase: the human authorization, for the terms of now.         *)
Approve(a, k, input) ==
  /\ disk.approvals[a] = NoApproval
  /\ Sellable(disk)
  /\ Edit([disk EXCEPT !.approvals[a] =
             [key |-> k, input |-> input, terms |-> disk.catalog.terms,
              used |-> FALSE]])

MarkSettled(k) ==
  /\ disk.rec[k].alloc = "payable"
  /\ Edit([disk EXCEPT !.rec[k].alloc = "settled"])

(* A purchase through /api/x402 takes the core lock, refuses a replay key  *)
(* that exists, reserves it durably and settles (module Gate1B).           *)
CoreInvoke(n) ==
  /\ lock["core"] = NoProc
  /\ n \notin core.replay
  /\ core' = [core EXCEPT !.replay = @ \cup {n}]
  /\ settles' = [settles EXCEPT ![n] = @ + 1]
  /\ UNCHANGED <<lock, disk, localVars, faults, asked, served, replies>>

-----------------------------------------------------------------------------
PurchaseStep(p) ==
  \/ Conflict(p) \/ Duplicate(p) \/ Stranded(p) \/ Refuse(p)
  \/ Journal(p) \/ Reserve(p) \/ VerifyFails(p) \/ VerifySucceeds(p)
  \/ CallSettle(p) \/ SettleFails(p) \/ SettleSucceeds(p)
  \/ StartExecution(p) \/ ExecuteFails(p) \/ ExecuteSucceeds(p)
  \/ Complete(p) \/ Caught(p) \/ Project(p)

Step(p) ==
  \/ AcquireCore(p) \/ AcquireMarket(p) \/ Return(p)
  \/ PurchaseStep(p)
  \/ RefuseDownload(p) \/ Download(p) \/ List(p)

Operator ==
  \/ RegisterProvider
  \/ \E status \in {"inactive", "active"} : SetProviderStatus(status)
  \/ \E staged, asset \in BOOLEAN : RegisterCapability(staged, asset)
  \/ AffirmRights \/ Unlist
  \/ \E a \in Approval, k \in Key, input \in Input : Approve(a, k, input)
  \/ \E k \in Key : MarkSettled(k)

Next ==
  \/ \E p \in Proc :
       \/ \E c \in Call : StartCall(p, c)
       \/ Step(p) \/ WaitFails(p) \/ Crash(p)
  \/ \E l \in {"core", "market"} : GuardianDies(l)
  \/ Operator
  \/ \E n \in ReplayKey : CoreInvoke(n)

Spec == Init /\ [][Next]_vars

-----------------------------------------------------------------------------
(* Properties.                                                             *)

(* A replay key is settled at most once, over the marketplace and          *)
(* /api/x402 together, all keys, retries, crashes and failing writes.  So  *)
(* an authorization is settled once for each spelling of its nonce, which  *)
(* is all that the shared reservation gives.                               *)
SettledOncePerReplayKey == \A n \in ReplayKey : settles[n] <= 1

(* Once settlement was asked for a purchase, the file says for ever that   *)
(* money may have moved (never unverified, never failed), and the replay   *)
(* key is reserved against every other path.                               *)
ChargeIsVisible ==
  \A k \in asked :
    /\ disk.rec[k].pay \in {"settlement_pending", "successful"}
    /\ disk.rec[k].req.replayKey \in core.replay

(* Job, payment, receipt, entitlement, allocation and projection of an     *)
(* answered purchase tell one story: payable and usable only after         *)
(* verified delivery; disputed, suspended and failed after a paid failure; *)
(* nothing at all when nothing was paid.                                   *)
OutcomesAgree ==
  \A k \in Key :
    LET r == disk.rec[k] IN
    /\ r.answered /\ r.pay = "successful" =>
         \/ /\ r.job = "verified"
            /\ r.receipt = "result"
            /\ r.alloc \in {"payable", "settled"}
            /\ r.ent \in {"active", "consumed"}
         \/ /\ r.job = "failed"
            /\ r.receipt = "failed"
            /\ r.alloc = "disputed"
            /\ r.ent = "suspended"
    /\ r.pay # "successful" =>
         r.receipt = "none" /\ r.alloc = "none" /\ r.ent = "none"
    /\ ~r.answered => r.alloc \in {"none", "recorded"} /\ r.uses <= 1
    /\ core.projected[k] # "none" =>
         r.answered /\ core.projected[k] = r.job /\ r.pay = "successful"

(* Every purchase ever journalled rests on a human approval of its own,    *)
(* given for this key, this input and exactly the terms it was sold on.    *)
SoldAsApproved ==
  \A k \in Key : disk.rec[k].req # NoRequest =>
    disk.approvals[disk.rec[k].req.approval] =
      [key |-> k, input |-> disk.rec[k].req.input,
       terms |-> disk.rec[k].terms, used |-> TRUE]

(* Artifacts are handed out for paid purchases only, and never more of     *)
(* them than the entitlement ever allowed.                                 *)
DownloadsWithinRights ==
  \A k \in Key :
    /\ served[k] > 0 => disk.rec[k].pay = "successful" /\ k \in asked
    /\ served[k] + disk.rec[k].uses <= 3
    /\ served[k] > 1 => disk.rec[k].job = "verified"

(* All answers ever given for a key are one answer, to one request, and it *)
(* is what the file says.                                                  *)
RepliesAgree ==
  \A k \in Key :
    replies[k] \subseteq
      {<<disk.rec[k].req, <<disk.rec[k].job, disk.rec[k].pay>>>>}

(* No write is lost: approvals once minted and used, catalog edits,        *)
(* purchases, answers and replay keys stay, whatever process writes next.  *)
NothingTakenBack ==
  [][/\ disk.catalog.terms <= disk'.catalog.terms
     /\ core.replay \subseteq core'.replay
     /\ \A a \in Approval : disk.approvals[a] # NoApproval =>
          disk'.approvals[a] \in
            {disk.approvals[a], [disk.approvals[a] EXCEPT !.used = TRUE]}
     /\ \A k \in Key :
          LET old == disk.rec[k]  new == disk'.rec[k] IN
          /\ old.req # NoRequest => new.req = old.req
          /\ old.answered =>
               new = [old EXCEPT !.uses = new.uses, !.alloc = new.alloc]
          /\ new.uses > old.uses => ~old.answered
          /\ old.alloc = "settled" => new.alloc = "settled"]_vars

(* A paid purchase that failed or is disputed has a receipt, a suspended   *)
(* entitlement and a disputed allocation (docs/MARKETPLACE-SECURITY.md).   *)
PaidFailureIsSuspended ==
  \A k \in Key :
    LET r == disk.rec[k] IN
    r.pay = "successful" /\ r.job \in {"failed", "disputed"} =>
      r.receipt # "none" /\ r.ent = "suspended" /\ r.alloc = "disputed"

-----------------------------------------------------------------------------
(* Liveness.  Every await under the locks has a time limit, so a process   *)
(* keeps stepping; a waiter is granted a lock that keeps falling free.     *)
Fairness ==
  /\ \A p \in Proc : WF_vars(Step(p))
  /\ \A p \in Proc : SF_vars(AcquireCore(p))
  /\ \A p \in Proc : SF_vars(AcquireMarket(p) \/ List(p))

(* The buyer keeps sending the request again whenever a process is idle.   *)
Retry(k) ==
  /\ disk.rec[k].req # NoRequest
  /\ \E p \in Proc :
       StartCall(p, [op |-> "purchase", key |-> k, req |-> disk.rec[k].req])

FairSpec == Spec /\ Fairness /\ \A k \in Key : SF_vars(Retry(k))

(* Every call ends: the two locks, taken core first, never leave callers   *)
(* waiting for each other, whatever fails in between.                      *)
CallsEnd == \A p \in Proc : pc[p] # "idle" ~> pc[p] = "idle"

(* A journalled purchase is answered, with the outcome or with a dispute.  *)
BuyerIsAnswered ==
  \A k \in Key : disk.rec[k].req # NoRequest ~> replies[k] # {}

=============================================================================
