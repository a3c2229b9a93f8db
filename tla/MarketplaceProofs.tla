------------------------- MODULE MarketplaceProofs -------------------------
(***************************************************************************)
(* Proofs about Marketplace for any number of processes, keys, inputs,     *)
(* authorizations and approvals and for any bounds.                        *)
(*                                                                         *)
(* TypeInv is the type invariant with what makes it inductive: which call  *)
(* a label belongs to.  LockInv says which labels hold which lock.  It     *)
(* needs ExactLocks: a guardian does not die under a purchase, because a   *)
(* purchase never asks whether it still owns the file.  MarketInv is what  *)
(* the locks buy: the process under the market lock works on the file as   *)
(* it is, apart from the one record a failed write may have missed, every  *)
(* record tells a consistent story, and the replay key of a purchase on    *)
(* its way to settlement has never been settled.                           *)
(***************************************************************************)
EXTENDS Marketplace, TLAPS

ExactLocks == ~GuardianMayDie

(* Labels under the market lock, and those of a purchase with a record.    *)
Holding == Label \ {"idle", "waitCore", "waitMarket"}
InPurchase == Holding \ {"begin", "answered", "failed"}
Unanswered == InPurchase \ {"project"}

TypeInv ==
  /\ TypeOK
  /\ \A p \in Proc :
       /\ pc[p] # "idle" => call[p] \in Call
       /\ pc[p] = "waitCore" => call[p].op = "purchase"
       /\ pc[p] \in Holding => call[p].op \in {"purchase", "download"}
       /\ pc[p] \in InPurchase => /\ call[p].op = "purchase"
                                  /\ Rec(p).req = call[p].req

LockInv ==
  \A p \in Proc :
    /\ lock["market"] = p <=> pc[p] \in Holding
    /\ lock["core"] = p <=> /\ pc[p] \notin {"idle", "waitCore"}
                            /\ call[p].op = "purchase"

(* What the file may say of one purchase.                                  *)
Story(r) ==
  /\ r.req = NoRequest => r = EmptyPurchase
  /\ r.job = "verified" => r.answered
  /\ r.uses <= IF r.job = "verified" THEN 3 ELSE 1
  /\ r.pay # "successful" =>
       r.receipt = "none" /\ r.alloc = "none" /\ r.ent = "none" /\ r.uses = 0
  /\ r.pay = "successful" /\ ~r.answered =>
       r.receipt = "pending" /\ r.alloc = "recorded" /\ r.ent = "active"
  /\ r.pay = "successful" /\ r.answered =>
       \/ /\ r.job = "verified"
          /\ r.receipt = "result"
          /\ r.alloc \in {"payable", "settled"}
          /\ r.ent \in {"active", "consumed"}
       \/ /\ r.job = "failed"
          /\ r.receipt = "failed"
          /\ r.alloc = "disputed"
          /\ r.ent = "suspended"

(* Nobody was answered, served or shown anything of key k yet.             *)
Untold(k) == replies[k] = {} /\ served[k] = 0 /\ core.projected[k] = "none"

(* What a purchase has established at its label, of its record r, its key  *)
(* k and its authorization n.                                              *)
StageInv(label, r, k, n) ==
  /\ label \in Unanswered => ~r.answered /\ ~disk.rec[k].answered
  /\ label \in {"reserve", "verifying"} => r.pay = "unverified" /\ k \notin asked
  /\ label = "reserve" => n \notin core.replay
  /\ label \notin {"reserve", "caught", "project"} => n \in core.replay
  /\ label \in {"verifying", "settle"} => settles[n] = 0
  /\ label = "settle" => r.pay = "settlement_pending" /\ k \notin asked
  /\ label = "settling" => r.pay = "settlement_pending" /\ k \in asked
  /\ label \in {"paid", "executing", "delivered", "project"} =>
       r.pay = "successful" /\ k \in asked
  /\ label = "project" => r.answered
  /\ label = "caught" => /\ r.pay = "successful" => k \in asked
                         /\ k \in asked => r.pay \in {"settlement_pending", "successful"}

(* The process under the market lock has the file as it is; after a write  *)
(* that threw, its own record may not have become visible.                 *)
Current(p) ==
  /\ pc[p] \in Holding \ {"caught", "failed"} => mem[p] = disk
  /\ pc[p] = "caught" =>
       /\ mem[p] = [disk EXCEPT !.rec[KeyOf(p)] = Rec(p)]
       /\ disk.rec[KeyOf(p)].req = Rec(p).req
       /\ disk.rec[KeyOf(p)].terms = Rec(p).terms
       /\ Story(Rec(p))

OwnerInv(p) ==
  /\ Current(p)
  /\ pc[p] \in InPurchase =>
       /\ Untold(KeyOf(p))
       /\ StageInv(pc[p], Rec(p), KeyOf(p), Rec(p).req.replayKey)
  /\ pc[p] = "answered" /\ call[p].op = "purchase" =>
       Rec(p).req = call[p].req /\ (Rec(p).answered \/ Rec(p).job = "disputed")
  /\ pc[p] = "answered" /\ call[p].op = "download" =>
       /\ Rec(p).pay = "successful"
       /\ served[KeyOf(p)] + 1 + Rec(p).uses <= IF Rec(p).job = "verified" THEN 3 ELSE 1

(* What the world and the core file must agree on with the record r of k.  *)
KeyFacts(r, k) ==
  /\ Story(r)
  /\ k \in asked => /\ r.pay \in {"settlement_pending", "successful"}
                    /\ r.req.replayKey \in core.replay
  /\ r.pay = "successful" => k \in asked
  /\ served[k] > 0 => r.pay = "successful"
  /\ served[k] + r.uses <= IF r.job = "verified" THEN 3 ELSE 1
  /\ core.projected[k] # "none" =>
       r.answered /\ core.projected[k] = r.job /\ r.pay = "successful"
  /\ replies[k] \subseteq {<<r.req, <<r.job, r.pay>>>>}
  /\ replies[k] # {} => r.answered \/ r.job = "disputed"

ReplayInv == \A n \in ReplayKey : settles[n] <= 1 /\ (settles[n] > 0 => n \in core.replay)

FileInv ==
  /\ ReplayInv
  /\ SoldAsApproved
  /\ \A k \in Key : KeyFacts(disk.rec[k], k)

MarketInv == FileInv /\ \A p \in Proc : OwnerInv(p)

SafeInv == TypeInv /\ LockInv /\ MarketInv

-----------------------------------------------------------------------------
(* Facts about the data.                                                   *)

LEMMA CallFields ==
  ASSUME NEW c \in Call
  PROVE  /\ c.op \in {"purchase", "download", "list"}
         /\ c.op # "list" => c.key \in Key
         /\ c.op = "purchase" => c.req \in Request
  BY DEF Call

LEMMA EmptyFileType == EmptyPurchase \in Purchase /\ EmptyFile \in File
<1>1. 0 \in Terms /\ 0 \in 0 .. 3
  BY MarketplaceAssumption DEF Terms
<1>2. EmptyPurchase \in Purchase
  BY <1>1 DEF EmptyPurchase, Purchase, Job, Pay
<1>3. EmptyFile.catalog \in Catalog
  BY <1>1 DEF EmptyFile, Catalog
<1> QED BY <1>2, <1>3 DEF EmptyFile, File

(* Replacing one record of a file.                                         *)
LEMMA WithRecord ==
  ASSUME NEW f \in File, NEW k \in Key, NEW r \in Purchase
  PROVE  /\ [f EXCEPT !.rec[k] = r] \in File
         /\ [f EXCEPT !.rec[k] = r].rec[k] = r
         /\ \A j \in Key \ {k} : [f EXCEPT !.rec[k] = r].rec[j] = f.rec[j]
         /\ [f EXCEPT !.rec[k] = r].approvals = f.approvals
         /\ [f EXCEPT !.rec[k] = r].catalog = f.catalog
  BY DEF File

(* What TypeInv says of a call that holds the market lock.                 *)
LEMMA AtWork ==
  ASSUME TypeInv, NEW p \in Proc, pc[p] \in Holding
  PROVE  /\ call[p] \in Call
         /\ KeyOf(p) \in Key
         /\ mem[p] \in File
         /\ Rec(p) \in Purchase
         /\ call[p].op = "purchase" => call[p].req \in Request
<1>1. call[p] \in Call /\ call[p].op # "list" /\ mem[p] \in File
  BY DEF TypeInv, TypeOK, Holding
<1>2. KeyOf(p) \in Key /\ (call[p].op = "purchase" => call[p].req \in Request)
  BY <1>1, CallFields DEF KeyOf
<1> QED BY <1>1, <1>2 DEF Rec, File

(* The records a purchase writes are purchases of the same request.        *)
Receipts == {"none", "pending", "result", "failed"}
Rights == {"none", "active", "consumed", "suspended"}
Shares == {"none", "recorded", "disputed", "payable", "settled"}

LEMMA RecordTypes ==
  ASSUME NEW r \in Purchase, NEW asset \in BOOLEAN
  PROVE  /\ \A j \in Job : [r EXCEPT !.job = j] \in Purchase
         /\ \A y \in Pay : [r EXCEPT !.pay = y] \in Purchase
         /\ Paid(r) \in Purchase
         /\ Verified(r, asset) \in Purchase
         /\ Failed(r) \in Purchase
<1>1. \A j \in Job : [r EXCEPT !.job = j] \in Purchase
  BY DEF Purchase
<1>2. \A y \in Pay : [r EXCEPT !.pay = y] \in Purchase
  BY DEF Purchase
<1>3. /\ r.job \in Job /\ r.pay \in Pay /\ r.receipt \in Receipts
      /\ r.ent \in Rights /\ r.alloc \in Shares
  BY DEF Purchase, Receipts, Rights, Shares
<1>4. Paid(r) \in Purchase
  <2> DEFINE j == "paid"  y == "successful"  c == "pending"  e == "active"
             u == 1  l == "recorded"
  <2>1. /\ j \in Job /\ y \in Pay /\ c \in Receipts /\ e \in Rights
        /\ u \in 0 .. 3 /\ l \in Shares
    BY DEF Job, Pay, Receipts, Rights, Shares
  <2>2. Paid(r) = [r EXCEPT !.pay = y, !.job = j, !.receipt = c, !.ent = e,
                            !.uses = u, !.alloc = l]
    BY DEF Paid
  <2> HIDE DEF j, y, c, e, u, l
  <2>3. [r EXCEPT !.pay = y, !.job = j, !.receipt = c, !.ent = e,
                  !.uses = u, !.alloc = l] \in Purchase
    BY <2>1 DEF Purchase, Receipts, Rights, Shares
  <2> QED BY <2>2, <2>3
<1>5. Verified(r, asset) \in Purchase
  <2> DEFINE j == "verified"  c == "result"  l == "payable"
             e == IF asset THEN "active" ELSE "consumed"
             u == IF asset THEN 3 ELSE 0
  <2>1. /\ j \in Job /\ c \in Receipts /\ l \in Shares /\ e \in Rights
        /\ u \in 0 .. 3
    BY DEF Job, Receipts, Rights, Shares
  <2>2. Verified(r, asset) = [r EXCEPT !.job = j, !.receipt = c, !.alloc = l,
                                       !.ent = e, !.uses = u, !.answered = TRUE]
    BY DEF Verified
  <2> HIDE DEF j, c, e, u, l
  <2>3. [r EXCEPT !.job = j, !.receipt = c, !.alloc = l,
                  !.ent = e, !.uses = u, !.answered = TRUE] \in Purchase
    BY <2>1 DEF Purchase, Receipts, Rights, Shares
  <2> QED BY <2>2, <2>3
<1>6. Failed(r) \in Purchase
  <2> DEFINE uncertain == r.pay = "settlement_pending"
             j == IF uncertain THEN "disputed" ELSE "failed"
             y == IF r.pay = "successful" \/ uncertain THEN r.pay ELSE "failed"
             c == IF r.receipt = "none" THEN r.receipt ELSE "failed"
             e == IF r.ent = "none" THEN r.ent ELSE "suspended"
             l == IF r.alloc = "none" THEN r.alloc ELSE "disputed"
  <2>1. j \in Job /\ y \in Pay /\ c \in Receipts /\ e \in Rights /\ l \in Shares
    BY <1>3 DEF Job, Pay, Receipts, Rights, Shares
  <2>2. Failed(r) = [r EXCEPT !.job = j, !.pay = y, !.receipt = c, !.ent = e,
                              !.alloc = l, !.answered = TRUE]
    BY DEF Failed, Purchase
  <2> HIDE DEF j, y, c, e, l
  <2>3. [r EXCEPT !.job = j, !.pay = y, !.receipt = c, !.ent = e,
                  !.alloc = l, !.answered = TRUE] \in Purchase
    BY <2>1 DEF Purchase, Receipts, Rights, Shares
  <2> QED BY <2>2, <2>3
<1> QED BY <1>1, <1>2, <1>4, <1>5, <1>6

(* Their fields.                                                           *)
LEMMA PaidFields ==
  ASSUME NEW r \in Purchase
  PROVE  /\ Paid(r).req = r.req /\ Paid(r).terms = r.terms /\ Paid(r).answered = r.answered
         /\ Paid(r).pay = "successful" /\ Paid(r).job = "paid" /\ Paid(r).uses = 1
         /\ Paid(r).receipt = "pending" /\ Paid(r).ent = "active"
         /\ Paid(r).alloc = "recorded"
  BY DEF Purchase, Paid

LEMMA VerifiedFields ==
  ASSUME NEW r \in Purchase, NEW asset \in BOOLEAN
  PROVE  /\ Verified(r, asset).req = r.req /\ Verified(r, asset).terms = r.terms
         /\ Verified(r, asset).pay = r.pay /\ Verified(r, asset).answered
         /\ Verified(r, asset).job = "verified" /\ Verified(r, asset).receipt = "result"
         /\ Verified(r, asset).alloc = "payable" /\ Verified(r, asset).uses \in {0, 3}
         /\ Verified(r, asset).ent \in {"active", "consumed"}
  BY DEF Purchase, Verified

LEMMA FailedFields ==
  ASSUME NEW r \in Purchase
  PROVE  /\ Failed(r).req = r.req /\ Failed(r).terms = r.terms /\ Failed(r).uses = r.uses
         /\ Failed(r).answered /\ Failed(r).job \in {"failed", "disputed"}
         /\ r.pay # "settlement_pending" => Failed(r).job = "failed"
         /\ r.pay \in {"successful", "settlement_pending"} => Failed(r).pay = r.pay
         /\ r.pay \notin {"successful", "settlement_pending"} => Failed(r).pay = "failed"
         /\ Failed(r).receipt = IF r.receipt = "none" THEN "none" ELSE "failed"
         /\ Failed(r).ent = IF r.ent = "none" THEN "none" ELSE "suspended"
         /\ Failed(r).alloc = IF r.alloc = "none" THEN "none" ELSE "disputed"
<1>1. /\ Failed(r).req = r.req /\ Failed(r).terms = r.terms /\ Failed(r).uses = r.uses
      /\ Failed(r).answered
      /\ Failed(r).job = IF r.pay = "settlement_pending" THEN "disputed" ELSE "failed"
      /\ Failed(r).pay = IF r.pay = "successful" \/ r.pay = "settlement_pending"
                          THEN r.pay ELSE "failed"
  BY DEF Purchase, Failed
<1>2. /\ Failed(r).receipt = IF r.receipt = "none" THEN r.receipt ELSE "failed"
      /\ Failed(r).ent = IF r.ent = "none" THEN r.ent ELSE "suspended"
      /\ Failed(r).alloc = IF r.alloc = "none" THEN r.alloc ELSE "disputed"
  BY DEF Purchase, Failed
<1> QED BY <1>1, <1>2

LEMMA JournalledFacts ==
  ASSUME NEW f \in File, NEW k \in Key, NEW req \in Request, Approved(f, k, req)
  PROVE  /\ Journalled(f, k, req) \in File
         /\ Journalled(f, k, req).rec[k].req = req
         /\ Journalled(f, k, req).rec[k].terms = f.catalog.terms
         /\ Journalled(f, k, req).rec[k].job = "awaiting_payment"
         /\ Journalled(f, k, req).rec[k].pay = "unverified"
         /\ ~Journalled(f, k, req).rec[k].answered
         /\ Journalled(f, k, req).rec[k].receipt = "none"
         /\ Journalled(f, k, req).rec[k].ent = "none"
         /\ Journalled(f, k, req).rec[k].alloc = "none"
         /\ Journalled(f, k, req).rec[k].uses = 0
         /\ \A j \in Key \ {k} : Journalled(f, k, req).rec[j] = f.rec[j]
         /\ Journalled(f, k, req).catalog = f.catalog
         /\ Journalled(f, k, req).approvals[req.approval] =
              [key |-> k, input |-> req.input, terms |-> f.catalog.terms, used |-> TRUE]
         /\ \A a \in Approval \ {req.approval} :
              Journalled(f, k, req).approvals[a] = f.approvals[a]
<1> DEFINE r == [EmptyPurchase EXCEPT !.req = req, !.terms = f.catalog.terms,
                                      !.job = "awaiting_payment", !.pay = "unverified"]
           ap == [f.approvals EXCEPT ![req.approval].used = TRUE]
<1>1. f.catalog.terms \in Terms
  BY DEF File, Catalog
<1>2. r \in Purchase
  <2>1. ASSUME NEW t \in Terms, NEW j \in Job, NEW y \in Pay
        PROVE  [EmptyPurchase EXCEPT !.req = req, !.terms = t, !.job = j, !.pay = y] \in Purchase
    BY EmptyFileType DEF Purchase
  <2>2. "awaiting_payment" \in Job /\ "unverified" \in Pay
    BY DEF Job, Pay
  <2> QED BY <1>1, <2>1, <2>2
<1>3. ap \in [Approval -> ApprovalRecord \cup {NoApproval}]
  <2>1. req.approval \in Approval /\ req.input \in Input
    BY DEF Request
  <2>2. f.approvals[req.approval] \in ApprovalRecord
    BY <1>1, <2>1 DEF Approved, ApprovalRecord
  <2>3. [f.approvals[req.approval] EXCEPT !.used = TRUE] \in ApprovalRecord
    BY <2>2 DEF ApprovalRecord
  <2> QED BY <2>1, <2>3 DEF File
<1> DEFINE h == [f EXCEPT !.approvals = ap]
<1>4. h \in File /\ h.rec = f.rec /\ h.approvals = ap /\ h.catalog = f.catalog
  <2> HIDE DEF ap
  <2> QED BY <1>3 DEF File
<1>5. Journalled(f, k, req) = [h EXCEPT !.rec[k] = r]
  BY DEF Journalled
<1> HIDE DEF r, h
<1>6. /\ [h EXCEPT !.rec[k] = r] \in File
      /\ [h EXCEPT !.rec[k] = r].rec[k] = r
      /\ \A j \in Key \ {k} : [h EXCEPT !.rec[k] = r].rec[j] = f.rec[j]
      /\ [h EXCEPT !.rec[k] = r].approvals = ap
      /\ [h EXCEPT !.rec[k] = r].catalog = f.catalog
  BY <1>2, <1>4, WithRecord
<1>7. Journalled(f, k, req).rec[k] = r
  BY <1>5, <1>6
<1>8. /\ r.req = req /\ r.terms = f.catalog.terms
      /\ r.job = "awaiting_payment" /\ r.pay = "unverified" /\ ~r.answered
      /\ r.receipt = "none" /\ r.ent = "none" /\ r.alloc = "none" /\ r.uses = 0
  BY DEF EmptyPurchase, r
<1>9. /\ ap[req.approval] = [key |-> k, input |-> req.input,
                             terms |-> f.catalog.terms, used |-> TRUE]
      /\ \A a \in Approval \ {req.approval} : ap[a] = f.approvals[a]
  <2>1. f.approvals \in [Approval -> ApprovalRecord \cup {NoApproval}] /\ req.approval \in Approval
    BY DEF File, Request
  <2>2. ap[req.approval] = [f.approvals[req.approval] EXCEPT !.used = TRUE]
    BY <2>1
  <2> DEFINE old == f.approvals[req.approval]  new == [old EXCEPT !.used = TRUE]
  <2>3. old.key = k /\ old.input = req.input /\ old.terms = f.catalog.terms
          /\ old \in ApprovalRecord
    BY <1>1 DEF Approved, ApprovalRecord, Request
  <2> HIDE DEF old
  <2>4. new.key = k /\ new.input = req.input /\ new.terms = f.catalog.terms /\ new.used
          /\ new \in ApprovalRecord
    BY <2>3 DEF ApprovalRecord
  <2> HIDE DEF new
  <2>5. new = [key |-> k, input |-> req.input, terms |-> f.catalog.terms, used |-> TRUE]
    BY <2>4 DEF ApprovalRecord
  <2> QED BY <2>1, <2>2, <2>5 DEF new, old
<1> HIDE DEF ap
<1>10. /\ Journalled(f, k, req) \in File
       /\ Journalled(f, k, req).catalog = f.catalog
       /\ Journalled(f, k, req).approvals = ap
       /\ \A j \in Key \ {k} : Journalled(f, k, req).rec[j] = f.rec[j]
  BY <1>5, <1>6
<1> QED BY <1>7, <1>8, <1>9, <1>10

-----------------------------------------------------------------------------
(* TypeInv is inductive.                                                   *)

LEMMA TypeInit == Init => TypeInv
<1> SUFFICES ASSUME Init PROVE TypeInv
  OBVIOUS
<1>1. "none" \in Job /\ "idle" \in Label /\ 0 \in 0 .. MaxFault
  BY MarketplaceAssumption DEF Job, Label
<1>2. core \in CoreFile
  BY <1>1 DEF Init, CoreFile
<1>3. TypeOK
  BY <1>1, <1>2, EmptyFileType DEF Init, TypeOK
<1> QED BY <1>3 DEF Init, TypeInv, Holding, InPurchase

(* A purchase moves on without writing anything.                           *)
LEMMA AdvanceType ==
  ASSUME TypeInv, NEW p \in Proc, pc[p] \in Holding, NEW label \in Holding \ {"begin"},
         Goto(p, label), UNCHANGED <<lock, disk, core, mem, call, faults, served, replies>>,
         label \in InPurchase => pc[p] \in InPurchase,
         settles' \in [ReplayKey -> Nat], asked' \subseteq Key
  PROVE  TypeInv'
<1>1. pc' = [pc EXCEPT ![p] = label]
  BY DEF Goto
<1>2. TypeOK'
  BY <1>1 DEF TypeInv, TypeOK, Holding
<1> QED BY <1>1, <1>2 DEF TypeInv, TypeOK, Rec, KeyOf, Holding, InPurchase

(* A durable write of file f.                                              *)
LEMMA WriteType ==
  ASSUME TypeInv, NEW p \in Proc, pc[p] \in Holding, NEW f \in File,
         NEW next \in Holding, NEW err \in Holding, Write(p, f, next, err),
         next \in InPurchase \/ err \in InPurchase =>
           call[p].op = "purchase" /\ f.rec[KeyOf(p)].req = call[p].req
  PROVE  TypeInv'
<1>1. PICK label \in {next, err} : pc' = [pc EXCEPT ![p] = label]
  BY DEF Write, Goto
<1>2. /\ mem' = [mem EXCEPT ![p] = f]
      /\ disk' \in {disk, f}
      /\ UNCHANGED <<lock, core, call, settles, asked, served, replies>>
  BY DEF Write, worldVars
<1>3. faults' \in 0 .. MaxFault
  BY MarketplaceAssumption DEF Write, Fault, TypeInv, TypeOK
<1>4. TypeOK'
  BY <1>1, <1>2, <1>3 DEF TypeInv, TypeOK, Holding
<1>5. mem'[p] = f /\ \A q \in Proc \ {p} : mem'[q] = mem[q] /\ pc'[q] = pc[q]
  BY <1>1, <1>2 DEF TypeInv, TypeOK
<1>6. pc'[p] = label
  BY <1>1 DEF TypeInv, TypeOK
<1>7. ASSUME NEW q \in Proc
      PROVE  /\ pc'[q] # "idle" => call'[q] \in Call
             /\ pc'[q] = "waitCore" => call'[q].op = "purchase"
             /\ pc'[q] \in Holding => call'[q].op \in {"purchase", "download"}
             /\ pc'[q] \in InPurchase => /\ call'[q].op = "purchase"
                                         /\ Rec(q)'.req = call'[q].req
  <2>1. CASE q = p
    BY <1>2, <1>5, <1>6, <2>1 DEF TypeInv, Rec, KeyOf, Holding
  <2>2. CASE q # p
    BY <1>2, <1>5, <2>2 DEF TypeInv, Rec, KeyOf
  <2> QED BY <2>1, <2>2
<1> QED BY <1>4, <1>7 DEF TypeInv

(* A purchase writes the record r over its own.                            *)
LEMMA WriteRecType ==
  ASSUME TypeInv, NEW p \in Proc, pc[p] \in Holding, NEW r \in Purchase,
         NEW next \in Holding, NEW err \in Holding,
         Write(p, WithRec(p, r), next, err), r.req = Rec(p).req,
         call[p].op = "purchase" => Rec(p).req = call[p].req,
         next \in InPurchase \/ err \in InPurchase => call[p].op = "purchase"
  PROVE  TypeInv'
<1>1. /\ WithRec(p, r) \in File
      /\ WithRec(p, r).rec[KeyOf(p)] = r
  BY AtWork, WithRecord DEF WithRec
<1> QED BY <1>1, WriteType

LEMMA WriteCoreType ==
  ASSUME TypeInv, NEW p \in Proc, pc[p] \in InPurchase, NEW f \in CoreFile,
         NEW next \in Holding \ {"begin"}, NEW err \in Holding \ {"begin"},
         WriteCore(p, f, next, err)
  PROVE  TypeInv'
<1>1. PICK label \in {next, err} : pc' = [pc EXCEPT ![p] = label]
  BY DEF WriteCore, Goto
<1>2. /\ core' \in {core, f}
      /\ UNCHANGED <<lock, disk, mem, call, settles, asked, served, replies>>
  BY DEF WriteCore, worldVars
<1>3. faults' \in 0 .. MaxFault
  BY MarketplaceAssumption DEF WriteCore, Fault, TypeInv, TypeOK
<1>4. TypeOK'
  BY <1>1, <1>2, <1>3 DEF TypeInv, TypeOK, Holding
<1> QED BY <1>1, <1>2, <1>4 DEF TypeInv, TypeOK, Rec, KeyOf, Holding, InPurchase

(* The end of a call, by its answer, a crash or a refused lock.            *)
LEMMA EndType ==
  ASSUME TypeInv, NEW p \in Proc, End(p), UNCHANGED <<disk, core, settles, asked>>,
         faults' \in 0 .. MaxFault, served' \in [Key -> Nat],
         replies' \in [Key -> SUBSET (Request \X (Job \X Pay))]
  PROVE  TypeInv'
<1>1. /\ pc' = [pc EXCEPT ![p] = "idle"]
      /\ mem' = [mem EXCEPT ![p] = EmptyFile]
      /\ call' = [call EXCEPT ![p] = NoCall]
  BY DEF End, Goto
<1>2. lock' \in [{"core", "market"} -> Proc \cup {NoProc}]
  BY DEF End, Released, TypeInv, TypeOK
<1>3. TypeOK'
  BY <1>1, <1>2, EmptyFileType DEF TypeInv, TypeOK, Label
<1>4. ASSUME NEW q \in Proc \ {p}
      PROVE  pc'[q] = pc[q] /\ mem'[q] = mem[q] /\ call'[q] = call[q]
  BY <1>1
<1>5. pc'[p] = "idle"
  BY <1>1 DEF TypeInv, TypeOK
<1> QED BY <1>3, <1>4, <1>5 DEF TypeInv, Rec, KeyOf, Holding, InPurchase

LEMMA PurchaseType ==
  ASSUME TypeInv, NEW p \in Proc, PurchaseStep(p) PROVE TypeInv'
<1> DEFINE r == Rec(p)
<1>1. pc[p] \in Holding /\ r \in Purchase /\ NoRequest \notin Request
  <2>1. pc[p] \in Holding
    BY DEF PurchaseStep, Conflict, Duplicate, Stranded, Refuse, Journal, Reserve,
           VerifyFails, VerifySucceeds, CallSettle, SettleFails, SettleSucceeds,
           StartExecution, ExecuteFails, ExecuteSucceeds, Complete, Caught, Project,
           Purchasing, Holding, Label
  <2> QED BY <2>1, AtWork, MarketplaceAssumption
<1>2. pc[p] \in InPurchase => call[p].op = "purchase" /\ r.req = call[p].req /\ r.req \in Request
  BY <1>1, AtWork DEF TypeInv
<1>3. {"disputed", "executing", "delivered"} \subseteq Job /\ "settlement_pending" \in Pay
  BY DEF Job, Pay
<1>4. settles \in [ReplayKey -> Nat] /\ asked \subseteq Key
  BY DEF TypeInv, TypeOK
<1> HIDE DEF r
<1>5. CASE \/ Conflict(p) \/ Duplicate(p) \/ Refuse(p) \/ VerifyFails(p)
           \/ SettleFails(p) \/ ExecuteFails(p)
  BY <1>1, <1>4, <1>5, AdvanceType
  DEF Conflict, Duplicate, Refuse, VerifyFails, SettleFails, ExecuteFails, Advance,
      worldVars, Holding, InPurchase, Label
<1>6. CASE Stranded(p)
  <2>1. /\ [r EXCEPT !.job = "disputed"] \in Purchase
        /\ [r EXCEPT !.job = "disputed"].req = r.req
    BY <1>1, <1>3, RecordTypes DEF Purchase
  <2>2. "answered" \in Holding \ InPurchase /\ "failed" \in Holding \ InPurchase
    BY DEF Holding, InPurchase, Label
  <2> QED BY <1>1, <1>6, <2>1, <2>2, WriteRecType DEF Stranded, Purchasing, r
<1>7. CASE Journal(p)
  <2>1. "reserve" \in Holding /\ "failed" \in Holding
    BY DEF Holding, Label
  <2>2. /\ mem[p] \in File /\ KeyOf(p) \in Key /\ call[p].req \in Request
        /\ call[p].op = "purchase" /\ Approved(mem[p], KeyOf(p), call[p].req)
    BY <1>1, <1>7, AtWork DEF Journal, Purchasing
  <2> DEFINE f == mem[p]  k == KeyOf(p)  req == call[p].req
  <2>3. Journalled(f, k, req) \in File /\ Journalled(f, k, req).rec[k].req = req
    BY <2>2, JournalledFacts
  <2> QED BY <1>1, <1>7, <2>1, <2>2, <2>3, WriteType DEF Journal
<1>8. CASE Reserve(p)
  <2>1. pc[p] \in InPurchase /\ {"verifying", "failed"} \subseteq Holding \ {"begin"}
    BY <1>8 DEF Reserve, InPurchase, Holding, Label
  <2>2. r.req.replayKey \in ReplayKey
    BY <1>2, <2>1 DEF Request
  <2>3. [core EXCEPT !.replay = @ \cup {r.req.replayKey}] \in CoreFile
    BY <2>2 DEF TypeInv, TypeOK, CoreFile
  <2> QED BY <1>8, <2>1, <2>3, WriteCoreType DEF Reserve, r
<1>9. CASE VerifySucceeds(p)
  <2>1. /\ [r EXCEPT !.pay = "settlement_pending"] \in Purchase
        /\ [r EXCEPT !.pay = "settlement_pending"].req = r.req
    BY <1>1, <1>3, RecordTypes DEF Purchase
  <2>2. pc[p] \in InPurchase /\ {"settle", "caught"} \subseteq Holding
    BY <1>9 DEF VerifySucceeds, InPurchase, Holding, Label
  <2> QED BY <1>1, <1>2, <1>9, <2>1, <2>2, WriteRecType DEF VerifySucceeds, r
<1>10. CASE CallSettle(p)
  <2>1. asked' \subseteq Key
    BY <1>1, <1>4, <1>10, AtWork DEF CallSettle
  <2>3. settles' = [settles EXCEPT ![r.req.replayKey] = @ + 1]
    BY <1>10 DEF CallSettle, r
  <2>2. pc[p] \in InPurchase /\ "settling" \in Holding \ {"begin"}
    BY <1>10 DEF CallSettle, InPurchase, Holding, Label
  <2>4. settles' \in [ReplayKey -> Nat]
    BY <1>2, <1>4, <2>2, <2>3 DEF Request
  <2> QED BY <1>1, <1>10, <2>1, <2>2, <2>4, AdvanceType DEF CallSettle
<1>11. CASE SettleSucceeds(p)
  <2>1. Paid(r) \in Purchase /\ Paid(r).req = r.req
    BY <1>1, RecordTypes, PaidFields
  <2>2. pc[p] \in InPurchase /\ {"paid", "caught"} \subseteq Holding
    BY <1>11 DEF SettleSucceeds, InPurchase, Holding, Label
  <2> QED BY <1>1, <1>2, <1>11, <2>1, <2>2, WriteRecType DEF SettleSucceeds, r
<1>12. CASE StartExecution(p)
  <2>1. /\ [r EXCEPT !.job = "executing"] \in Purchase
        /\ [r EXCEPT !.job = "executing"].req = r.req
    BY <1>1, <1>3, RecordTypes DEF Purchase
  <2>2. pc[p] \in InPurchase /\ {"executing", "caught"} \subseteq Holding
    BY <1>12 DEF StartExecution, InPurchase, Holding, Label
  <2> QED BY <1>1, <1>2, <1>12, <2>1, <2>2, WriteRecType DEF StartExecution, r
<1>13. CASE ExecuteSucceeds(p)
  <2>1. /\ [r EXCEPT !.job = "delivered"] \in Purchase
        /\ [r EXCEPT !.job = "delivered"].req = r.req
    BY <1>1, <1>3, RecordTypes DEF Purchase
  <2>2. pc[p] \in InPurchase /\ {"delivered", "caught"} \subseteq Holding
    BY <1>13 DEF ExecuteSucceeds, InPurchase, Holding, Label
  <2> QED BY <1>1, <1>2, <1>13, <2>1, <2>2, WriteRecType DEF ExecuteSucceeds, r
<1>14. CASE Complete(p)
  <2> DEFINE asset == mem[p].catalog.asset
  <2>1. asset \in BOOLEAN
    BY <1>1, AtWork DEF File, Catalog
  <2>2. Verified(r, asset) \in Purchase /\ Verified(r, asset).req = r.req
    BY <1>1, <2>1, RecordTypes, VerifiedFields
  <2>3. pc[p] \in InPurchase /\ {"project", "failed"} \subseteq Holding
    BY <1>14 DEF Complete, InPurchase, Holding, Label
  <2> QED BY <1>1, <1>2, <1>14, <2>2, <2>3, WriteRecType DEF Complete, r
<1>15. CASE Caught(p)
  <2>1. Failed(r) \in Purchase /\ Failed(r).req = r.req
    BY <1>1, RecordTypes, FailedFields
  <2>2. pc[p] \in InPurchase /\ {"answered", "project", "failed"} \subseteq Holding
    BY <1>15 DEF Caught, InPurchase, Holding, Label
  <2> QED BY <1>1, <1>2, <1>15, <2>1, <2>2, WriteRecType DEF Caught, r
<1>16. CASE Project(p)
  <2>1. pc[p] \in InPurchase /\ {"answered", "failed"} \subseteq (Holding \ {"begin"}) \ InPurchase
    BY <1>16 DEF Project, InPurchase, Holding, Label
  <2>2. [core EXCEPT !.projected[KeyOf(p)] = r.job] \in CoreFile
    BY <1>1 DEF TypeInv, TypeOK, CoreFile, Purchase
  <2>3. CASE r.req.replayKey \in core.replay
    BY <1>16, <2>1, <2>2, <2>3, WriteCoreType DEF Project, r
  <2>4. CASE r.req.replayKey \notin core.replay
    BY <1>1, <1>4, <1>16, <2>1, <2>4, AdvanceType DEF Project, Advance, worldVars, r
  <2> QED BY <2>3, <2>4
<1> QED
  BY <1>5, <1>6, <1>7, <1>8, <1>9, <1>10, <1>11, <1>12, <1>13, <1>14, <1>15, <1>16
  DEF PurchaseStep

(* A synchronous update of the file.                                       *)
LEMMA EditType ==
  ASSUME TypeInv, NEW f \in File, Edit(f) PROVE TypeInv'
<1>1. disk' = f /\ UNCHANGED <<lock, core, mem, pc, call, faults,
                               settles, asked, served, replies>>
  BY DEF Edit, localVars, worldVars
<1>2. TypeOK'
  BY <1>1 DEF TypeInv, TypeOK
<1> QED BY <1>1, <1>2 DEF TypeInv, Rec, KeyOf

(* The catalog after an edit of the capability.                            *)
LEMMA EditedType ==
  ASSUME NEW c \in Catalog, c.terms < MaxTerms
  PROVE  Edited(c) \in Catalog
<1> DEFINE t == c.terms + 1
<1>1. t \in Terms
  BY MarketplaceAssumption DEF Catalog, Terms
<1>2. Edited(c) = [c EXCEPT !.terms = t]
  BY DEF Edited
<1> HIDE DEF t
<1> QED BY <1>1, <1>2 DEF Catalog

LEMMA CatalogType ==
  ASSUME NEW f \in File, NEW c \in Catalog
  PROVE  /\ [f EXCEPT !.catalog = c] \in File
         /\ [f EXCEPT !.catalog = c].rec = f.rec
         /\ [f EXCEPT !.catalog = c].approvals = f.approvals
         /\ [f EXCEPT !.catalog = c].catalog = c
  BY DEF File

(* What an operator's update makes of the file: another catalog with no    *)
(* older terms, an approval that was not minted yet, or an allocation      *)
(* paid out.                                                               *)
NewCatalog(f) ==
  \E c \in Catalog : c.terms >= disk.catalog.terms /\ f = [disk EXCEPT !.catalog = c]
NewApproval(f) ==
  \E a \in Approval, r \in ApprovalRecord :
    disk.approvals[a] = NoApproval /\ f = [disk EXCEPT !.approvals[a] = r]
PaidOut(f) ==
  \E k \in Key : /\ disk.rec[k].alloc = "payable"
                 /\ f = [disk EXCEPT !.rec[k] = [@ EXCEPT !.alloc = "settled"]]

LEMMA EditedCatalog ==
  ASSUME disk \in File, NEW c \in Catalog, c.terms = disk.catalog.terms, MoreTerms(disk)
  PROVE  NewCatalog([disk EXCEPT !.catalog = Edited(c)])
<1>1. Edited(c) \in Catalog
  BY EditedType DEF MoreTerms
<1>2. Edited(c).terms = c.terms + 1 /\ c.terms \in Nat
  BY MarketplaceAssumption DEF Edited, Catalog, Terms
<1> QED BY <1>1, <1>2 DEF NewCatalog

LEMMA CatalogFields ==
  ASSUME disk \in File,
         NEW s \in {"absent", "unlisted", "listed"}, NEW b \in BOOLEAN, NEW a \in BOOLEAN,
         NEW v \in {"absent", "inactive", "active"}
  PROVE  LET c == disk.catalog IN
         /\ c \in Catalog
         /\ [c EXCEPT !.status = s] \in Catalog
         /\ [c EXCEPT !.status = s].terms = c.terms
         /\ [c EXCEPT !.affirmed = b] \in Catalog
         /\ [c EXCEPT !.affirmed = b].terms = c.terms
         /\ [c EXCEPT !.provider = v] \in Catalog
         /\ [c EXCEPT !.provider = v].terms = c.terms
         /\ [c EXCEPT !.status = s, !.affirmed = b, !.asset = a] \in Catalog
         /\ [c EXCEPT !.status = s, !.affirmed = b, !.asset = a].terms = c.terms
<1>1. disk.catalog \in Catalog
  BY DEF File
<1> QED BY <1>1 DEF Catalog

LEMMA OperatorEdits ==
  ASSUME TypeInv, Operator
  PROVE  \E f \in File : Edit(f) /\ (NewCatalog(f) \/ NewApproval(f) \/ PaidOut(f))
<1>1. disk \in File
  BY DEF TypeInv, TypeOK
<1>2. ASSUME NEW c \in Catalog, Edit([disk EXCEPT !.catalog = c]),
             NewCatalog([disk EXCEPT !.catalog = c])
      PROVE  \E f \in File : Edit(f) /\ NewCatalog(f)
  BY <1>1, <1>2, CatalogType
<1> DEFINE c == disk.catalog
<1>3. c \in Catalog /\ c.terms >= c.terms
  BY <1>1, MarketplaceAssumption DEF File, Catalog, Terms
<1>4. ASSUME NEW v \in {"inactive", "active"},
             Edit([disk EXCEPT !.catalog.provider = v])
      PROVE  \E f \in File : Edit(f) /\ NewCatalog(f)
  <2> DEFINE d == [c EXCEPT !.provider = v]
  <2>1. d \in Catalog /\ d.terms = c.terms
    BY <1>3 DEF Catalog
  <2>2. [disk EXCEPT !.catalog.provider = v] = [disk EXCEPT !.catalog = d]
    OBVIOUS
  <2> HIDE DEF d
  <2>3. NewCatalog([disk EXCEPT !.catalog = d])
    BY <1>3, <2>1 DEF NewCatalog
  <2> QED BY <1>2, <1>4, <2>1, <2>2, <2>3
<1>5. CASE RegisterProvider
  BY <1>4, <1>5 DEF RegisterProvider
<1>6. CASE \E status \in {"inactive", "active"} : SetProviderStatus(status)
  BY <1>4, <1>6 DEF SetProviderStatus
<1>7. ASSUME NEW d \in Catalog, d.terms = c.terms, MoreTerms(disk),
             Edit([disk EXCEPT !.catalog = Edited(d)])
      PROVE  \E f \in File : Edit(f) /\ NewCatalog(f)
  <2>1. Edited(d) \in Catalog
    BY <1>7, EditedType DEF MoreTerms
  <2>2. NewCatalog([disk EXCEPT !.catalog = Edited(d)])
    BY <1>1, <1>7, EditedCatalog
  <2> QED BY <1>2, <1>7, <2>1, <2>2
<1>8. CASE \E staged, asset \in BOOLEAN : RegisterCapability(staged, asset)
  <2>1. PICK staged, asset \in BOOLEAN : RegisterCapability(staged, asset)
    BY <1>8
  <2> DEFINE d == [c EXCEPT !.status = "unlisted", !.affirmed = ~staged, !.asset = asset]
  <2>2. d \in Catalog /\ d.terms = c.terms
    BY <1>3 DEF Catalog
  <2>3. MoreTerms(disk) /\ Edit([disk EXCEPT !.catalog = Edited(d)])
    BY <2>1 DEF RegisterCapability
  <2> HIDE DEF d
  <2> QED BY <1>7, <2>2, <2>3
<1>9. CASE AffirmRights
  <2> DEFINE d == [c EXCEPT !.affirmed = TRUE]
  <2>1. d \in Catalog /\ d.terms = c.terms
    BY <1>3 DEF Catalog
  <2>2. MoreTerms(disk) /\ Edit([disk EXCEPT !.catalog = Edited(d)])
    BY <1>9 DEF AffirmRights
  <2> HIDE DEF d
  <2> QED BY <1>7, <2>1, <2>2
<1>10. CASE Unlist
  <2> DEFINE d == [c EXCEPT !.status = "unlisted"]
  <2>1. d \in Catalog /\ d.terms = c.terms
    BY <1>3 DEF Catalog
  <2>2. MoreTerms(disk) /\ Edit([disk EXCEPT !.catalog = Edited(d)])
    BY <1>10 DEF Unlist
  <2> HIDE DEF d
  <2> QED BY <1>7, <2>1, <2>2
<1>11. CASE \E a \in Approval, k \in Key, input \in Input : Approve(a, k, input)
  <2>1. PICK a \in Approval, k \in Key, input \in Input : Approve(a, k, input)
    BY <1>11
  <2> DEFINE r == [key |-> k, input |-> input, terms |-> c.terms, used |-> FALSE]
  <2>2. r \in ApprovalRecord
    BY <1>3 DEF ApprovalRecord, Catalog
  <2>3. disk.approvals[a] = NoApproval /\ Edit([disk EXCEPT !.approvals[a] = r])
    BY <2>1 DEF Approve
  <2> HIDE DEF r
  <2>4. [disk EXCEPT !.approvals[a] = r] \in File
    BY <1>1, <2>2 DEF File
  <2> QED BY <2>2, <2>3, <2>4 DEF NewApproval
<1>12. CASE \E k \in Key : MarkSettled(k)
  <2>1. PICK k \in Key : MarkSettled(k)
    BY <1>12
  <2> DEFINE r == [disk.rec[k] EXCEPT !.alloc = "settled"]
  <2>2. r \in Purchase
    BY <1>1 DEF File, Purchase
  <2>3. /\ disk.rec[k].alloc = "payable"
        /\ Edit([disk EXCEPT !.rec[k] = r])
    BY <2>1 DEF MarkSettled
  <2>4. [disk EXCEPT !.rec[k] = r] \in File
    <3> HIDE DEF r
    <3> QED BY <1>1, <2>2, WithRecord
  <2>5. PaidOut([disk EXCEPT !.rec[k] = r])
    BY <2>3 DEF PaidOut
  <2> HIDE DEF r
  <2> QED BY <2>3, <2>4, <2>5
<1> QED BY <1>5, <1>6, <1>8, <1>9, <1>10, <1>11, <1>12 DEF Operator

LEMMA StartType ==
  ASSUME TypeInv, NEW p \in Proc, NEW c \in Call, StartCall(p, c) PROVE TypeInv'
<1> DEFINE label == IF c.op = "purchase" THEN "waitCore" ELSE "waitMarket"
<1>1. /\ pc' = [pc EXCEPT ![p] = label]
      /\ call' = [call EXCEPT ![p] = c]
      /\ UNCHANGED <<lock, disk, core, mem, faults, settles, asked, served, replies>>
  BY DEF StartCall, Goto, worldVars
<1>2. label \in Label \ (Holding \cup {"idle"}) /\ (label = "waitCore" => c.op = "purchase")
  BY DEF Label, Holding
<1> HIDE DEF label
<1>3. TypeOK'
  BY <1>1, <1>2 DEF TypeInv, TypeOK
<1> QED BY <1>1, <1>2, <1>3 DEF TypeInv, TypeOK, Rec, KeyOf, Holding, InPurchase

LEMMA AcquireType ==
  ASSUME TypeInv, NEW p \in Proc, AcquireCore(p) \/ AcquireMarket(p) PROVE TypeInv'
<1>1. CASE AcquireCore(p)
  <2>1. /\ pc' = [pc EXCEPT ![p] = "waitMarket"] /\ pc[p] = "waitCore"
        /\ lock' = [lock EXCEPT !["core"] = p]
        /\ UNCHANGED <<disk, core, mem, call, faults, settles, asked, served, replies>>
    BY <1>1 DEF AcquireCore, Goto, worldVars
  <2>2. TypeOK'
    BY <2>1 DEF TypeInv, TypeOK, Label
  <2> QED BY <2>1, <2>2 DEF TypeInv, TypeOK, Rec, KeyOf, Holding, InPurchase
<1>2. CASE AcquireMarket(p)
  <2>1. /\ pc' = [pc EXCEPT ![p] = "begin"] /\ pc[p] = "waitMarket"
        /\ lock' = [lock EXCEPT !["market"] = p]
        /\ mem' = [mem EXCEPT ![p] = disk]
        /\ UNCHANGED <<disk, core, call, faults, settles, asked, served, replies>>
        /\ call[p].op # "list"
    BY <1>2 DEF AcquireMarket, Goto, worldVars
  <2>2. TypeOK'
    BY <2>1 DEF TypeInv, TypeOK, Label
  <2>3. call[p] \in Call /\ call[p].op \in {"purchase", "download"}
    BY <2>1, CallFields DEF TypeInv
  <2>4. pc'[p] = "begin" /\ \A q \in Proc \ {p} : pc'[q] = pc[q] /\ mem'[q] = mem[q]
    BY <2>1 DEF TypeInv, TypeOK
  <2> QED BY <2>1, <2>2, <2>3, <2>4 DEF TypeInv, Rec, KeyOf, Holding, InPurchase
<1> QED BY <1>1, <1>2

LEMMA LeaveType ==
  ASSUME TypeInv, NEW p \in Proc, WaitFails(p) \/ Return(p) \/ Crash(p) PROVE TypeInv'
<1>1. CASE WaitFails(p) \/ Crash(p)
  <2>1. /\ End(p) /\ faults' \in 0 .. MaxFault
        /\ UNCHANGED <<disk, core, settles, asked, served, replies>>
    BY <1>1, MarketplaceAssumption DEF WaitFails, Crash, Fault, worldVars, TypeInv, TypeOK
  <2> QED BY <2>1, EndType DEF TypeInv, TypeOK
<1>2. CASE Return(p)
  <2>1. End(p) /\ UNCHANGED <<disk, core, faults, settles, asked>>
    BY <1>2 DEF Return
  <2>2. pc[p] \in Holding
    BY <1>2 DEF Return, Holding, Label
  <2>3. KeyOf(p) \in Key /\ Rec(p) \in Purchase
          /\ (call[p].op = "purchase" => call[p].req \in Request)
    BY <2>2, AtWork
  <2>4. served' \in [Key -> Nat]
    BY <1>2, <2>3 DEF Return, TypeInv, TypeOK
  <2>5. replies' \in [Key -> SUBSET (Request \X (Job \X Pay))]
    <3>1. CASE call[p].op = "purchase" /\ pc[p] = "answered"
      <4>1. <<call[p].req, <<Rec(p).job, Rec(p).pay>>>> \in Request \X (Job \X Pay)
        BY <2>3, <3>1 DEF Purchase
      <4> QED BY <1>2, <2>3, <3>1, <4>1 DEF Return, TypeInv, TypeOK
    <3>2. CASE ~(call[p].op = "purchase" /\ pc[p] = "answered")
      BY <1>2, <3>2 DEF Return, TypeInv, TypeOK
    <3> QED BY <3>1, <3>2
  <2> QED BY <2>1, <2>4, <2>5, EndType DEF TypeInv, TypeOK
<1> QED BY <1>1, <1>2

LEMMA DownloadType ==
  ASSUME TypeInv, NEW p \in Proc, RefuseDownload(p) \/ Download(p) PROVE TypeInv'
<1>1. pc[p] = "begin" /\ pc[p] \in Holding /\ call[p].op = "download"
  BY DEF RefuseDownload, Download, Downloading, Holding, Label
<1>2. {"answered", "failed"} \subseteq (Holding \ {"begin"}) \ InPurchase
  BY DEF Holding, InPurchase, Label
<1>3. CASE RefuseDownload(p)
  BY <1>1, <1>2, <1>3, AdvanceType DEF RefuseDownload, Advance, worldVars, TypeInv, TypeOK
<1>4. CASE Download(p)
  <2> DEFINE u == Rec(p).uses - 1
             r == [Rec(p) EXCEPT !.uses = u]
  <2>1. u \in 0 .. 3
    BY <1>1, <1>4, AtWork DEF Download, Purchase
  <2>2. Write(p, WithRec(p, r), "answered", "failed")
    BY <1>4 DEF Download
  <2> HIDE DEF u
  <2>3. r \in Purchase /\ r.req = Rec(p).req
    BY <1>1, <2>1, AtWork DEF Purchase
  <2> HIDE DEF r
  <2> QED BY <1>1, <1>2, <2>2, <2>3, WriteRecType
<1> QED BY <1>3, <1>4

LEMMA ListType ==
  ASSUME TypeInv, NEW p \in Proc, List(p)
  PROVE  /\ TypeInv'
         /\ disk' = disk \/ NewCatalog(disk')
<1>1. /\ pc' = [pc EXCEPT ![p] = "idle"]
      /\ call' = [call EXCEPT ![p] = NoCall]
      /\ UNCHANGED <<lock, core, mem, faults, settles, asked, served, replies>>
  BY DEF List, Goto, worldVars
<1> DEFINE d == [disk.catalog EXCEPT !.status = "listed"]
<1>2. disk \in File
  BY DEF TypeInv, TypeOK
<1>3. d \in Catalog /\ d.terms = disk.catalog.terms
  BY <1>2 DEF File, Catalog
<1>4. \/ disk' = disk
      \/ MoreTerms(disk) /\ disk' = [disk EXCEPT !.catalog = Edited(d)]
  BY DEF List
<1> HIDE DEF d
<1>5. disk' = disk \/ (NewCatalog(disk') /\ disk' \in File)
  <2>1. CASE disk' = disk
    BY <2>1
  <2>2. CASE MoreTerms(disk) /\ disk' = [disk EXCEPT !.catalog = Edited(d)]
    <3>1. Edited(d) \in Catalog
      BY <1>3, <2>2, EditedType DEF MoreTerms
    <3> QED BY <1>2, <1>3, <2>2, <3>1, EditedCatalog, CatalogType
  <2> QED BY <1>4, <2>1, <2>2
<1>6. TypeOK'
  BY <1>1, <1>2, <1>5 DEF TypeInv, TypeOK, Label
<1>7. TypeInv'
  BY <1>1, <1>6 DEF TypeInv, TypeOK, Rec, KeyOf, Holding, InPurchase
<1> QED BY <1>5, <1>7

LEMMA TypeNext == ASSUME TypeInv, [Next]_vars PROVE TypeInv'
<1>1. CASE \E p \in Proc, c \in Call : StartCall(p, c)
  BY <1>1, StartType
<1>2. CASE \E p \in Proc : Step(p)
  BY <1>2, AcquireType, LeaveType, PurchaseType, DownloadType, ListType DEF Step
<1>3. CASE \E p \in Proc : WaitFails(p) \/ Crash(p)
  BY <1>3, LeaveType
<1>4. CASE \E l \in {"core", "market"} : GuardianDies(l)
  <2>1. PICK l \in {"core", "market"} : GuardianDies(l)
    BY <1>4
  <2>2. /\ lock' = [lock EXCEPT ![l] = NoProc]
        /\ faults' \in 0 .. MaxFault
        /\ UNCHANGED <<disk, core, mem, pc, call, settles, asked, served, replies>>
    BY <2>1, MarketplaceAssumption
    DEF GuardianDies, Fault, localVars, worldVars, TypeInv, TypeOK
  <2>3. TypeOK'
    BY <2>2 DEF TypeInv, TypeOK
  <2> QED BY <2>2, <2>3 DEF TypeInv, Rec, KeyOf
<1>5. CASE Operator
  BY <1>5, OperatorEdits, EditType
<1>6. CASE \E n \in ReplayKey : CoreInvoke(n)
  <2>1. PICK n \in ReplayKey : CoreInvoke(n)
    BY <1>6
  <2>2. core' = [core EXCEPT !.replay = @ \cup {n}] /\ settles' = [settles EXCEPT ![n] = @ + 1]
        /\ UNCHANGED <<lock, disk, mem, pc, call, faults, asked, served, replies>>
    BY <2>1 DEF CoreInvoke, localVars
  <2>3. core' \in CoreFile /\ settles' \in [ReplayKey -> Nat]
    BY <2>2 DEF TypeInv, TypeOK, CoreFile
  <2>4. TypeOK'
    BY <2>2, <2>3 DEF TypeInv, TypeOK
  <2> QED BY <2>2, <2>4 DEF TypeInv, Rec, KeyOf
<1>7. CASE UNCHANGED vars
  BY <1>7 DEF vars, TypeInv, TypeOK, Rec, KeyOf
<1> QED BY <1>1, <1>2, <1>3, <1>4, <1>5, <1>6, <1>7 DEF Next

LEMMA Typed == Spec => []TypeInv
<1> QED BY TypeInit, TypeNext, PTL DEF Spec

(* The variables have their types, in every behaviour.                     *)
THEOREM MarketTypeCorrect == Spec => []TypeOK
<1>1. TypeInv => TypeOK
  BY DEF TypeInv
<1> QED BY <1>1, Typed, PTL

-----------------------------------------------------------------------------
(* Who holds the locks.                                                    *)

(* Between acquiring and returning, a process only moves from label to     *)
(* label under the market lock.                                            *)
LEMMA UnderLock ==
  ASSUME TypeInv, NEW p \in Proc, PurchaseStep(p) \/ RefuseDownload(p) \/ Download(p)
  PROVE  /\ pc[p] \in Holding
         /\ \E label \in Holding : pc' = [pc EXCEPT ![p] = label]
         /\ \A q \in Proc \ {p} : mem'[q] = mem[q]
         /\ UNCHANGED <<lock, call, served, replies>>
<1>1. CASE PurchaseStep(p)
  <2>1. CASE \/ Conflict(p) \/ Duplicate(p) \/ Refuse(p) \/ VerifyFails(p)
             \/ SettleFails(p) \/ ExecuteFails(p) \/ CallSettle(p)
    BY <2>1
    DEF Conflict, Duplicate, Refuse, VerifyFails, SettleFails, ExecuteFails, CallSettle,
        Advance, Goto, Purchasing, worldVars, Holding, Label
  <2>2. CASE \/ Stranded(p) \/ Journal(p) \/ VerifySucceeds(p) \/ SettleSucceeds(p)
             \/ StartExecution(p) \/ ExecuteSucceeds(p) \/ Complete(p) \/ Caught(p)
    <3>1. pc[p] \in Holding
      BY <2>2 DEF Stranded, Journal, VerifySucceeds, SettleSucceeds, StartExecution,
                  ExecuteSucceeds, Complete, Caught, Purchasing, Holding, Label
    <3>2. \E f, next, err : next \in Holding /\ err \in Holding /\ Write(p, f, next, err)
      <4>1. {"answered", "failed", "reserve", "settle", "caught", "paid", "executing",
             "delivered", "project"} \subseteq Holding
        BY DEF Holding, Label
      <4> QED BY <2>2, <4>1 DEF Stranded, Journal, VerifySucceeds, SettleSucceeds,
                    StartExecution, ExecuteSucceeds, Complete, Caught
    <3> QED BY <3>1, <3>2 DEF Write, Goto, worldVars, TypeInv, TypeOK
  <2>3. CASE Reserve(p) \/ Project(p)
    BY <2>3 DEF Reserve, Project, WriteCore, Advance, Goto, worldVars, Holding, Label
  <2> QED BY <1>1, <2>1, <2>2, <2>3 DEF PurchaseStep
<1>2. CASE RefuseDownload(p)
  BY <1>2 DEF RefuseDownload, Advance, Goto, Downloading, worldVars, Holding, Label
<1>3. CASE Download(p)
  BY <1>3 DEF Download, Write, Goto, Downloading, worldVars, Holding, Label, TypeInv, TypeOK
<1> QED BY <1>1, <1>2, <1>3

LEMMA LockNext == ASSUME ExactLocks, TypeInv, LockInv, [Next]_vars PROVE LockInv'
<1> USE MarketplaceAssumption
<1>1. ASSUME NEW p \in Proc, NEW c \in Call, StartCall(p, c) PROVE LockInv'
  BY <1>1 DEF StartCall, Goto, LockInv, TypeInv, TypeOK, Holding
<1>2. ASSUME NEW p \in Proc, AcquireCore(p) PROVE LockInv'
  BY <1>2 DEF AcquireCore, Goto, LockInv, TypeInv, TypeOK, Holding
<1>3. ASSUME NEW p \in Proc, AcquireMarket(p) PROVE LockInv'
  BY <1>3 DEF AcquireMarket, Goto, LockInv, TypeInv, TypeOK, Holding, Label
<1>4. ASSUME NEW p \in Proc, WaitFails(p) \/ Return(p) \/ Crash(p) PROVE LockInv'
  BY <1>4 DEF WaitFails, Return, Crash, End, Released, Goto, LockInv, TypeInv, TypeOK, Holding
<1>5. ASSUME NEW p \in Proc, PurchaseStep(p) \/ RefuseDownload(p) \/ Download(p)
      PROVE  LockInv'
  BY <1>5, UnderLock DEF LockInv, TypeInv, TypeOK, Holding
<1>6. ASSUME NEW p \in Proc, List(p) PROVE LockInv'
  BY <1>6 DEF List, Goto, LockInv, TypeInv, TypeOK, Holding
<1>7. CASE \E l \in {"core", "market"} : GuardianDies(l)
  BY <1>7 DEF GuardianDies, ExactLocks
<1>8. ASSUME UNCHANGED <<lock, pc, call>> PROVE LockInv'
  BY <1>8 DEF LockInv
<1>9. CASE Operator \/ (\E n \in ReplayKey : CoreInvoke(n)) \/ UNCHANGED vars
  <2>1. CASE Operator
    BY <1>8, <2>1, OperatorEdits DEF Edit, localVars
  <2> QED BY <1>8, <1>9, <2>1 DEF CoreInvoke, localVars, vars
<1> QED BY <1>1, <1>2, <1>3, <1>4, <1>5, <1>6, <1>7, <1>9 DEF Next, Step

-----------------------------------------------------------------------------
(* MarketInv is inductive, and no step takes back what the files said.     *)

(* An answered record keeps all but its uses and its allocation.           *)
Same(old, new) == new = [old EXCEPT !.uses = new.uses, !.alloc = new.alloc]

Kept ==
  /\ disk.catalog.terms <= disk'.catalog.terms
  /\ core.replay \subseteq core'.replay
  /\ \A a \in Approval : disk.approvals[a] # NoApproval =>
       disk'.approvals[a] \in
         {disk.approvals[a], [disk.approvals[a] EXCEPT !.used = TRUE]}
  /\ \A k \in Key :
       LET old == disk.rec[k]  new == disk'.rec[k] IN
       /\ old.req # NoRequest => new.req = old.req
       /\ old.answered => Same(old, new)
       /\ new.uses > old.uses => ~old.answered
       /\ old.alloc = "settled" => new.alloc = "settled"

(* Only one process works under the market lock.                           *)
LEMMA Alone ==
  ASSUME LockInv, NEW p \in Proc, pc[p] \in Holding, NEW q \in Proc \ {p}
  PROVE  pc[q] \notin Holding
  BY DEF LockInv

LEMMA NotWorking ==
  ASSUME NEW q \in Proc, pc'[q] \notin Holding PROVE OwnerInv(q)'
<1>1. "answered" \in Holding /\ "caught" \in Holding /\ InPurchase \subseteq Holding
  BY DEF Holding, InPurchase, Label
<1> QED BY <1>1 DEF OwnerInv, Current

LEMMA SameRecord ==
  ASSUME NEW r \in Purchase PROVE Same(r, r) /\ ~(r.uses > r.uses)
<1>1. r.uses \in Nat
  BY DEF Purchase
<1>2. Same(r, r)
  BY DEF Purchase, Same
<1> QED BY <1>1, <1>2

(* Steps that leave the files and the world alone.                         *)
LEMMA FileUntouched ==
  ASSUME SafeInv, UNCHANGED <<disk, core, settles, asked, served, replies>>
  PROVE  FileInv' /\ Kept
<1>1. FileInv'
  BY DEF SafeInv, MarketInv, FileInv, ReplayInv, SoldAsApproved, KeyFacts
<1>2. disk \in File
  BY DEF SafeInv, TypeInv, TypeOK
<1>3. disk.catalog.terms <= disk.catalog.terms
  BY <1>2, MarketplaceAssumption DEF File, Catalog, Terms
<1>4. ASSUME NEW k \in Key
      PROVE  Same(disk.rec[k], disk.rec[k]) /\ ~(disk.rec[k].uses > disk.rec[k].uses)
  BY <1>2, SameRecord DEF File
<1> QED BY <1>1, <1>3, <1>4 DEF Kept

(* A step that changes one record, or fails to.                            *)
LEMMA RecordStep ==
  ASSUME SafeInv, NEW k \in Key, NEW r \in Purchase, KeyFacts(r, k),
         r.req = disk.rec[k].req, r.terms = disk.rec[k].terms,
         disk.rec[k].answered => Same(disk.rec[k], r),
         r.uses > disk.rec[k].uses => ~disk.rec[k].answered,
         disk.rec[k].alloc = "settled" => r.alloc = "settled",
         disk' \in {disk, [disk EXCEPT !.rec[k] = r]},
         UNCHANGED <<core, settles, asked, served, replies>>
  PROVE  FileInv' /\ Kept
<1>1. CASE disk' = disk
  BY <1>1, FileUntouched
<1>2. CASE disk' = [disk EXCEPT !.rec[k] = r]
  <2>1. disk \in File
    BY DEF SafeInv, TypeInv, TypeOK
  <2>2. /\ disk'.rec[k] = r
        /\ \A j \in Key \ {k} : disk'.rec[j] = disk.rec[j]
        /\ disk'.approvals = disk.approvals /\ disk'.catalog = disk.catalog
    BY <1>2, <2>1, WithRecord
  <2>3. ReplayInv'
    BY DEF SafeInv, MarketInv, FileInv, ReplayInv
  <2>4. ASSUME NEW j \in Key
        PROVE  disk'.rec[j].req = disk.rec[j].req /\ disk'.rec[j].terms = disk.rec[j].terms
    BY <2>2
  <2>5. SoldAsApproved'
    BY <2>2, <2>4 DEF SafeInv, MarketInv, FileInv, SoldAsApproved
  <2>6. ASSUME NEW j \in Key PROVE KeyFacts(disk.rec[j], j)'
    <3>1. KeyFacts(disk'.rec[j], j)
      BY <2>2 DEF SafeInv, MarketInv, FileInv
    <3> QED BY <3>1 DEF KeyFacts
  <2>7. disk.catalog.terms <= disk.catalog.terms
    BY <2>1, MarketplaceAssumption DEF File, Catalog, Terms
  <2>8. ASSUME NEW j \in Key
        PROVE  /\ disk.rec[j].answered => Same(disk.rec[j], disk'.rec[j])
               /\ disk'.rec[j].uses > disk.rec[j].uses => ~disk.rec[j].answered
               /\ disk.rec[j].alloc = "settled" => disk'.rec[j].alloc = "settled"
    <3>1. CASE j = k
      BY <2>2, <3>1
    <3>2. CASE j # k
      <4>1. disk.rec[j] \in Purchase
        BY <2>1 DEF File
      <4> QED BY <2>2, <3>2, <4>1, SameRecord
    <3> QED BY <3>1, <3>2
  <2>9. Kept
    BY <2>2, <2>4, <2>7, <2>8 DEF Kept
  <2> QED BY <2>3, <2>5, <2>6, <2>9 DEF FileInv
<1> QED BY <1>1, <1>2

(* What SafeInv says of a purchase on its way.                             *)
LEMMA OnItsWay ==
  ASSUME SafeInv, NEW p \in Proc, pc[p] \in Unanswered
  PROVE  /\ pc[p] \in InPurchase /\ pc[p] \in Holding
         /\ KeyOf(p) \in Key /\ Rec(p) \in Purchase /\ disk.rec[KeyOf(p)] \in Purchase
         /\ disk \in File
         /\ \A r \in Purchase : WithRec(p, r) = [disk EXCEPT !.rec[KeyOf(p)] = r]
         /\ call[p].op = "purchase" /\ Rec(p).req = call[p].req /\ Rec(p).req \in Request
         /\ Rec(p).req.replayKey \in ReplayKey
         /\ disk.rec[KeyOf(p)].req = Rec(p).req
         /\ disk.rec[KeyOf(p)].terms = Rec(p).terms
         /\ ~Rec(p).answered /\ ~disk.rec[KeyOf(p)].answered
         /\ disk.rec[KeyOf(p)].alloc # "settled"
         /\ Untold(KeyOf(p))
         /\ StageInv(pc[p], Rec(p), KeyOf(p), Rec(p).req.replayKey)
         /\ Story(Rec(p))
         /\ OwnerInv(p)
<1> DEFINE k == KeyOf(p)
<1>1. pc[p] \in InPurchase /\ pc[p] \in Holding /\ pc[p] # "failed"
  BY DEF Unanswered, InPurchase, Holding
<1>2. k \in Key /\ Rec(p) \in Purchase /\ disk \in File /\ disk.rec[k] \in Purchase
  BY <1>1, AtWork DEF SafeInv, TypeInv, TypeOK, File
<1>3. call[p].op = "purchase" /\ Rec(p).req = call[p].req /\ Rec(p).req \in Request
        /\ Rec(p).req.replayKey \in ReplayKey
  BY <1>1, AtWork DEF SafeInv, TypeInv, Request
<1>4. OwnerInv(p)
  BY DEF SafeInv, MarketInv
<1>5. /\ Untold(k) /\ StageInv(pc[p], Rec(p), k, Rec(p).req.replayKey)
      /\ ~Rec(p).answered /\ ~disk.rec[k].answered
  BY <1>1, <1>4 DEF OwnerInv, StageInv
<1>6. disk.rec[k].alloc # "settled" /\ Story(disk.rec[k])
  BY <1>2, <1>5 DEF SafeInv, MarketInv, FileInv, KeyFacts, Story
<1>7. CASE pc[p] = "caught"
  <2>1. /\ mem[p] = [disk EXCEPT !.rec[k] = Rec(p)]
        /\ disk.rec[k].req = Rec(p).req /\ disk.rec[k].terms = Rec(p).terms
        /\ Story(Rec(p))
    BY <1>4, <1>7 DEF OwnerInv, Current
  <2>2. ASSUME NEW r \in Purchase PROVE WithRec(p, r) = [disk EXCEPT !.rec[k] = r]
    <3>1. [mem[p] EXCEPT !.rec[k] = r] = [disk EXCEPT !.rec[k] = r]
      <4> DEFINE s == Rec(p)
      <4> HIDE DEF s, k
      <4>1. [[disk EXCEPT !.rec[k] = s] EXCEPT !.rec[k] = r] = [disk EXCEPT !.rec[k] = r]
        BY <1>2 DEF File
      <4> QED BY <2>1, <4>1 DEF s, k
    <3> QED BY <3>1 DEF WithRec
  <2> QED BY <1>1, <1>2, <1>3, <1>4, <1>5, <1>6, <2>1, <2>2
<1>8. CASE pc[p] # "caught"
  <2>1. mem[p] = disk
    BY <1>1, <1>4, <1>8 DEF OwnerInv, Current
  <2> QED BY <1>1, <1>2, <1>3, <1>4, <1>5, <1>6, <2>1 DEF WithRec, Rec
<1> QED BY <1>7, <1>8

(* A write of a purchase on its way.                                       *)
LEMMA PurchaseWrite ==
  ASSUME SafeInv, NEW p \in Proc, pc[p] \in Unanswered, NEW r \in Purchase,
         NEW next \in Holding, NEW err \in Holding,
         Write(p, WithRec(p, r), next, err),
         r.req = Rec(p).req, r.terms = Rec(p).terms, Story(r),
         KeyOf(p) \in asked => r.pay \in {"settlement_pending", "successful"},
         r.pay = "successful" => KeyOf(p) \in asked
  PROVE  /\ FileInv' /\ Kept
         /\ \A q \in Proc \ {p} : OwnerInv(q)'
         /\ pc'[p] \in {next, err} /\ KeyOf(p)' = KeyOf(p) /\ call'[p].op = "purchase"
         /\ Rec(p)' = r /\ Untold(KeyOf(p))'
         /\ UNCHANGED <<core, settles, asked, served, replies>>
         /\ disk'.rec[KeyOf(p)] \in {disk.rec[KeyOf(p)], r}
         /\ mem'[p] = [disk' EXCEPT !.rec[KeyOf(p)] = r]
         /\ pc'[p] # err => mem'[p] = disk'
<1> DEFINE k == KeyOf(p)
           f == [disk EXCEPT !.rec[k] = r]
<1>1. /\ mem' = [mem EXCEPT ![p] = f]
      /\ \/ disk' = f /\ pc' = [pc EXCEPT ![p] = next]
         \/ disk' \in {disk, f} /\ pc' = [pc EXCEPT ![p] = err]
      /\ UNCHANGED <<lock, core, call, settles, asked, served, replies>>
  BY OnItsWay DEF Write, Goto, worldVars
<1>2. KeyOf(p)' = KeyOf(p) /\ call'[p].op = "purchase"
  BY <1>1, OnItsWay DEF KeyOf
<1>3. /\ mem'[p] = f /\ pc'[p] \in {next, err}
      /\ \A q \in Proc \ {p} : pc'[q] = pc[q]
      /\ pc'[p] # err => disk' = f
  BY <1>1 DEF SafeInv, TypeInv, TypeOK
<1>4. /\ f.rec[k] = r /\ f \in File
  <2> HIDE DEF k
  <2> QED BY OnItsWay, WithRecord DEF k
<1>5. Rec(p)' = r
  BY <1>2, <1>3, <1>4 DEF Rec
<1>6. Untold(k) /\ Untold(k)'
  BY <1>1, <1>2, OnItsWay DEF Untold
<1>7. KeyFacts(r, k)
  <2>1. k \in asked => r.req.replayKey \in core.replay
    BY OnItsWay DEF SafeInv, MarketInv, FileInv, KeyFacts
  <2>2. served[k] + r.uses <= IF r.job = "verified" THEN 3 ELSE 1
    BY <1>6 DEF Untold, Story, Purchase
  <2> QED BY <1>6, <2>1, <2>2 DEF KeyFacts, Untold
<1>8. FileInv' /\ Kept
  <2>1. disk' \in {disk, [disk EXCEPT !.rec[k] = r]}
    BY <1>1
  <2> HIDE DEF k
  <2> QED BY <1>1, <1>7, <2>1, OnItsWay, RecordStep DEF k
<1>9. ASSUME NEW q \in Proc \ {p} PROVE OwnerInv(q)'
  <2>1. pc[p] \in Holding /\ LockInv
    BY OnItsWay DEF SafeInv
  <2>2. pc[q] \notin Holding
    BY <2>1, Alone
  <2>3. pc'[q] \notin Holding
    BY <1>3, <2>2
  <2> QED BY <2>3, NotWorking
<1>10. disk'.rec[k] \in {disk.rec[k], r}
  BY <1>1, <1>4
<1>11. mem'[p] = [disk' EXCEPT !.rec[k] = r]
  <2>1. disk \in File /\ k \in Key
    BY OnItsWay
  <2> HIDE DEF k
  <2>2. [f EXCEPT !.rec[k] = r] = f
    BY <2>1, <1>4 DEF File
  <2> QED BY <1>1, <1>3, <2>2
<1> QED BY <1>1, <1>2, <1>3, <1>5, <1>6, <1>8, <1>9, <1>10, <1>11

(* The owner after such a write: at next the file is what it has, at       *)
(* "caught" the file has its record as it was or as it is.                 *)
LEMMA WriteOwner ==
  ASSUME SafeInv, NEW p \in Proc, pc[p] \in Unanswered, NEW r \in Purchase,
         NEW next \in Unanswered \ {"caught"},
         Write(p, WithRec(p, r), next, "caught"),
         r.req = Rec(p).req, r.terms = Rec(p).terms, Story(r), ~r.answered,
         KeyOf(p) \in asked => r.pay \in {"settlement_pending", "successful"},
         r.pay = "successful" => KeyOf(p) \in asked,
         StageInv(next, r, KeyOf(p), r.req.replayKey)
  PROVE  MarketInv' /\ Kept
<1>0. PICK k \in Key : k = KeyOf(p)
  BY OnItsWay
<1>1. next \in Holding /\ "caught" \in Holding /\ next \notin {"caught", "failed", "answered"}
        /\ {next, "caught"} \subseteq Unanswered /\ {next, "caught"} \subseteq InPurchase
  BY DEF Unanswered, InPurchase, Holding, Label
<1>2. /\ FileInv' /\ Kept
      /\ \A q \in Proc \ {p} : OwnerInv(q)'
      /\ pc'[p] \in {next, "caught"} /\ KeyOf(p)' = k /\ call'[p].op = "purchase"
      /\ Rec(p)' = r /\ Untold(k)'
      /\ UNCHANGED <<core, settles, asked, served, replies>>
      /\ disk'.rec[k] \in {disk.rec[k], r}
      /\ mem'[p] = [disk' EXCEPT !.rec[k] = r]
      /\ pc'[p] # "caught" => mem'[p] = disk'
  BY <1>0, <1>1, PurchaseWrite
<1>3. ~disk.rec[k].answered /\ disk.rec[k].req = r.req /\ disk.rec[k].terms = r.terms
  BY <1>0, OnItsWay
<1>4. ~disk'.rec[k].answered /\ disk'.rec[k].req = r.req /\ disk'.rec[k].terms = r.terms
  BY <1>2, <1>3
<1>5. Current(p)'
  BY <1>1, <1>2, <1>4 DEF Current
<1>6. StageInv(pc[p], Rec(p), KeyOf(p), Rec(p).req.replayKey)'
  <2>1. StageInv(next, r, k, r.req.replayKey)'
    BY <1>0, <1>2, <1>4 DEF StageInv
  <2>2. CASE pc'[p] = next
    BY <1>2, <2>1, <2>2
  <2>3. CASE pc'[p] = "caught"
    <3>1. StageInv("caught", r, k, r.req.replayKey)'
      BY <1>0, <1>2, <1>4 DEF StageInv
    <3> QED BY <1>2, <2>3, <3>1
  <2> QED BY <1>2, <2>2, <2>3
<1>7. OwnerInv(p)'
  BY <1>1, <1>2, <1>5, <1>6 DEF OwnerInv
<1> QED BY <1>2, <1>7 DEF MarketInv

(* The writes between verification and delivery.                           *)
LEMMA ProgressMarket ==
  ASSUME SafeInv, NEW p \in Proc,
         \/ VerifySucceeds(p) \/ SettleSucceeds(p)
         \/ StartExecution(p) \/ ExecuteSucceeds(p)
  PROVE  MarketInv' /\ Kept
<1>0. PICK k \in Key, s \in Purchase : k = KeyOf(p) /\ s = Rec(p)
  <2>1. pc[p] \in Unanswered
    BY DEF VerifySucceeds, SettleSucceeds, StartExecution, ExecuteSucceeds,
           Unanswered, InPurchase, Holding, Label
  <2> QED BY <2>1, OnItsWay
<1>1. /\ {"executing", "delivered"} \subseteq Job \ {"verified"}
      /\ "settlement_pending" \in Pay
      /\ {"settle", "paid", "executing", "delivered"} \subseteq Unanswered \ {"caught"}
  BY DEF Job, Pay, Unanswered, InPurchase, Holding, Label
<1>2. CASE VerifySucceeds(p)
  <2> DEFINE r == [s EXCEPT !.pay = "settlement_pending"]
  <2>1. pc[p] = "verifying" /\ pc[p] \in Unanswered /\ Write(p, WithRec(p, r), "settle", "caught")
    BY <1>0, <1>2 DEF VerifySucceeds, Unanswered, InPurchase, Holding, Label
  <2>2. /\ ~s.answered /\ Story(s) /\ s.req \in Request
        /\ StageInv("verifying", s, k, s.req.replayKey)
    BY <1>0, <2>1, OnItsWay
  <2>3. /\ r \in Purchase /\ r.req = s.req /\ r.terms = s.terms /\ r.pay = "settlement_pending"
        /\ r.job = s.job /\ r.answered = s.answered /\ r.receipt = s.receipt
        /\ r.ent = s.ent /\ r.alloc = s.alloc /\ r.uses = s.uses
    BY <1>1 DEF Purchase
  <2> HIDE DEF r
  <2>4. Story(r)
    BY <2>2, <2>3, MarketplaceAssumption DEF Story, StageInv
  <2>5. StageInv("settle", r, k, r.req.replayKey) /\ k \notin asked
    BY <2>2, <2>3 DEF StageInv, Unanswered, InPurchase, Holding, Label
  <2> QED BY <1>0, <1>1, <2>1, <2>2, <2>3, <2>4, <2>5, WriteOwner
<1>3. CASE SettleSucceeds(p)
  <2>1. pc[p] = "settling" /\ pc[p] \in Unanswered /\ Write(p, WithRec(p, Paid(s)), "paid", "caught")
    BY <1>0, <1>3 DEF SettleSucceeds, Unanswered, InPurchase, Holding, Label
  <2>2. /\ ~s.answered /\ Story(s) /\ s.req \in Request
        /\ StageInv("settling", s, k, s.req.replayKey)
    BY <1>0, <2>1, OnItsWay
  <2>3. Paid(s) \in Purchase
    BY RecordTypes
  <2>4. Story(Paid(s))
    BY <2>2, PaidFields, MarketplaceAssumption DEF Story
  <2>5. StageInv("paid", Paid(s), k, Paid(s).req.replayKey) /\ k \in asked
    BY <2>2, PaidFields DEF StageInv, Unanswered, InPurchase, Holding, Label
  <2> QED BY <1>0, <1>1, <2>1, <2>2, <2>3, <2>4, <2>5, PaidFields, WriteOwner
<1>4. ASSUME NEW job \in Job \ {"verified"}, NEW next \in {"executing", "delivered"},
             pc[p] \in {"paid", "executing"},
             Write(p, WithRec(p, [s EXCEPT !.job = job]), next, "caught")
      PROVE  MarketInv' /\ Kept
  <2> DEFINE r == [s EXCEPT !.job = job]
  <2>1. pc[p] \in Unanswered
    BY <1>4 DEF Unanswered, InPurchase, Holding, Label
  <2>2. /\ ~s.answered /\ Story(s) /\ s.req \in Request
        /\ StageInv(pc[p], s, k, s.req.replayKey)
    BY <1>0, <2>1, OnItsWay
  <2>3. /\ r \in Purchase /\ r.req = s.req /\ r.terms = s.terms /\ r.pay = s.pay
        /\ r.job = job /\ r.answered = s.answered /\ r.receipt = s.receipt
        /\ r.ent = s.ent /\ r.alloc = s.alloc /\ r.uses = s.uses
    BY DEF Purchase
  <2> HIDE DEF r
  <2>4. Story(r) /\ r.pay = "successful" /\ k \in asked
    BY <1>4, <2>2, <2>3, MarketplaceAssumption DEF Story, StageInv
  <2>5. StageInv(next, r, k, r.req.replayKey)
    BY <1>4, <2>1, <2>2, <2>3 DEF StageInv, Unanswered, InPurchase, Holding, Label
  <2>6. Write(p, WithRec(p, r), next, "caught")
    BY <1>4 DEF r
  <2> QED BY <1>0, <1>1, <1>4, <2>1, <2>2, <2>3, <2>4, <2>5, <2>6, WriteOwner
<1>5. CASE StartExecution(p)
  BY <1>0, <1>1, <1>4, <1>5 DEF StartExecution
<1>6. CASE ExecuteSucceeds(p)
  BY <1>0, <1>1, <1>4, <1>6 DEF ExecuteSucceeds
<1> QED BY <1>2, <1>3, <1>5, <1>6

(* The two writes that answer: completion and the catch block.             *)
LEMMA AnswerWrite ==
  ASSUME SafeInv, NEW p \in Proc, pc[p] \in Unanswered, NEW r \in Purchase,
         NEW next \in Holding \ Unanswered, next # "begin", next # "failed",
         Write(p, WithRec(p, r), next, "failed"),
         r.req = Rec(p).req, r.terms = Rec(p).terms, Story(r), r.answered,
         KeyOf(p) \in asked => r.pay \in {"settlement_pending", "successful"},
         r.pay = "successful" => KeyOf(p) \in asked,
         next = "project" => r.pay = "successful"
  PROVE  MarketInv' /\ Kept
<1>0. PICK k \in Key : k = KeyOf(p)
  BY OnItsWay
<1>1. /\ next \in Holding /\ "failed" \in Holding /\ next # "caught"
      /\ "failed" \notin InPurchase /\ "failed" # "caught"
      /\ "project" \notin Unanswered
      /\ next \in InPurchase => next = "project"
      /\ "project" # "answered" /\ "failed" # "answered"
  BY DEF InPurchase, Holding, Label, Unanswered
<1>2. /\ FileInv' /\ Kept
      /\ \A q \in Proc \ {p} : OwnerInv(q)'
      /\ pc'[p] \in {next, "failed"} /\ KeyOf(p)' = k /\ call'[p].op = "purchase"
      /\ Rec(p)' = r /\ Untold(k)'
      /\ UNCHANGED <<core, settles, asked, served, replies>>
      /\ pc'[p] # "failed" => mem'[p] = disk'
  <2>1. /\ pc'[p] \in {next, "failed"} /\ KeyOf(p)' = KeyOf(p)
    BY <1>1, PurchaseWrite
  <2>2. FileInv' /\ Kept
    BY <1>1, PurchaseWrite
  <2>3. \A q \in Proc \ {p} : OwnerInv(q)'
    BY <1>1, PurchaseWrite
  <2>4. call'[p].op = "purchase" /\ Rec(p)' = r /\ Untold(KeyOf(p))'
    BY <1>1, PurchaseWrite
  <2>5. UNCHANGED <<core, settles, asked, served, replies>>
    BY <1>1, PurchaseWrite
  <2>6. pc'[p] # "failed" => mem'[p] = disk'
    BY DEF Write, Goto, SafeInv, TypeInv, TypeOK
  <2> QED BY <1>0, <2>1, <2>2, <2>3, <2>4, <2>5, <2>6 DEF Untold
<1>3. call'[p].req = call[p].req /\ Rec(p).req = call[p].req
  BY OnItsWay DEF Write
<1>4. CASE pc'[p] = "failed"
  <2>1. OwnerInv(p)'
    BY <1>1, <1>4 DEF OwnerInv, Current
  <2> QED BY <1>2, <2>1 DEF MarketInv
<1>5. CASE pc'[p] # "failed"
  <2>1. pc'[p] = next /\ mem'[p] = disk'
    BY <1>2, <1>5
  <2>2. Current(p)'
    BY <1>1, <2>1 DEF Current
  <2>3. next = "project" => StageInv("project", r, k, r.req.replayKey)'
    BY <1>0, <1>1, <1>2 DEF StageInv
  <2>4. OwnerInv(p)'
    BY <1>1, <1>2, <1>3, <2>1, <2>2, <2>3 DEF OwnerInv
  <2> QED BY <1>2, <2>4 DEF MarketInv
<1> QED BY <1>4, <1>5

LEMMA AnswerMarket ==
  ASSUME SafeInv, NEW p \in Proc, Complete(p) \/ Caught(p)
  PROVE  MarketInv' /\ Kept
<1>1. pc[p] \in Unanswered
  BY DEF Complete, Caught, Unanswered, InPurchase, Holding, Label
<1>2. PICK k \in Key, s \in Purchase : k = KeyOf(p) /\ s = Rec(p)
  BY <1>1, OnItsWay
<1>3. /\ ~s.answered /\ Story(s) /\ s.req \in Request
      /\ StageInv(pc[p], s, k, s.req.replayKey)
      /\ s.req = call[p].req
  BY <1>1, <1>2, OnItsWay
<1>4. {"answered", "project"} \subseteq Holding \ Unanswered
  BY DEF Unanswered, InPurchase, Holding, Label
<1>5. CASE Complete(p)
  <2> DEFINE asset == mem[p].catalog.asset
  <2>1. asset \in BOOLEAN
    <3>1. mem[p] \in File
      BY DEF SafeInv, TypeInv, TypeOK
    <3> QED BY <3>1 DEF File, Catalog
  <2>2. pc[p] = "delivered" /\ Write(p, WithRec(p, Verified(s, asset)), "project", "failed")
    BY <1>2, <1>5 DEF Complete
  <2> HIDE DEF asset
  <2>3. s.pay = "successful" /\ k \in asked
    BY <1>3, <2>2 DEF StageInv
  <2>4. Verified(s, asset) \in Purchase
    BY <2>1, RecordTypes
  <2>5. Story(Verified(s, asset))
    BY <1>3, <2>1, <2>3, VerifiedFields, MarketplaceAssumption DEF Story
  <2> QED BY <1>1, <1>2, <1>4, <2>1, <2>2, <2>3, <2>4, <2>5, VerifiedFields, AnswerWrite
<1>6. CASE Caught(p)
  <2> DEFINE next == IF s.receipt = "none" THEN "answered" ELSE "project"
  <2>1. pc[p] = "caught" /\ Write(p, WithRec(p, Failed(s)), next, "failed")
    BY <1>2, <1>6 DEF Caught
  <2>2. /\ s.pay = "successful" => k \in asked
        /\ k \in asked => s.pay \in {"settlement_pending", "successful"}
    BY <1>3, <2>1 DEF StageInv
  <2>3. Failed(s) \in Purchase
    BY RecordTypes
  <2>4. next = "project" => s.pay = "successful"
    BY <1>3 DEF Story
  <2>5. Story(Failed(s))
    BY <1>3, FailedFields, MarketplaceAssumption DEF Story
  <2>6. next \in Holding \ Unanswered /\ next # "begin" /\ next # "failed"
    BY <1>4
  <2> HIDE DEF next
  <2> QED BY <1>1, <1>2, <2>1, <2>2, <2>3, <2>4, <2>5, <2>6, FailedFields, AnswerWrite
<1> QED BY <1>5, <1>6

(* Steps that write nothing.                                               *)
LEMMA AdvanceMarket ==
  ASSUME SafeInv, NEW p \in Proc, pc[p] \in Holding, NEW label \in Holding,
         Advance(p, label), label \in {"failed", "caught", "answered"},
         label = "caught" => pc[p] \in Unanswered \ {"caught"},
         label = "answered" => /\ pc[p] = "begin" /\ call[p].op = "purchase"
                               /\ Rec(p).req = call[p].req /\ Rec(p).answered
  PROVE  MarketInv' /\ Kept
<1>1. /\ pc' = [pc EXCEPT ![p] = label]
      /\ UNCHANGED <<lock, disk, core, mem, call, faults, settles, asked, served, replies>>
  BY DEF Advance, Goto, worldVars
<1>2. FileInv' /\ Kept
  BY <1>1, FileUntouched
<1>3. ASSUME NEW q \in Proc \ {p} PROVE OwnerInv(q)'
  <2>1. pc[q] \notin Holding
    BY Alone DEF SafeInv
  <2>2. pc'[q] \notin Holding
    BY <1>1, <2>1
  <2> QED BY <2>2, NotWorking
<1>4. OwnerInv(p)'
  <2>1. pc'[p] = label
    BY <1>1 DEF SafeInv, TypeInv, TypeOK
  <2>2. "failed" \notin InPurchase /\ "answered" \notin InPurchase /\ "answered" \in Holding
    BY DEF InPurchase, Holding, Label
  <2>3. CASE label = "failed"
    BY <2>1, <2>2, <2>3 DEF OwnerInv, Current
  <2>4. CASE label = "answered"
    <3>1. mem[p] = disk
      BY <2>4 DEF SafeInv, MarketInv, OwnerInv, Current
    <3> QED BY <1>1, <2>1, <2>2, <2>4, <3>1 DEF OwnerInv, Current, Rec, KeyOf
  <2>5. CASE label = "caught"
    <3>0. pc[p] \in Unanswered /\ pc[p] # "caught"
      BY <2>5
    <3>1. PICK k \in Key, s \in Purchase : k = KeyOf(p) /\ s = Rec(p)
      BY <3>0, OnItsWay
    <3>2. /\ Untold(k) /\ StageInv(pc[p], s, k, s.req.replayKey) /\ Story(s)
          /\ ~s.answered /\ ~disk.rec[k].answered
          /\ mem[p] = [disk EXCEPT !.rec[k] = s]
          /\ disk.rec[k].req = s.req /\ disk.rec[k].terms = s.terms
      <4>1. mem[p] = disk
        BY <3>0 DEF SafeInv, MarketInv, OwnerInv, Current, Unanswered, InPurchase
      <4>2. disk = [disk EXCEPT !.rec[k] = s]
        BY <3>0, <3>1, <4>1, OnItsWay DEF Rec, File
      <4> QED BY <3>0, <3>1, <4>1, <4>2, OnItsWay
    <3>3. KeyOf(p)' = k /\ Rec(p)' = s /\ Untold(k)'
      BY <1>1, <3>1, <3>2 DEF KeyOf, Rec, Untold
    <3>4. Current(p)'
      BY <1>1, <2>1, <2>5, <3>2, <3>3 DEF Current
    <3>5. StageInv("caught", s, k, s.req.replayKey)
      BY <3>0, <3>2 DEF StageInv, Unanswered, InPurchase, Holding, Label
    <3>6. StageInv("caught", s, k, s.req.replayKey)'
      BY <1>1, <3>5 DEF StageInv
    <3> QED BY <2>1, <2>5, <3>3, <3>4, <3>6 DEF OwnerInv
  <2> QED BY <2>3, <2>4, <2>5
<1> QED BY <1>2, <1>3, <1>4 DEF MarketInv

LEMMA NothingWrittenMarket ==
  ASSUME SafeInv, NEW p \in Proc,
         \/ Conflict(p) \/ Duplicate(p) \/ Refuse(p) \/ VerifyFails(p)
         \/ SettleFails(p) \/ ExecuteFails(p) \/ RefuseDownload(p)
         \/ pc[p] = "project" /\ Advance(p, "failed")
  PROVE  MarketInv' /\ Kept
<1>1. /\ {"begin", "project", "failed", "caught", "answered"} \subseteq Holding
      /\ {"verifying", "settling", "executing"} \subseteq (Unanswered \ {"caught"}) \cap Holding
  BY DEF Unanswered, InPurchase, Holding, Label
<1> QED
  BY <1>1, AdvanceMarket
  DEF Conflict, Duplicate, Refuse, VerifyFails, SettleFails, ExecuteFails,
      RefuseDownload, Downloading, Purchasing

(* A record found at "begin" is changed and answered.                      *)
LEMMA BeginWrite ==
  ASSUME SafeInv, NEW p \in Proc, pc[p] = "begin", NEW r \in Purchase,
         Write(p, WithRec(p, r), "answered", "failed"),
         KeyFacts(r, KeyOf(p)), r.req = Rec(p).req, r.terms = Rec(p).terms,
         Rec(p).answered => Same(Rec(p), r), ~(r.uses > Rec(p).uses),
         Rec(p).alloc = "settled" => r.alloc = "settled",
         call[p].op = "purchase" =>
           r.req = call[p].req /\ (r.answered \/ r.job = "disputed"),
         call[p].op = "download" =>
           /\ r.pay = "successful"
           /\ served[KeyOf(p)] + 1 + r.uses <= IF r.job = "verified" THEN 3 ELSE 1
  PROVE  MarketInv' /\ Kept
<1>0. pc[p] \in Holding /\ "answered" \notin InPurchase /\ "failed" \notin InPurchase
  BY DEF InPurchase, Holding, Label
<1>1. PICK k \in Key : k = KeyOf(p)
  BY <1>0, AtWork DEF SafeInv
<1>2. mem[p] = disk /\ disk \in File
  BY <1>0 DEF SafeInv, MarketInv, OwnerInv, Current, TypeInv, TypeOK
<1>3. Rec(p) = disk.rec[k] /\ WithRec(p, r) = [disk EXCEPT !.rec[k] = r]
  BY <1>1, <1>2 DEF Rec, WithRec
<1> DEFINE f == [disk EXCEPT !.rec[k] = r]
<1>4. f.rec[k] = r
  BY <1>2, WithRecord
<1>5. /\ mem' = [mem EXCEPT ![p] = f]
      /\ \/ disk' = f /\ pc' = [pc EXCEPT ![p] = "answered"]
         \/ disk' \in {disk, f} /\ pc' = [pc EXCEPT ![p] = "failed"]
      /\ UNCHANGED <<core, call, settles, asked, served, replies>>
  BY <1>3 DEF Write, Goto, worldVars
<1>6. FileInv' /\ Kept
  BY <1>1, <1>3, <1>5, RecordStep
<1>7. ASSUME NEW q \in Proc \ {p} PROVE OwnerInv(q)'
  <2>1. pc[q] \notin Holding
    BY <1>0, Alone DEF SafeInv
  <2>2. pc'[q] \notin Holding
    BY <1>5, <2>1 DEF SafeInv, TypeInv, TypeOK
  <2> QED BY <2>2, NotWorking
<1>8. OwnerInv(p)'
  <2>1. mem'[p] = f /\ pc'[p] \in {"answered", "failed"}
          /\ (pc'[p] = "answered" => disk' = f)
    BY <1>5 DEF SafeInv, TypeInv, TypeOK
  <2>2. KeyOf(p)' = k /\ call'[p] = call[p] /\ served' = served
    BY <1>1, <1>5 DEF KeyOf
  <2>3. Rec(p)' = r
    BY <1>4, <2>1, <2>2 DEF Rec
  <2> HIDE DEF f
  <2>4. Current(p)'
    BY <2>1 DEF Current
  <2> QED BY <1>0, <1>1, <2>1, <2>2, <2>3, <2>4 DEF OwnerInv
<1> QED BY <1>6, <1>7, <1>8 DEF MarketInv

LEMMA AtBegin ==
  ASSUME SafeInv, NEW p \in Proc, pc[p] = "begin"
  PROVE  /\ KeyOf(p) \in Key /\ Rec(p) \in Purchase /\ disk \in File
         /\ mem[p] = disk /\ Rec(p) = disk.rec[KeyOf(p)]
         /\ KeyFacts(Rec(p), KeyOf(p))
         /\ call[p].op = "purchase" => call[p].req \in Request
<1>1. pc[p] \in Holding /\ pc[p] # "caught" /\ pc[p] # "failed"
  BY DEF Holding, Label
<1>2. mem[p] = disk /\ disk \in File /\ KeyOf(p) \in Key
  BY <1>1, AtWork DEF SafeInv, MarketInv, OwnerInv, Current, TypeInv, TypeOK
<1>3. Rec(p) = disk.rec[KeyOf(p)] /\ Rec(p) \in Purchase
  BY <1>1, <1>2, AtWork DEF Rec, SafeInv
<1> QED BY <1>1, <1>2, <1>3, AtWork DEF SafeInv, MarketInv, FileInv

LEMMA StrandedMarket ==
  ASSUME SafeInv, NEW p \in Proc, Stranded(p) PROVE MarketInv' /\ Kept
<1>1. pc[p] = "begin" /\ call[p].op = "purchase"
  BY DEF Stranded, Purchasing
<1>2. PICK k \in Key, s \in Purchase :
        /\ k = KeyOf(p) /\ s = Rec(p) /\ KeyFacts(s, k)
        /\ s.req = call[p].req /\ s.req \in Request /\ ~s.answered
  BY <1>1, AtBegin DEF Stranded
<1> DEFINE r == [s EXCEPT !.job = "disputed"]
<1>3. /\ r \in Purchase /\ r.req = s.req /\ r.terms = s.terms /\ r.pay = s.pay
      /\ r.job = "disputed" /\ r.answered = s.answered /\ r.receipt = s.receipt
      /\ r.ent = s.ent /\ r.alloc = s.alloc /\ r.uses = s.uses
  BY DEF Purchase, Job
<1>4. Write(p, WithRec(p, r), "answered", "failed")
  BY <1>2 DEF Stranded
<1> HIDE DEF r
<1>5. s.job # "verified" /\ s.uses \in 0 .. 3
  BY <1>2 DEF KeyFacts, Story, Purchase
<1>6. Story(r)
  BY <1>2, <1>3, <1>5, MarketplaceAssumption DEF KeyFacts, Story
<1>7. replies[k] \subseteq {<<r.req, <<r.job, r.pay>>>>}
  BY <1>2, <1>3 DEF KeyFacts
<1>8. KeyFacts(r, k)
  BY <1>2, <1>3, <1>5, <1>6, <1>7 DEF KeyFacts
<1> QED BY <1>1, <1>2, <1>3, <1>4, <1>5, <1>8, BeginWrite

LEMMA DownloadMarket ==
  ASSUME SafeInv, NEW p \in Proc, Download(p) PROVE MarketInv' /\ Kept
<1>1. pc[p] = "begin" /\ call[p].op = "download"
  BY DEF Download, Downloading
<1>2. PICK k \in Key, s \in Purchase :
        /\ k = KeyOf(p) /\ s = Rec(p) /\ KeyFacts(s, k)
        /\ s.ent = "active" /\ s.uses > 0
  BY <1>1, AtBegin DEF Download
<1> DEFINE u == s.uses - 1
           r == [s EXCEPT !.uses = u]
<1>3. Write(p, WithRec(p, r), "answered", "failed")
  BY <1>2 DEF Download
<1>4. s.uses \in 0 .. 3 /\ u \in 0 .. 3 /\ s.uses = u + 1 /\ served[k] \in Nat
  BY <1>2 DEF Purchase, SafeInv, TypeInv, TypeOK
<1> HIDE DEF u
<1>5. /\ r \in Purchase /\ r.req = s.req /\ r.terms = s.terms /\ r.pay = s.pay
      /\ r.job = s.job /\ r.answered = s.answered /\ r.receipt = s.receipt
      /\ r.ent = s.ent /\ r.alloc = s.alloc /\ r.uses = u
  BY <1>4 DEF Purchase
<1>6. Same(s, r)
  <2>1. [s EXCEPT !.uses = u, !.alloc = s.alloc] = r
    BY DEF Purchase
  <2> HIDE DEF r
  <2> QED BY <1>5, <2>1 DEF Same
<1> HIDE DEF r
<1>7. s.pay = "successful" /\ s.req # NoRequest
  BY <1>2 DEF KeyFacts, Story, EmptyPurchase
<1>8. Story(r)
  BY <1>2, <1>4, <1>5, <1>7 DEF KeyFacts, Story
<1>9. KeyFacts(r, k)
  BY <1>2, <1>4, <1>5, <1>8 DEF KeyFacts
<1>10. served[k] + 1 + r.uses <= IF r.job = "verified" THEN 3 ELSE 1
  BY <1>2, <1>4, <1>5 DEF KeyFacts
<1>11. ~(r.uses > s.uses)
  BY <1>4, <1>5
<1> QED BY <1>1, <1>2, <1>3, <1>5, <1>6, <1>7, <1>9, <1>10, <1>11, BeginWrite

(* The journal write: a new record and a used approval.                    *)
LEMMA JournalMarket ==
  ASSUME SafeInv, NEW p \in Proc, Journal(p) PROVE MarketInv' /\ Kept
<1>1. PICK k \in Key, req \in Request :
        /\ k = KeyOf(p) /\ req = call[p].req /\ mem[p] = disk /\ disk \in File
        /\ pc[p] = "begin" /\ call[p].op = "purchase"
        /\ disk.rec[k].req = NoRequest /\ KeyFacts(disk.rec[k], k)
        /\ Approved(disk, k, req) /\ req.replayKey \notin core.replay
        /\ Write(p, Journalled(disk, k, req), "reserve", "failed")
  BY AtBegin DEF Journal, Purchasing, Known
<1>2. PICK f \in File : f = Journalled(disk, k, req)
  BY <1>1, JournalledFacts
<1>3. PICK r \in Purchase : r = f.rec[k]
  BY <1>2 DEF File
<1>4. /\ r.req = req /\ r.terms = disk.catalog.terms
      /\ r.job = "awaiting_payment" /\ r.pay = "unverified" /\ ~r.answered
      /\ r.receipt = "none" /\ r.ent = "none" /\ r.alloc = "none" /\ r.uses = 0
      /\ \A j \in Key \ {k} : f.rec[j] = disk.rec[j]
      /\ f.catalog = disk.catalog
      /\ f.approvals[req.approval] =
           [key |-> k, input |-> req.input, terms |-> disk.catalog.terms, used |-> TRUE]
      /\ \A a \in Approval \ {req.approval} : f.approvals[a] = disk.approvals[a]
  BY <1>1, <1>2, <1>3, JournalledFacts
<1>5. /\ mem' = [mem EXCEPT ![p] = f]
      /\ \/ disk' = f /\ pc' = [pc EXCEPT ![p] = "reserve"]
         \/ disk' \in {disk, f} /\ pc' = [pc EXCEPT ![p] = "failed"]
      /\ UNCHANGED <<lock, core, call, settles, asked, served, replies>>
  BY <1>1, <1>2 DEF Write, Goto, worldVars
<1>6. Untold(k) /\ k \notin asked /\ disk.rec[k] = EmptyPurchase
  <2>1. disk.rec[k] = EmptyPurchase
    BY <1>1 DEF KeyFacts, Story
  <2>2. served[k] \in Nat
    BY DEF SafeInv, TypeInv, TypeOK
  <2>3. k \notin asked /\ served[k] = 0 /\ core.projected[k] = "none" /\ replies[k] = {}
    BY <1>1, <2>1, <2>2 DEF KeyFacts, EmptyPurchase
  <2> QED BY <2>1, <2>3 DEF Untold
<1>7. KeyFacts(r, k)
  <2>1. Story(r)
    BY <1>4, MarketplaceAssumption DEF Story
  <2> QED BY <1>4, <1>6, <2>1 DEF KeyFacts, Untold
<1>8. ASSUME disk' = f PROVE FileInv' /\ Kept
  <2>1. ReplayInv'
    BY <1>5 DEF SafeInv, MarketInv, FileInv, ReplayInv
  <2>2. SoldAsApproved'
    <3> SUFFICES ASSUME NEW j \in Key, f.rec[j].req # NoRequest
                 PROVE  f.approvals[f.rec[j].req.approval] =
                          [key |-> j, input |-> f.rec[j].req.input,
                           terms |-> f.rec[j].terms, used |-> TRUE]
      BY <1>8 DEF SoldAsApproved
    <3>1. CASE j = k
      BY <1>3, <1>4, <3>1
    <3>2. CASE j # k
      <4>1. f.rec[j] = disk.rec[j]
        BY <1>4, <3>2
      <4>2. disk.approvals[disk.rec[j].req.approval] =
              [key |-> j, input |-> disk.rec[j].req.input,
               terms |-> disk.rec[j].terms, used |-> TRUE]
        BY <4>1 DEF SafeInv, MarketInv, FileInv, SoldAsApproved
      <4>3. disk.rec[j].req.approval # req.approval
        BY <1>1, <3>2, <4>2 DEF Approved
      <4>4. disk.rec[j].req.approval \in Approval
        BY <1>1, <4>1 DEF File, Purchase, Request
      <4> QED BY <1>4, <4>1, <4>2, <4>3, <4>4
    <3> QED BY <3>1, <3>2
  <2>3. ASSUME NEW j \in Key PROVE KeyFacts(disk.rec[j], j)'
    <3>1. KeyFacts(f.rec[j], j)
      BY <1>3, <1>4, <1>7 DEF SafeInv, MarketInv, FileInv
    <3> QED BY <1>5, <1>8, <3>1 DEF KeyFacts
  <2>4. ASSUME NEW a \in Approval, disk.approvals[a] # NoApproval
        PROVE  f.approvals[a] \in {disk.approvals[a], [disk.approvals[a] EXCEPT !.used = TRUE]}
    <3>1. CASE a # req.approval
      BY <1>4, <3>1
    <3>2. CASE a = req.approval
      <4> DEFINE old == disk.approvals[a]  new == f.approvals[a]
      <4>1. old \in ApprovalRecord /\ new \in ApprovalRecord
        <5>1. disk.catalog.terms \in Terms /\ req.input \in Input
          BY <1>1 DEF File, Catalog, Request
        <5>2. [key |-> k, input |-> req.input, terms |-> disk.catalog.terms, used |-> TRUE]
                \in ApprovalRecord
          BY <5>1 DEF ApprovalRecord
        <5> QED BY <1>1, <1>4, <2>4, <3>2, <5>2 DEF File
      <4>2. /\ old.key = k /\ old.input = req.input /\ old.terms = disk.catalog.terms
            /\ new.key = k /\ new.input = req.input /\ new.terms = disk.catalog.terms
            /\ new.used
        BY <1>1, <1>4, <3>2 DEF Approved
      <4> HIDE DEF old, new
      <4>3. new = [old EXCEPT !.used = TRUE]
        BY <4>1, <4>2 DEF ApprovalRecord
      <4> QED BY <4>3 DEF old, new
    <3> QED BY <3>1, <3>2
  <2>5. ASSUME NEW j \in Key
        PROVE  /\ disk.rec[j].req # NoRequest => f.rec[j].req = disk.rec[j].req
               /\ disk.rec[j].answered => Same(disk.rec[j], f.rec[j])
               /\ f.rec[j].uses > disk.rec[j].uses => ~disk.rec[j].answered
               /\ disk.rec[j].alloc = "settled" => f.rec[j].alloc = "settled"
    <3>1. CASE j = k
      BY <1>3, <1>4, <1>6, <3>1 DEF EmptyPurchase
    <3>2. CASE j # k
      <4>1. disk.rec[j] \in Purchase
        BY <1>1 DEF File
      <4> QED BY <1>4, <3>2, <4>1, SameRecord
    <3> QED BY <3>1, <3>2
  <2>6. disk.catalog.terms <= disk.catalog.terms
    BY <1>1, MarketplaceAssumption DEF File, Catalog, Terms
  <2>7. Kept
    BY <1>4, <1>5, <1>8, <2>4, <2>5, <2>6 DEF Kept
  <2> QED BY <2>1, <2>2, <2>3, <2>7 DEF FileInv
<1>9. FileInv' /\ Kept
  BY <1>5, <1>8, FileUntouched
<1>10. ASSUME NEW q \in Proc \ {p} PROVE OwnerInv(q)'
  <2>1. pc[p] \in Holding
    BY <1>1 DEF Holding, Label
  <2>2. pc[q] \notin Holding
    BY <2>1, Alone DEF SafeInv
  <2>3. pc'[q] \notin Holding
    BY <1>5, <2>2 DEF SafeInv, TypeInv, TypeOK
  <2> QED BY <2>3, NotWorking
<1>11. OwnerInv(p)'
  <2>1. mem'[p] = f /\ pc'[p] \in {"reserve", "failed"}
          /\ (pc'[p] = "reserve" => disk' = f)
    BY <1>5 DEF SafeInv, TypeInv, TypeOK
  <2>2. KeyOf(p)' = k
    BY <1>1, <1>5 DEF KeyOf
  <2>3. Rec(p)' = r /\ Untold(k)'
    BY <1>3, <1>5, <1>6, <2>1, <2>2 DEF Rec, Untold
  <2>4. Current(p)'
    BY <2>1 DEF Current
  <2>5. pc'[p] = "reserve" => StageInv("reserve", r, k, r.req.replayKey)'
    BY <1>1, <1>3, <1>4, <1>5, <1>6, <2>1
    DEF StageInv
  <2>6. "failed" \notin InPurchase
    BY DEF InPurchase
  <2> QED BY <2>1, <2>2, <2>3, <2>4, <2>5, <2>6 DEF OwnerInv
<1> QED BY <1>9, <1>10, <1>11 DEF MarketInv

(* Steps that change the core file or the world, but not the file.         *)
LEMMA KeptStill ==
  ASSUME TypeInv, disk' = disk, core.replay \subseteq core'.replay PROVE Kept
<1>1. disk \in File
  BY DEF TypeInv, TypeOK
<1>2. disk.catalog.terms <= disk.catalog.terms
  BY <1>1, MarketplaceAssumption DEF File, Catalog, Terms
<1>3. ASSUME NEW k \in Key
      PROVE  Same(disk.rec[k], disk.rec[k]) /\ ~(disk.rec[k].uses > disk.rec[k].uses)
  BY <1>1, SameRecord DEF File
<1> QED BY <1>2, <1>3 DEF Kept

LEMMA OthersRest ==
  ASSUME SafeInv, NEW p \in Proc, pc[p] \in Holding,
         \A q \in Proc \ {p} : pc'[q] = pc[q]
  PROVE  \A q \in Proc \ {p} : OwnerInv(q)'
<1> SUFFICES ASSUME NEW q \in Proc \ {p} PROVE OwnerInv(q)'
  OBVIOUS
<1>1. pc[q] \notin Holding
  BY Alone DEF SafeInv
<1>2. pc'[q] \notin Holding
  BY <1>1
<1> QED BY <1>2, NotWorking

LEMMA ReserveMarket ==
  ASSUME SafeInv, NEW p \in Proc, Reserve(p) PROVE MarketInv' /\ Kept
<1>1. pc[p] = "reserve" /\ pc[p] \in Unanswered
  BY DEF Reserve, Unanswered, InPurchase, Holding, Label
<1>2. PICK k \in Key, s \in Purchase, n \in ReplayKey :
        /\ k = KeyOf(p) /\ s = Rec(p) /\ n = s.req.replayKey
        /\ Untold(k) /\ StageInv("reserve", s, k, n)
        /\ ~s.answered /\ ~disk.rec[k].answered
  BY <1>1, OnItsWay
<1>3. mem[p] = disk /\ core \in CoreFile
  BY <1>1 DEF SafeInv, MarketInv, OwnerInv, Current, Holding, Label, TypeInv, TypeOK
<1> DEFINE f == [core EXCEPT !.replay = @ \cup {n}]
<1>4. /\ \/ core' = f /\ pc' = [pc EXCEPT ![p] = "verifying"]
         \/ core' \in {core, f} /\ pc' = [pc EXCEPT ![p] = "failed"]
      /\ UNCHANGED <<disk, mem, call, settles, asked, served, replies>>
  BY <1>2 DEF Reserve, WriteCore, Goto, worldVars
<1>5. f.replay = core.replay \cup {n} /\ f.projected = core.projected
  BY <1>3 DEF CoreFile
<1> HIDE DEF f
<1>6. core.replay \subseteq core'.replay /\ core'.projected = core.projected
  BY <1>4, <1>5
<1>7. FileInv'
  BY <1>4, <1>6 DEF SafeInv, MarketInv, FileInv, ReplayInv, SoldAsApproved, KeyFacts
<1>8. Kept
  BY <1>4, <1>6, KeptStill DEF SafeInv
<1>9. /\ \A q \in Proc \ {p} : pc'[q] = pc[q]
      /\ (pc'[p] = "verifying" /\ core' = f) \/ pc'[p] = "failed"
  BY <1>4 DEF SafeInv, TypeInv, TypeOK
<1>10. \A q \in Proc \ {p} : OwnerInv(q)'
  BY <1>1, <1>9, OthersRest DEF Unanswered, InPurchase
<1>11. OwnerInv(p)'
  <2>1. settles[n] = 0
    <3>1. n \notin core.replay
      BY <1>2 DEF StageInv
    <3>2. settles[n] \in Nat /\ ~(settles[n] > 0)
      BY <3>1 DEF SafeInv, MarketInv, FileInv, ReplayInv, TypeInv, TypeOK
    <3> QED BY <3>2
  <2>2. KeyOf(p)' = k /\ Rec(p)' = s /\ Untold(k)' /\ mem'[p] = disk'
    BY <1>2, <1>3, <1>4, <1>6 DEF KeyOf, Rec, Untold
  <2>3. Current(p)'
    BY <1>9, <2>2 DEF Current
  <2>4. core' = f => StageInv("verifying", s, k, n)'
    BY <1>2, <1>4, <1>5, <2>1 DEF StageInv
  <2>5. "failed" \notin InPurchase
    BY DEF InPurchase
  <2> QED BY <1>2, <1>9, <2>2, <2>3, <2>4, <2>5 DEF OwnerInv
<1> QED BY <1>7, <1>8, <1>10, <1>11 DEF MarketInv

LEMMA CallSettleMarket ==
  ASSUME SafeInv, NEW p \in Proc, CallSettle(p) PROVE MarketInv' /\ Kept
<1>1. pc[p] = "settle" /\ pc[p] \in Unanswered
  BY DEF CallSettle, Unanswered, InPurchase, Holding, Label
<1>2. PICK k \in Key, s \in Purchase, n \in ReplayKey :
        /\ k = KeyOf(p) /\ s = Rec(p) /\ n = s.req.replayKey
        /\ Untold(k) /\ StageInv("settle", s, k, n)
        /\ ~s.answered /\ ~disk.rec[k].answered
  BY <1>1, OnItsWay
<1>3. mem[p] = disk /\ disk.rec[k] = s
  BY <1>1, <1>2 DEF SafeInv, MarketInv, OwnerInv, Current, Holding, Label, Rec
<1>4. /\ settles' = [settles EXCEPT ![n] = @ + 1]
      /\ asked' = asked \cup {k}
      /\ pc' = [pc EXCEPT ![p] = "settling"]
      /\ UNCHANGED <<disk, core, mem, call, served, replies>>
  BY <1>2 DEF CallSettle, Goto
<1>5. settles[n] = 0 /\ n \in core.replay /\ s.pay = "settlement_pending"
  BY <1>2 DEF StageInv
<1>6. ReplayInv'
  <2>1. settles'[n] = 1 /\ \A m \in ReplayKey \ {n} : settles'[m] = settles[m]
    BY <1>4, <1>5 DEF SafeInv, TypeInv, TypeOK
  <2> QED BY <1>4, <1>5, <2>1 DEF ReplayInv, SafeInv, MarketInv, FileInv
<1>7. ASSUME NEW j \in Key PROVE KeyFacts(disk.rec[j], j)'
  <2>1. KeyFacts(disk.rec[j], j)
    BY DEF SafeInv, MarketInv, FileInv
  <2> QED BY <1>2, <1>3, <1>4, <1>5, <2>1 DEF KeyFacts
<1>8. FileInv' /\ Kept
  <2>1. SoldAsApproved'
    BY <1>4 DEF SafeInv, MarketInv, FileInv, SoldAsApproved
  <2> QED BY <1>4, <1>6, <1>7, <2>1, KeptStill DEF FileInv, SafeInv
<1>9. pc'[p] = "settling" /\ \A q \in Proc \ {p} : pc'[q] = pc[q]
  BY <1>4 DEF SafeInv, TypeInv, TypeOK
<1>10. \A q \in Proc \ {p} : OwnerInv(q)'
  BY <1>1, <1>9, OthersRest DEF Unanswered, InPurchase
<1>11. OwnerInv(p)'
  <2>1. KeyOf(p)' = k /\ Rec(p)' = s /\ Untold(k)' /\ mem'[p] = disk'
    BY <1>2, <1>3, <1>4 DEF KeyOf, Rec, Untold
  <2>2. Current(p)'
    BY <1>9, <2>1 DEF Current
  <2>3. StageInv("settling", s, k, n)'
    BY <1>2, <1>4, <1>5 DEF StageInv
  <2> QED BY <1>2, <1>9, <2>1, <2>2, <2>3 DEF OwnerInv
<1> QED BY <1>8, <1>10, <1>11 DEF MarketInv

LEMMA ProjectMarket ==
  ASSUME SafeInv, NEW p \in Proc, Project(p) PROVE MarketInv' /\ Kept
<1>1. pc[p] = "project" /\ pc[p] \in InPurchase /\ pc[p] \in Holding
  BY DEF Project, InPurchase, Holding, Label
<1>2. PICK k \in Key, s \in Purchase :
        /\ k = KeyOf(p) /\ s = Rec(p) /\ call[p].op = "purchase" /\ s.req = call[p].req
        /\ StageInv("project", s, k, s.req.replayKey)
        /\ mem[p] = disk /\ disk.rec[k] = s /\ core \in CoreFile
  <2>1. KeyOf(p) \in Key /\ Rec(p) \in Purchase
    BY <1>1, AtWork DEF SafeInv
  <2>2. mem[p] = disk /\ StageInv("project", Rec(p), KeyOf(p), Rec(p).req.replayKey)
    BY <1>1 DEF SafeInv, MarketInv, OwnerInv, Current
  <2>3. call[p].op = "purchase" /\ Rec(p).req = call[p].req /\ core \in CoreFile
    BY <1>1 DEF SafeInv, TypeInv, TypeOK
  <2> QED BY <2>1, <2>2, <2>3 DEF Rec
<1>3. CASE Advance(p, "failed")
  BY <1>1, <1>3, NothingWrittenMarket
<1> DEFINE f == [core EXCEPT !.projected[k] = s.job]
<1>4. CASE WriteCore(p, [core EXCEPT !.projected[KeyOf(p)] = Rec(p).job], "answered", "failed")
  <2>1. /\ \/ core' = f /\ pc' = [pc EXCEPT ![p] = "answered"]
           \/ core' \in {core, f} /\ pc' = [pc EXCEPT ![p] = "failed"]
        /\ UNCHANGED <<disk, mem, call, settles, asked, served, replies>>
    BY <1>2, <1>4 DEF WriteCore, Goto, worldVars
  <2>2. /\ f.replay = core.replay /\ f.projected[k] = s.job
        /\ \A j \in Key \ {k} : f.projected[j] = core.projected[j]
    BY <1>2 DEF CoreFile
  <2> HIDE DEF f
  <2>3. /\ core'.replay = core.replay
        /\ core'.projected[k] \in {core.projected[k], s.job}
        /\ \A j \in Key \ {k} : core'.projected[j] = core.projected[j]
    BY <2>1, <2>2
  <2>4. s.answered /\ s.pay = "successful"
    BY <1>2 DEF StageInv
  <2>5. ASSUME NEW j \in Key PROVE KeyFacts(disk.rec[j], j)'
    <3>1. KeyFacts(disk.rec[j], j)
      BY DEF SafeInv, MarketInv, FileInv
    <3>2. core'.projected[j] # "none" =>
            disk.rec[j].answered /\ core'.projected[j] = disk.rec[j].job
              /\ disk.rec[j].pay = "successful"
      BY <1>2, <2>3, <2>4, <3>1 DEF KeyFacts
    <3> QED BY <2>1, <2>3, <3>1, <3>2 DEF KeyFacts
  <2>6. FileInv' /\ Kept
    <3>1. SoldAsApproved' /\ ReplayInv'
      BY <2>1, <2>3 DEF SafeInv, MarketInv, FileInv, SoldAsApproved, ReplayInv
    <3> QED BY <2>1, <2>3, <2>5, <3>1, KeptStill DEF FileInv, SafeInv
  <2>7. pc'[p] \in {"answered", "failed"} /\ \A q \in Proc \ {p} : pc'[q] = pc[q]
    BY <2>1 DEF SafeInv, TypeInv, TypeOK
  <2>8. \A q \in Proc \ {p} : OwnerInv(q)'
    BY <1>1, <2>7, OthersRest
  <2>9. OwnerInv(p)'
    <3>1. Rec(p)' = s /\ mem'[p] = disk' /\ call'[p] = call[p]
      BY <1>2, <2>1 DEF KeyOf, Rec
    <3>2. Current(p)'
      BY <2>7, <3>1 DEF Current
    <3>3. "failed" \notin InPurchase /\ "answered" \notin InPurchase
      BY DEF InPurchase
    <3> QED BY <1>2, <2>4, <2>7, <3>1, <3>2, <3>3 DEF OwnerInv
  <2> QED BY <2>6, <2>8, <2>9 DEF MarketInv
<1> QED BY <1>1, <1>3, <1>4 DEF Project

LEMMA StillOwner ==
  ASSUME NEW q \in Proc, OwnerInv(q), pc'[q] = pc[q], mem'[q] = mem[q], call'[q] = call[q],
         UNCHANGED <<disk, core, settles, asked, served, replies>>
  PROVE  OwnerInv(q)'
  BY DEF OwnerInv, Current, Untold, StageInv, Rec, KeyOf

(* Calls begin, wait and end.                                              *)
LEMMA EnvelopeMarket ==
  ASSUME SafeInv, NEW p \in Proc,
         \/ \E c \in Call : StartCall(p, c)
         \/ AcquireCore(p) \/ AcquireMarket(p) \/ WaitFails(p) \/ Crash(p)
  PROVE  MarketInv' /\ Kept
<1>1. UNCHANGED <<disk, core, settles, asked, served, replies>>
  BY DEF StartCall, AcquireCore, AcquireMarket, WaitFails, Crash, worldVars
<1>2. FileInv' /\ Kept
  BY <1>1, FileUntouched
<1>3. ASSUME NEW q \in Proc \ {p} PROVE OwnerInv(q)'
  <2>1. pc'[q] = pc[q] /\ mem'[q] = mem[q] /\ call'[q] = call[q]
    BY DEF StartCall, AcquireCore, AcquireMarket, WaitFails, Crash, End, Goto,
           SafeInv, TypeInv, TypeOK
  <2> QED BY <1>1, <2>1, StillOwner DEF SafeInv, MarketInv
<1>4. CASE AcquireMarket(p)
  <2>1. pc'[p] = "begin" /\ mem'[p] = disk'
    BY <1>4 DEF AcquireMarket, Goto, SafeInv, TypeInv, TypeOK
  <2>2. OwnerInv(p)'
    BY <2>1 DEF OwnerInv, Current, InPurchase
  <2> QED BY <1>2, <1>3, <2>2 DEF MarketInv
<1>5. CASE ~AcquireMarket(p)
  <2>1. pc'[p] \in {"idle", "waitCore", "waitMarket"}
    BY <1>5 DEF StartCall, AcquireCore, WaitFails, Crash, End, Goto,
                SafeInv, TypeInv, TypeOK
  <2>2. OwnerInv(p)'
    BY <2>1, NotWorking DEF Holding
  <2> QED BY <1>2, <1>3, <2>2 DEF MarketInv
<1> QED BY <1>4, <1>5

LEMMA ReturnMarket ==
  ASSUME SafeInv, NEW p \in Proc, Return(p) PROVE MarketInv' /\ Kept
<1>1. pc[p] \in {"answered", "failed"} /\ pc[p] \in Holding
  BY DEF Return, Holding, Label
<1>2. PICK k \in Key, s \in Purchase : k = KeyOf(p) /\ s = Rec(p)
  BY <1>1, AtWork DEF SafeInv
<1>3. UNCHANGED <<disk, core, faults, settles, asked>>
  BY DEF Return
<1>4. pc'[p] = "idle" /\ \A q \in Proc \ {p} : pc'[q] = pc[q]
  BY DEF Return, End, Goto, SafeInv, TypeInv, TypeOK
<1>5. \A q \in Proc : OwnerInv(q)'
  <2>1. OwnerInv(p)'
    BY <1>4, NotWorking DEF Holding
  <2> QED BY <1>1, <1>4, <2>1, OthersRest
<1>6. pc[p] = "answered" => disk.rec[k] = s
  BY <1>1, <1>2 DEF SafeInv, MarketInv, OwnerInv, Current, Rec
<1>7. /\ served \in [Key -> Nat]
      /\ replies \in [Key -> SUBSET (Request \X (Job \X Pay))]
  BY DEF SafeInv, TypeInv, TypeOK
<1>8. ASSUME NEW j \in Key
      PROVE  /\ served'[j] > 0 => disk.rec[j].pay = "successful"
             /\ served'[j] + disk.rec[j].uses <= IF disk.rec[j].job = "verified" THEN 3 ELSE 1
  <2>1. KeyFacts(disk.rec[j], j)
    BY DEF SafeInv, MarketInv, FileInv
  <2>2. CASE j = k /\ call[p].op = "download" /\ pc[p] = "answered"
    <3>1. served'[k] = served[k] + 1
      BY <1>2, <1>7, <2>2 DEF Return
    <3>2. s.pay = "successful" /\ served[k] + 1 + s.uses <= IF s.job = "verified" THEN 3 ELSE 1
      BY <1>2, <2>2 DEF SafeInv, MarketInv, OwnerInv
    <3> QED BY <1>6, <2>2, <3>1, <3>2
  <2>3. CASE ~(j = k /\ call[p].op = "download" /\ pc[p] = "answered")
    <3>1. served'[j] = served[j]
      BY <1>2, <1>7, <2>3 DEF Return
    <3> QED BY <2>1, <3>1 DEF KeyFacts
  <2> QED BY <2>2, <2>3
<1>9. ASSUME NEW j \in Key
      PROVE  /\ replies'[j] \subseteq {<<disk.rec[j].req, <<disk.rec[j].job, disk.rec[j].pay>>>>}
             /\ replies'[j] # {} => disk.rec[j].answered \/ disk.rec[j].job = "disputed"
  <2>1. KeyFacts(disk.rec[j], j)
    BY DEF SafeInv, MarketInv, FileInv
  <2>2. CASE j = k /\ call[p].op = "purchase" /\ pc[p] = "answered"
    <3>1. replies'[k] = replies[k] \cup {<<call[p].req, <<s.job, s.pay>>>>}
      BY <1>2, <1>7, <2>2 DEF Return
    <3>2. s.req = call[p].req /\ (s.answered \/ s.job = "disputed")
      BY <1>2, <2>2 DEF SafeInv, MarketInv, OwnerInv
    <3> QED BY <1>6, <2>1, <2>2, <3>1, <3>2 DEF KeyFacts
  <2>3. CASE ~(j = k /\ call[p].op = "purchase" /\ pc[p] = "answered")
    <3>1. replies'[j] = replies[j]
      BY <1>2, <1>7, <2>3 DEF Return
    <3> QED BY <2>1, <3>1 DEF KeyFacts
  <2> QED BY <2>2, <2>3
<1>10. ASSUME NEW j \in Key PROVE KeyFacts(disk.rec[j], j)'
  <2>1. KeyFacts(disk.rec[j], j)
    BY DEF SafeInv, MarketInv, FileInv
  <2> QED BY <1>3, <1>8, <1>9, <2>1 DEF KeyFacts
<1>11. ReplayInv' /\ SoldAsApproved' /\ Kept
  BY <1>3, KeptStill DEF SafeInv, MarketInv, FileInv, ReplayInv, SoldAsApproved
<1> QED BY <1>5, <1>10, <1>11 DEF MarketInv, FileInv

(* An update of the file, by an operator or by List.                       *)
LEMMA UpdateMarket ==
  ASSUME SafeInv, lock["market"] = NoProc, \A q \in Proc : pc'[q] \in Holding => pc'[q] = pc[q],
         disk' \in File, NewCatalog(disk') \/ NewApproval(disk') \/ PaidOut(disk'),
         UNCHANGED <<core, settles, asked, served, replies>>
  PROVE  MarketInv' /\ Kept
<1>1. ASSUME NEW q \in Proc PROVE OwnerInv(q)'
  <2>1. pc[q] \notin Holding
    BY MarketplaceAssumption DEF SafeInv, LockInv
  <2>2. pc'[q] \notin Holding
    BY <2>1
  <2> QED BY <2>2, NotWorking
<1>2. disk \in File
  BY DEF SafeInv, TypeInv, TypeOK
<1>3. ASSUME disk'.rec = disk.rec, SoldAsApproved', disk.catalog.terms <= disk'.catalog.terms,
             \A a \in Approval : disk.approvals[a] # NoApproval =>
               disk'.approvals[a] = disk.approvals[a]
      PROVE  FileInv' /\ Kept
  <2>1. ReplayInv'
    BY DEF SafeInv, MarketInv, FileInv, ReplayInv
  <2>2. ASSUME NEW k \in Key PROVE KeyFacts(disk.rec[k], k)'
    <3>1. KeyFacts(disk.rec[k], k)
      BY DEF SafeInv, MarketInv, FileInv
    <3> QED BY <1>3, <3>1 DEF KeyFacts
  <2>3. ASSUME NEW k \in Key
        PROVE  Same(disk.rec[k], disk.rec[k]) /\ ~(disk.rec[k].uses > disk.rec[k].uses)
    BY <1>2, SameRecord DEF File
  <2>4. Kept
    BY <1>3, <2>3 DEF Kept
  <2> QED BY <1>3, <2>1, <2>2, <2>4 DEF FileInv
<1>4. CASE NewCatalog(disk')
  <2>1. PICK c \in Catalog : c.terms >= disk.catalog.terms /\ disk' = [disk EXCEPT !.catalog = c]
    BY <1>4 DEF NewCatalog
  <2>2. disk'.rec = disk.rec /\ disk'.approvals = disk.approvals /\ disk'.catalog = c
    BY <1>2, <2>1, CatalogType
  <2>3. disk.catalog.terms <= disk'.catalog.terms
    BY <1>2, <2>1, <2>2, MarketplaceAssumption DEF File, Catalog, Terms
  <2>4. SoldAsApproved'
    BY <2>2 DEF SafeInv, MarketInv, FileInv, SoldAsApproved
  <2>5. FileInv' /\ Kept
    BY <1>3, <2>2, <2>3, <2>4
  <2> QED BY <1>1, <2>5 DEF MarketInv
<1>5. CASE NewApproval(disk')
  <2>1. PICK a \in Approval, r \in ApprovalRecord :
          disk.approvals[a] = NoApproval /\ disk' = [disk EXCEPT !.approvals[a] = r]
    BY <1>5 DEF NewApproval
  <2>2. /\ disk'.rec = disk.rec /\ disk'.catalog = disk.catalog
        /\ \A b \in Approval \ {a} : disk'.approvals[b] = disk.approvals[b]
    BY <1>2, <2>1 DEF File
  <2>3. SoldAsApproved'
    <3> SUFFICES ASSUME NEW k \in Key, disk.rec[k].req # NoRequest
                 PROVE  disk'.approvals[disk.rec[k].req.approval] =
                          [key |-> k, input |-> disk.rec[k].req.input,
                           terms |-> disk.rec[k].terms, used |-> TRUE]
      BY <2>2 DEF SoldAsApproved
    <3>1. disk.rec[k].req \in Request /\ disk.rec[k].terms \in Terms
      BY <1>2 DEF File, Purchase
    <3>2. [key |-> k, input |-> disk.rec[k].req.input,
           terms |-> disk.rec[k].terms, used |-> TRUE] \in ApprovalRecord
      BY <3>1 DEF ApprovalRecord, Request
    <3>3. disk.approvals[disk.rec[k].req.approval] =
            [key |-> k, input |-> disk.rec[k].req.input,
             terms |-> disk.rec[k].terms, used |-> TRUE]
      BY DEF SafeInv, MarketInv, FileInv, SoldAsApproved
    <3>4. disk.rec[k].req.approval # a /\ disk.rec[k].req.approval \in Approval
      BY <2>1, <3>1, <3>2, <3>3, MarketplaceAssumption DEF Request
    <3> QED BY <2>2, <3>3, <3>4
  <2>4. disk.catalog.terms <= disk'.catalog.terms
    BY <1>2, <2>2, MarketplaceAssumption DEF File, Catalog, Terms
  <2>5. FileInv' /\ Kept
    BY <1>3, <2>1, <2>2, <2>3, <2>4
  <2> QED BY <1>1, <2>5 DEF MarketInv
<1>6. CASE PaidOut(disk')
  <2>1. PICK k \in Key : /\ disk.rec[k].alloc = "payable"
                         /\ disk' = [disk EXCEPT !.rec[k] = [@ EXCEPT !.alloc = "settled"]]
    BY <1>6 DEF PaidOut
  <2>2. PICK s \in Purchase : s = disk.rec[k]
    BY <1>2 DEF File
  <2> DEFINE r == [s EXCEPT !.alloc = "settled"]
  <2>3. disk' = [disk EXCEPT !.rec[k] = r]
    BY <2>1, <2>2
  <2>4. /\ r \in Purchase /\ r.req = s.req /\ r.terms = s.terms /\ r.pay = s.pay
        /\ r.job = s.job /\ r.answered = s.answered /\ r.receipt = s.receipt
        /\ r.ent = s.ent /\ r.alloc = "settled" /\ r.uses = s.uses
    BY DEF Purchase
  <2>5. Same(s, r)
    <3>1. [s EXCEPT !.uses = s.uses, !.alloc = "settled"] = r
      BY DEF Purchase
    <3> HIDE DEF r
    <3> QED BY <2>4, <3>1 DEF Same
  <2> HIDE DEF r
  <2>6. KeyFacts(s, k) /\ ~(s.uses > s.uses)
    BY <2>2, SameRecord DEF SafeInv, MarketInv, FileInv
  <2>7. Story(r)
    BY <2>1, <2>2, <2>4, <2>6, MarketplaceAssumption DEF KeyFacts, Story, EmptyPurchase
  <2>8. KeyFacts(r, k)
    BY <2>4, <2>6, <2>7 DEF KeyFacts
  <2>9. FileInv' /\ Kept
    BY <2>2, <2>3, <2>4, <2>5, <2>6, <2>8, RecordStep
  <2> QED BY <1>1, <2>9 DEF MarketInv
<1> QED BY <1>4, <1>5, <1>6

(* A purchase through /api/x402 runs under the core lock, so no purchase   *)
(* of the marketplace is on its way.                                       *)
LEMMA CoreInvokeMarket ==
  ASSUME SafeInv, NEW n \in ReplayKey, CoreInvoke(n) PROVE MarketInv' /\ Kept
<1>1. /\ lock["core"] = NoProc /\ n \notin core.replay /\ core \in CoreFile
      /\ core' = [core EXCEPT !.replay = @ \cup {n}]
      /\ settles' = [settles EXCEPT ![n] = @ + 1]
      /\ UNCHANGED <<lock, disk, mem, pc, call, asked, served, replies>>
  BY DEF CoreInvoke, localVars, SafeInv, TypeInv, TypeOK
<1>2. core'.replay = core.replay \cup {n} /\ core'.projected = core.projected
  BY <1>1 DEF CoreFile
<1>3. ReplayInv'
  <2>1. settles[n] = 0
    <3>1. settles[n] \in Nat /\ ~(settles[n] > 0)
      BY <1>1 DEF SafeInv, MarketInv, FileInv, ReplayInv, TypeInv, TypeOK
    <3> QED BY <3>1
  <2>2. settles'[n] = 1 /\ \A m \in ReplayKey \ {n} : settles'[m] = settles[m]
    BY <1>1, <2>1 DEF SafeInv, TypeInv, TypeOK
  <2> QED BY <1>2, <2>2 DEF ReplayInv, SafeInv, MarketInv, FileInv
<1>4. FileInv' /\ Kept
  <2>1. SoldAsApproved'
    BY <1>1 DEF SafeInv, MarketInv, FileInv, SoldAsApproved
  <2>2. ASSUME NEW k \in Key PROVE KeyFacts(disk.rec[k], k)'
    <3>1. KeyFacts(disk.rec[k], k)
      BY DEF SafeInv, MarketInv, FileInv
    <3> QED BY <1>1, <1>2, <3>1 DEF KeyFacts
  <2> QED BY <1>1, <1>2, <1>3, <2>1, <2>2, KeptStill DEF FileInv, SafeInv
<1>5. ASSUME NEW q \in Proc PROVE OwnerInv(q)'
  <2>1. pc[q] \notin InPurchase
    <3> SUFFICES ASSUME pc[q] \in InPurchase PROVE FALSE
      OBVIOUS
    <3>1. call[q].op = "purchase" /\ pc[q] \notin {"idle", "waitCore"}
      BY DEF SafeInv, TypeInv, InPurchase, Holding
    <3> QED BY <1>1, <3>1, MarketplaceAssumption DEF SafeInv, LockInv
  <2>2. OwnerInv(q) /\ UNCHANGED <<disk, served>>
        /\ pc'[q] = pc[q] /\ mem'[q] = mem[q] /\ call'[q] = call[q]
    BY <1>1 DEF SafeInv, MarketInv
  <2> QED BY <2>1, <2>2 DEF OwnerInv, Current, Rec, KeyOf
<1> QED BY <1>4, <1>5 DEF MarketInv

LEMMA ListMarket ==
  ASSUME SafeInv, NEW p \in Proc, List(p) PROVE MarketInv' /\ Kept
<1>1. /\ lock["market"] = NoProc
      /\ pc' = [pc EXCEPT ![p] = "idle"]
      /\ call' = [call EXCEPT ![p] = NoCall]
      /\ UNCHANGED <<core, mem, settles, asked, served, replies>>
  BY DEF List, Goto, worldVars
<1>2. pc'[p] = "idle" /\ \A q \in Proc \ {p} : pc'[q] = pc[q] /\ call'[q] = call[q]
  BY <1>1 DEF SafeInv, TypeInv, TypeOK
<1>3. CASE disk' = disk
  <2>1. ASSUME NEW q \in Proc PROVE OwnerInv(q)'
    <3>1. CASE q = p
      BY <1>2, <3>1, NotWorking DEF Holding
    <3>2. CASE q # p
      BY <1>1, <1>2, <1>3, <3>2, StillOwner DEF SafeInv, MarketInv
    <3> QED BY <3>1, <3>2
  <2>2. FileInv' /\ Kept
    BY <1>1, <1>3, FileUntouched
  <2> QED BY <2>1, <2>2 DEF MarketInv
<1>4. CASE NewCatalog(disk')
  <2>1. disk' \in File
    BY ListType DEF SafeInv, TypeInv, TypeOK
  <2>2. \A q \in Proc : pc'[q] \in Holding => pc'[q] = pc[q]
    BY <1>2 DEF Holding
  <2> QED BY <1>1, <1>4, <2>1, <2>2, UpdateMarket
<1> QED BY <1>3, <1>4, ListType DEF SafeInv

LEMMA OperatorMarket == ASSUME SafeInv, Operator PROVE MarketInv' /\ Kept
<1>1. PICK f \in File : Edit(f) /\ (NewCatalog(f) \/ NewApproval(f) \/ PaidOut(f))
  BY OperatorEdits DEF SafeInv
<1>2. /\ lock["market"] = NoProc /\ disk' = f /\ pc' = pc
      /\ UNCHANGED <<core, settles, asked, served, replies>>
  BY <1>1 DEF Edit, localVars, worldVars
<1> QED BY <1>1, <1>2, UpdateMarket

LEMMA MarketNext ==
  ASSUME ExactLocks, SafeInv, [Next]_vars PROVE MarketInv' /\ Kept
<1>1. CASE \E p \in Proc : \/ \E c \in Call : StartCall(p, c)
                           \/ WaitFails(p) \/ Crash(p)
  BY <1>1, EnvelopeMarket
<1>2. ASSUME NEW p \in Proc, PurchaseStep(p) PROVE MarketInv' /\ Kept
  BY <1>2, NothingWrittenMarket, StrandedMarket, JournalMarket, ReserveMarket,
     ProgressMarket, CallSettleMarket, AnswerMarket, ProjectMarket DEF PurchaseStep
<1>3. CASE \E p \in Proc : Step(p)
  BY <1>2, <1>3, EnvelopeMarket, ReturnMarket, NothingWrittenMarket, DownloadMarket,
     ListMarket DEF Step
<1>4. CASE \E l \in {"core", "market"} : GuardianDies(l)
  BY <1>4 DEF GuardianDies, ExactLocks
<1>5. CASE Operator
  BY <1>5, OperatorMarket
<1>6. CASE \E n \in ReplayKey : CoreInvoke(n)
  BY <1>6, CoreInvokeMarket
<1>7. CASE UNCHANGED vars
  <2>1. UNCHANGED <<disk, core, mem, pc, call, settles, asked, served, replies>>
    BY <1>7 DEF vars
  <2>2. FileInv' /\ Kept
    BY <2>1, FileUntouched
  <2>3. ASSUME NEW q \in Proc PROVE OwnerInv(q)'
    BY <2>1, StillOwner DEF SafeInv, MarketInv
  <2> QED BY <2>2, <2>3 DEF MarketInv
<1> QED BY <1>1, <1>3, <1>4, <1>5, <1>6, <1>7 DEF Next

LEMMA MarketInit == Init => LockInv /\ MarketInv
<1> SUFFICES ASSUME Init PROVE LockInv /\ MarketInv
  OBVIOUS
<1>1. pc = [p \in Proc |-> "idle"] /\ lock = [l \in {"core", "market"} |-> NoProc]
  BY DEF Init
<1>2. LockInv
  BY <1>1, MarketplaceAssumption DEF LockInv, Holding
<1>3. ASSUME NEW p \in Proc PROVE OwnerInv(p)
  BY <1>1 DEF OwnerInv, Current, Holding, InPurchase
<1>4. ASSUME NEW k \in Key PROVE disk.rec[k] = EmptyPurchase
  BY DEF Init, EmptyFile
<1>5. Story(EmptyPurchase)
  BY DEF Story, EmptyPurchase
<1>6. ASSUME NEW k \in Key PROVE KeyFacts(disk.rec[k], k)
  <2>1. /\ k \notin asked /\ served[k] = 0 /\ replies[k] = {}
        /\ core.projected[k] = "none"
    BY DEF Init
  <2>2. KeyFacts(EmptyPurchase, k)
    BY <1>5, <2>1 DEF KeyFacts, EmptyPurchase
  <2> QED BY <1>4, <2>2
<1>7. ReplayInv /\ SoldAsApproved
  BY <1>4 DEF Init, ReplayInv, SoldAsApproved, EmptyPurchase
<1> QED BY <1>2, <1>3, <1>6, <1>7 DEF MarketInv, FileInv

LEMMA SafeNext == ASSUME ExactLocks, SafeInv, [Next]_vars PROVE SafeInv'
<1> QED BY TypeNext, LockNext, MarketNext DEF SafeInv

LEMMA MarketSafe == ASSUME ExactLocks PROVE Spec => []SafeInv
<1>1. Init => SafeInv
  BY TypeInit, MarketInit DEF SafeInv
<1>2. ExactLocks /\ SafeInv /\ [Next]_vars => SafeInv'
  BY SafeNext
<1>3. SafeInv /\ [Next]_vars => SafeInv'
  BY <1>2
<1> QED BY <1>1, <1>3, PTL DEF Spec

-----------------------------------------------------------------------------
(* The theorems.                                                           *)

(* A replay key is settled at most once, over marketplace purchases and    *)
(* /api/x402 together: it is reserved under the core lock before the       *)
(* facilitator is asked, and never given back (lib/marketplace.mjs).  Says *)
(* nothing of one authorization whose nonce is spelled in two ways.        *)
THEOREM MarketOneSettlement == ASSUME ExactLocks PROVE Spec => []SettledOncePerReplayKey
<1>1. SafeInv => SettledOncePerReplayKey
  BY DEF SafeInv, MarketInv, FileInv, ReplayInv, SettledOncePerReplayKey
<1> QED BY <1>1, MarketSafe, PTL

(* Once a settlement was asked for, the file says money may have moved and *)
(* the replay key is reserved, whatever writes fail and processes die.     *)
THEOREM MarketChargeVisible == ASSUME ExactLocks PROVE Spec => []ChargeIsVisible
<1>1. SafeInv => ChargeIsVisible
  BY DEF SafeInv, TypeInv, TypeOK, MarketInv, FileInv, KeyFacts, ChargeIsVisible
<1> QED BY <1>1, MarketSafe, PTL

(* Job, payment, receipt, entitlement, allocation and projection of every  *)
(* answered purchase agree, after any failures.                            *)
THEOREM MarketOutcomesAgree == ASSUME ExactLocks PROVE Spec => []OutcomesAgree
<1>1. SafeInv => OutcomesAgree
  <2> SUFFICES ASSUME SafeInv PROVE OutcomesAgree
    OBVIOUS
  <2>1. ASSUME NEW k \in Key
        PROVE  KeyFacts(disk.rec[k], k) /\ Story(disk.rec[k])
    BY DEF SafeInv, MarketInv, FileInv, KeyFacts
  <2>2. ASSUME NEW k \in Key, ~disk.rec[k].answered
        PROVE  disk.rec[k].alloc \in {"none", "recorded"} /\ disk.rec[k].uses <= 1
    BY <2>1, <2>2 DEF Story
  <2> QED BY <2>1, <2>2 DEF OutcomesAgree, KeyFacts, Story
<1> QED BY <1>1, MarketSafe, PTL

(* Every purchase rests on an approval of its own, minted for this key and *)
(* input and for the terms it was sold on.                                 *)
THEOREM MarketSoldAsApproved == ASSUME ExactLocks PROVE Spec => []SoldAsApproved
<1>1. SafeInv => SoldAsApproved
  BY DEF SafeInv, MarketInv, FileInv
<1> QED BY <1>1, MarketSafe, PTL

(* Artifacts are handed out for paid purchases only, and no more of them   *)
(* than the entitlement allows: a use is counted before it is handed out.  *)
THEOREM MarketDownloadsBounded == ASSUME ExactLocks PROVE Spec => []DownloadsWithinRights
<1>1. SafeInv => DownloadsWithinRights
  <2> SUFFICES ASSUME SafeInv, NEW k \in Key
               PROVE  /\ served[k] > 0 => disk.rec[k].pay = "successful" /\ k \in asked
                      /\ served[k] + disk.rec[k].uses <= 3
                      /\ served[k] > 1 => disk.rec[k].job = "verified"
    BY DEF DownloadsWithinRights
  <2>1. disk.rec[k] \in Purchase /\ served[k] \in Nat
    BY DEF SafeInv, TypeInv, TypeOK, File
  <2>2. disk.rec[k].uses \in 0 .. 3
    BY <2>1 DEF Purchase
  <2>3. KeyFacts(disk.rec[k], k)
    BY DEF SafeInv, MarketInv, FileInv
  <2> QED BY <2>1, <2>2, <2>3 DEF KeyFacts
<1> QED BY <1>1, MarketSafe, PTL

(* All answers for a key are one answer to one request, the one on file:   *)
(* a retry is answered from the record, never by a second purchase.        *)
THEOREM MarketRepliesAgree == ASSUME ExactLocks PROVE Spec => []RepliesAgree
<1>1. SafeInv => RepliesAgree
  BY DEF SafeInv, MarketInv, FileInv, KeyFacts, RepliesAgree
<1> QED BY <1>1, MarketSafe, PTL

(* No step of any process takes back an approval, an edit of the catalog,  *)
(* a purchase, an answer or a replay key.                                  *)
THEOREM MarketNothingTakenBack == ASSUME ExactLocks PROVE Spec => NothingTakenBack
<1>1. ExactLocks /\ SafeInv /\ [Next]_vars => [Kept]_vars
  BY MarketNext
<1>2. SafeInv /\ [Next]_vars => [Kept]_vars
  BY <1>1
<1>3. Spec => [][Kept]_vars
  BY <1>2, MarketSafe, PTL DEF Spec
<1> QED BY <1>3 DEF NothingTakenBack, Kept, Same

=============================================================================
