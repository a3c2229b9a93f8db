--------------------------- MODULE OperatorProofs ---------------------------
(***************************************************************************)
(* Proofs about the parts at the edge of the server (MCOperator): for each *)
(* part its type correctness and the safety invariant the run Operator     *)
(* checks, first as theorems of the part's own specification and, at the   *)
(* end, of the specification the run checks.                               *)
(***************************************************************************)
EXTENDS MCOperator, LedgerProofs, FiniteSetTheorems, TLAPS

-----------------------------------------------------------------------------
(* The worker (BountyWorker).                                              *)

(* A copy of the state that neither skips an event nor a version.          *)
Covers(s, events) ==
  /\ 1 .. s.cursor \subseteq s.events
  /\ s.events \subseteq 1 .. events
  /\ s.bounties = s.candidates

WorkerInv ==
  /\ WorkerTypeOK
  /\ Covers(file, published)
  /\ \A w \in Worker : Covers(state[w], published)

(* The fields of a state that was scanned or whose page was admitted.      *)
LEMMA ScanKeeps ==
  ASSUME NEW s \in State, NEW b \in Bounty, NEW v \in 0 .. MaxVersion,
         NEW e \in Nat, Covers(s, e)
  PROVE  LET t == [s EXCEPT !.bounties[b] = v, !.candidates[b] = v] IN
         t \in State /\ Covers(t, e)
  BY DEF State, Covers

LEMMA AdmitKeeps ==
  ASSUME NEW s \in State, NEW e \in 0 .. MaxEvent, Covers(s, e),
         NEW last \in s.cursor .. e
  PROVE  Admit(s, last) \in State /\ Covers(Admit(s, last), e)
<1>1. /\ MaxEvent \in Nat /\ s.cursor \in 0 .. MaxEvent
      /\ s.events \in SUBSET (1 .. MaxEvent)
  BY WorkerAssumption DEF State
<1> DEFINE t == Admit(s, last)
<1> DEFINE E == s.events \cup (s.cursor + 1 .. last)
<1>a. t = [[s EXCEPT !.events = E] EXCEPT !.cursor = last]
  BY DEF Admit
<1> HIDE DEF E
<1>2. t = [cursor |-> last, events |-> E,
           bounties |-> s.bounties, candidates |-> s.candidates]
  BY <1>a DEF State
<1>3. /\ last \in 0 .. MaxEvent
      /\ E \subseteq 1 .. e
      /\ 1 .. last \subseteq E
  BY <1>1 DEF Covers, E
<1>4. t \in State
  BY <1>1, <1>2, <1>3 DEF State
<1>5. Covers(t, e)
  BY <1>2, <1>3 DEF Covers
<1> QED  BY <1>4, <1>5

LEMMA WorkerInvInit == WorkerInit => WorkerInv
<1> SUFFICES ASSUME WorkerInit PROVE WorkerInv
  OBVIOUS
<1>1. EmptyState \in State
  BY WorkerAssumption DEF EmptyState, State
<1>2. Covers(EmptyState, 0)
  BY DEF EmptyState, Covers
<1> QED
  BY <1>1, <1>2, WorkerAssumption DEF WorkerInit, WorkerInv, WorkerTypeOK

Places == {"idle", "scan", "save scan", "poll", "save page",
           "save last page", "stopped"}

(* A worker moves on, and may replace the file by its copy or its copy by  *)
(* one that covers as much as it says.                                     *)
LEMMA WorkerMoves ==
  ASSUME WorkerInv, NEW w \in Worker, UNCHANGED world,
         NEW place_ \in Places, Go(w, place_),
         UNCHANGED breaks \/ Broken,
         NEW t \in State, Covers(t, published),
         UNCHANGED state \/ state' = [state EXCEPT ![w] = t],
         UNCHANGED file \/ file' = state[w]
  PROVE  WorkerInv'
<1>2. breaks' \in 0 .. MaxBreak
  <2>1. breaks \in 0 .. MaxBreak /\ MaxBreak \in Nat
    BY WorkerAssumption DEF WorkerInv, WorkerTypeOK
  <2> QED  BY <2>1 DEF Broken
<1> USE DEF WorkerInv, WorkerTypeOK, world
<1>1. at' \in [Worker -> Places]
  BY DEF Go, Places
<1>3. file' \in State /\ Covers(file', published)
  OBVIOUS
<1>4. /\ state' \in [Worker -> State]
      /\ \A v \in Worker : state'[v] = state[v] \/ state'[v] = t
  OBVIOUS
<1>5. \A v \in Worker : Covers(state'[v], published)
  BY <1>4
<1> QED
  BY <1>1, <1>2, <1>3, <1>4, <1>5 DEF Places

(* One step of a cycle.                                                    *)
LEMMA WorkerCycleKeeps ==
  ASSUME WorkerInv, NEW w \in Worker,
         Cycle(w) \/ ScanFails(w) \/ PollFails(w) \/ Crash(w)
           \/ \E b \in Bounty : Scan(w, b)
  PROVE  WorkerInv'
<1>0. /\ state[w] \in State /\ file \in State
      /\ Covers(state[w], published) /\ Covers(file, published)
      /\ at \in [Worker -> Places] /\ state \in [Worker -> State]
      /\ published \in 0 .. MaxEvent /\ version \in [Bounty -> 1 .. MaxVersion]
  BY DEF WorkerInv, WorkerTypeOK, Places
<1> DEFINE rest == IF w \in Once THEN "stopped" ELSE "idle"
<1>r. rest \in Places /\ (Rest(w) <=> Go(w, rest))
  BY DEF Places, Rest
<1> HIDE DEF rest
<1>p. /\ "scan" \in Places /\ "save scan" \in Places /\ "poll" \in Places
      /\ "save page" \in Places /\ "save last page" \in Places
  BY DEF Places
<1>1. CASE LoadState(w)
  BY <1>0, <1>1, <1>p, WorkerMoves DEF LoadState
<1>2. CASE ScanEnds(w)
  BY <1>0, <1>2, <1>p, WorkerMoves DEF ScanEnds
<1>3. CASE SaveScan(w)
  BY <1>0, <1>3, <1>p, WorkerMoves DEF SaveScan, world
<1>4. CASE Poll(w)
  <2>1. PICK last \in state[w].cursor .. published :
          /\ state' = [state EXCEPT ![w] = Admit(@, last)]
          /\ Go(w, IF last < published THEN "save page" ELSE "save last page")
    BY <1>4 DEF Poll
  <2>2. /\ Admit(state[w], last) \in State
        /\ Covers(Admit(state[w], last), published)
    BY <1>0, <2>1, AdmitKeeps
  <2>3. (IF last < published THEN "save page" ELSE "save last page") \in Places
    BY <1>p
  <2> QED
    BY <1>4, <2>1, <2>2, <2>3, WorkerMoves DEF Poll
<1>5. CASE SavePage(w)
  <2>1. \E x \in Places : Go(w, x)
    BY <1>5, <1>p, <1>r DEF SavePage
  <2> QED
    BY <1>0, <1>5, <2>1, WorkerMoves DEF SavePage, world
<1>6. CASE ScanFails(w)
  BY <1>0, <1>6, <1>p, WorkerMoves DEF ScanFails, world
<1>7. CASE PollFails(w)
  BY <1>0, <1>7, <1>r, WorkerMoves DEF PollFails, world
<1>8. CASE Crash(w)
  BY <1>0, <1>8, <1>r, WorkerMoves DEF Crash, world
<1>9. ASSUME NEW b \in Bounty, Scan(w, b) PROVE WorkerInv'
  <2> DEFINE t == [state[w] EXCEPT !.bounties[b] = version[b],
                                   !.candidates[b] = version[b]]
  <2>1. t \in State /\ Covers(t, published)
    <3>1. version[b] \in 0 .. MaxVersion /\ published \in Nat
      BY <1>0, WorkerAssumption
    <3> QED  BY <1>0, <3>1, ScanKeeps
  <2>2. state' = [state EXCEPT ![w] = t]
    <3> DEFINE s1 == [state EXCEPT ![w].bounties[b] = version[b]]
               s2 == [s1 EXCEPT ![w].candidates[b] = version[b]]
    <3>1. s1[w] = [state[w] EXCEPT !.bounties[b] = version[b]]
      BY <1>0
    <3>2. s2[w] = [s1[w] EXCEPT !.candidates[b] = version[b]]
      BY <1>0
    <3>3. s2[w] = t
      BY <3>1, <3>2
    <3>4. s2 = [state EXCEPT ![w] = s2[w]]
      BY <1>0
    <3> QED  BY <1>9, <3>3, <3>4 DEF Scan
  <2>3. Go(w, at[w]) /\ at[w] \in Places
    BY <1>0, <1>9 DEF Scan, Go
  <2> HIDE DEF t
  <2> QED
    BY <1>9, <2>1, <2>2, <2>3, WorkerMoves DEF Scan, world
<1> QED
  BY <1>1, <1>2, <1>3, <1>4, <1>5, <1>6, <1>7, <1>8, <1>9 DEF Cycle

LEMMA WorkerInvNext == WorkerInv /\ [WorkerNext]_workerVars => WorkerInv'
<1> SUFFICES ASSUME WorkerInv, [WorkerNext]_workerVars PROVE WorkerInv'
  OBVIOUS
<1>1. CASE \E w \in Worker :
             Cycle(w) \/ ScanFails(w) \/ PollFails(w) \/ Crash(w)
               \/ \E b \in Bounty : Scan(w, b)
  BY <1>1, WorkerCycleKeeps
<1>2. CASE Publish
  <2>1. /\ published \in 0 .. MaxEvent /\ published < MaxEvent
        /\ MaxEvent \in Nat /\ published' = published + 1
    BY <1>2, WorkerAssumption DEF Publish, WorkerInv, WorkerTypeOK
  <2>2. published' \in 0 .. MaxEvent /\ 1 .. published \subseteq 1 .. published'
    BY <2>1
  <2>3. \A s : Covers(s, published) => Covers(s, published')
    BY <2>2 DEF Covers
  <2> QED
    BY <1>2, <2>2, <2>3 DEF Publish, WorkerInv, WorkerTypeOK
<1>3. CASE \E b \in Bounty : Revise(b)
  <2>1. PICK b \in Bounty : Revise(b)
    BY <1>3
  <2>2. version' \in [Bounty -> 1 .. MaxVersion]
    <3>1. /\ version \in [Bounty -> 1 .. MaxVersion]
          /\ version[b] < MaxVersion
          /\ version' = [version EXCEPT ![b] = version[b] + 1]
      BY <2>1 DEF Revise, WorkerInv, WorkerTypeOK
    <3>2. version[b] \in 1 .. MaxVersion
      BY <3>1
    <3>3. version[b] + 1 \in 1 .. MaxVersion
      BY <3>1, <3>2, WorkerAssumption
    <3> QED  BY <3>1, <3>3
  <2> QED
    BY <2>1, <2>2 DEF Revise, WorkerInv, WorkerTypeOK
<1>4. CASE UNCHANGED workerVars
  BY <1>4 DEF workerVars, WorkerInv, WorkerTypeOK
<1> QED
  BY <1>1, <1>2, <1>3, <1>4 DEF WorkerNext

LEMMA WorkerInvImplies == WorkerInv => WorkerTypeOK /\ CursorCovers
  BY DEF WorkerInv, CursorCovers, Covers

(* Whatever the worker and a single run started beside it do to the shared *)
(* state file, the file and every copy of it cover the events up to their  *)
(* cursor (recoverEvents: admit first, then move the cursor) and hold an   *)
(* evaluation of every version they mark as seen (scanAvailable).          *)
THEOREM WorkerSafe == WorkerSpec => [](WorkerTypeOK /\ CursorCovers)
<1>1. WorkerSpec => []WorkerInv
  BY WorkerInvInit, WorkerInvNext, PTL DEF WorkerSpec
<1> QED
  BY <1>1, WorkerInvImplies, PTL

-----------------------------------------------------------------------------
(* The submission gate (SubmissionGate).                                   *)

(* No two job specifications and no two manifests share a hash: a new one  *)
(* has a hash above every older one.                                       *)
HashesDiffer ==
  /\ IsFiniteSet(jobs) /\ IsFiniteSet(manifests)
  /\ \A j \in jobs : j.spec_hash < NextHash
  /\ \A m \in manifests : m.manifest_hash < NextHash
  /\ \A i, j \in jobs : i.spec_hash = j.spec_hash => i = j
  /\ \A m, n \in manifests : m.manifest_hash = n.manifest_hash => m = n

(* An approval names the hashes of a pair that a person looked at.         *)
ApprovalsReviewed ==
  \A a \in approvals : \E s \in reviewed :
    /\ a.job_spec_hash = s[1].spec_hash
    /\ a.manifest_hash = s[2].manifest_hash

GateInv ==
  GateTypeOK /\ HashesDiffer /\ ApprovalsReviewed /\ SubmissionsApproved

LEMMA NextHashRange ==
  ASSUME HashesDiffer PROVE NextHash \in Nat \ {0}
  BY FS_CardinalityType DEF HashesDiffer, NextHash

LEMMA GateInvInit == GateInit => GateInv
  BY FS_EmptySet
  DEF GateInit, GateInv, GateTypeOK, HashesDiffer, ApprovalsReviewed,
      SubmissionsApproved

LEMMA JobSpecKeeps ==
  ASSUME GateInv, NEW b \in GateBounty, NEW D \in SUBSET Deliverable,
         NEW C \in SUBSET Criterion, createJobSpec(b, D, C)
  PROVE  GateInv'
<1> DEFINE j == [spec_hash |-> NextHash, bounty_id |-> b, deliverables |-> D,
                 acceptance_criteria |-> C]
<1>1. NextHash \in Nat \ {0} /\ NextHash <= MaxDocument
  BY NextHashRange DEF GateInv, createJobSpec
<1>2. j \in Job /\ j.spec_hash = NextHash
  BY <1>1, GateAssumption DEF Job
<1>3. jobs' = jobs \cup {j}
  BY DEF createJobSpec
<1> HIDE DEF j
<1>4. j \notin jobs
  BY <1>1, <1>2 DEF GateInv, HashesDiffer
<1>5. NextHash' = NextHash + 1 /\ IsFiniteSet(jobs')
  <2>1. /\ IsFiniteSet(jobs) /\ IsFiniteSet(manifests)
        /\ manifests' = manifests
    BY DEF GateInv, HashesDiffer, createJobSpec
  <2>2. /\ Cardinality(jobs') = Cardinality(jobs) + 1 /\ IsFiniteSet(jobs')
        /\ Cardinality(jobs) \in Nat /\ Cardinality(manifests) \in Nat
    BY <1>3, <1>4, <2>1, FS_AddElement, FS_CardinalityType
  <2> QED  BY <2>1, <2>2 DEF NextHash
<1>6. GateTypeOK'
  BY <1>2, <1>3 DEF GateInv, GateTypeOK, createJobSpec
<1>7. HashesDiffer'
  <2>1. \A k \in jobs : k.spec_hash \in Nat /\ k.spec_hash < NextHash
    BY DEF GateInv, GateTypeOK, Job, HashesDiffer
  <2>2. \A m \in manifests : m.manifest_hash \in Nat /\ m.manifest_hash < NextHash
    BY DEF GateInv, GateTypeOK, Manifest, HashesDiffer
  <2>3. \A k \in jobs' : k.spec_hash < NextHash'
    BY <1>1, <1>2, <1>3, <1>5, <2>1
  <2>4. manifests' = manifests /\ \A m \in manifests' : m.manifest_hash < NextHash'
    BY <1>1, <1>5, <2>2 DEF createJobSpec
  <2>5. \A k, l \in jobs' : k.spec_hash = l.spec_hash => k = l
    BY <1>1, <1>2, <1>3, <2>1 DEF GateInv, HashesDiffer
  <2> QED
    BY <1>5, <2>3, <2>4, <2>5 DEF GateInv, HashesDiffer
<1>8. ApprovalsReviewed' /\ SubmissionsApproved'
  BY DEF GateInv, ApprovalsReviewed, SubmissionsApproved, createJobSpec
<1> QED  BY <1>6, <1>7, <1>8 DEF GateInv

LEMMA ManifestKeeps ==
  ASSUME GateInv, NEW job \in jobs, NEW D \in SUBSET Deliverable,
         NEW C \in SUBSET Criterion, NEW tests \in BOOLEAN, NEW scan \in BOOLEAN,
         createSubmissionManifest(job, D, C, tests, scan)
  PROVE  GateInv'
<1> DEFINE m == [manifest_hash |-> NextHash, bounty_id |-> job.bounty_id,
                 job_spec_hash |-> job.spec_hash, artifacts |-> D,
                 criteria |-> C, tests |-> tests, secret_scan |-> scan]
<1>1. NextHash \in Nat \ {0} /\ NextHash <= MaxDocument
  BY NextHashRange DEF GateInv, createSubmissionManifest
<1>2. m \in Manifest /\ m.manifest_hash = NextHash
  <2>1. job.bounty_id \in GateBounty /\ job.spec_hash \in 1 .. MaxDocument
    BY DEF GateInv, GateTypeOK, Job
  <2> QED  BY <1>1, <2>1, GateAssumption DEF Manifest
<1>3. manifests' = manifests \cup {m}
  BY DEF createSubmissionManifest
<1> HIDE DEF m
<1>4. m \notin manifests
  BY <1>1, <1>2 DEF GateInv, HashesDiffer
<1>5. NextHash' = NextHash + 1 /\ IsFiniteSet(manifests')
  <2>1. IsFiniteSet(jobs) /\ IsFiniteSet(manifests) /\ jobs' = jobs
    BY DEF GateInv, HashesDiffer, createSubmissionManifest
  <2>2. /\ Cardinality(manifests') = Cardinality(manifests) + 1
        /\ IsFiniteSet(manifests')
        /\ Cardinality(jobs) \in Nat /\ Cardinality(manifests) \in Nat
    BY <1>3, <1>4, <2>1, FS_AddElement, FS_CardinalityType
  <2> QED  BY <2>1, <2>2 DEF NextHash
<1>6. GateTypeOK'
  BY <1>2, <1>3 DEF GateInv, GateTypeOK, createSubmissionManifest
<1>7. HashesDiffer'
  <2>1. \A k \in jobs : k.spec_hash \in Nat /\ k.spec_hash < NextHash
    BY DEF GateInv, GateTypeOK, Job, HashesDiffer
  <2>2. \A n \in manifests : n.manifest_hash \in Nat /\ n.manifest_hash < NextHash
    BY DEF GateInv, GateTypeOK, Manifest, HashesDiffer
  <2>3. \A n \in manifests' : n.manifest_hash < NextHash'
    BY <1>1, <1>2, <1>3, <1>5, <2>2
  <2>4. jobs' = jobs /\ \A k \in jobs' : k.spec_hash < NextHash'
    BY <1>1, <1>5, <2>1 DEF createSubmissionManifest
  <2>5. \A n, o \in manifests' : n.manifest_hash = o.manifest_hash => n = o
    BY <1>1, <1>2, <1>3, <2>2 DEF GateInv, HashesDiffer
  <2> QED
    BY <1>5, <2>3, <2>4, <2>5 DEF GateInv, HashesDiffer
<1>8. ApprovalsReviewed' /\ SubmissionsApproved'
  BY DEF GateInv, ApprovalsReviewed, SubmissionsApproved, createSubmissionManifest
<1> QED  BY <1>6, <1>7, <1>8 DEF GateInv

LEMMA ApprovalKeeps ==
  ASSUME GateInv, NEW job \in jobs, NEW manifest \in manifests,
         createApproval(job, manifest)
  PROVE  GateInv'
<1> DEFINE a == [bounty_id |-> job.bounty_id, job_spec_hash |-> job.spec_hash,
                 manifest_hash |-> manifest.manifest_hash]
<1>1. /\ approvals' = approvals \cup {a}
      /\ reviewed' = reviewed \cup {<<job, manifest>>}
      /\ jobs' = jobs /\ manifests' = manifests /\ submitted' = submitted
  BY DEF createApproval
<1>2. a \in Approval
  BY DEF GateInv, GateTypeOK, Job, Manifest, Approval
<1>3. GateTypeOK'
  <2> HIDE DEF a
  <2> QED  BY <1>1, <1>2 DEF GateInv, GateTypeOK
<1>4. HashesDiffer' /\ SubmissionsApproved'
  BY <1>1 DEF GateInv, HashesDiffer, NextHash, SubmissionsApproved
<1>5. ApprovalsReviewed'
  <2>1. /\ a.job_spec_hash = <<job, manifest>>[1].spec_hash
        /\ a.manifest_hash = <<job, manifest>>[2].manifest_hash
    OBVIOUS
  <2> HIDE DEF a
  <2> QED  BY <1>1, <2>1 DEF GateInv, ApprovalsReviewed
<1> QED  BY <1>3, <1>4, <1>5 DEF GateInv

(* The pair at the gate is the one the approval was made for: its hashes   *)
(* are those of a reviewed pair, and only that pair has them.              *)
LEMMA GateKeeps ==
  ASSUME GateInv, NEW job \in jobs, NEW manifest \in manifests,
         NEW approval \in approvals, submissionGate(job, manifest, approval)
  PROVE  GateInv'
<1>1. PICK s \in reviewed : /\ approval.job_spec_hash = s[1].spec_hash
                            /\ approval.manifest_hash = s[2].manifest_hash
  BY DEF GateInv, ApprovalsReviewed
<1>2. s[1] \in jobs /\ s[2] \in manifests /\ s = <<s[1], s[2]>>
  BY DEF GateInv, GateTypeOK
<1>3. s[1] = job /\ s[2] = manifest
  BY <1>1, <1>2 DEF GateInv, HashesDiffer, submissionGate, approvalMatches
<1>4. <<job, manifest>> \in reviewed
  BY <1>2, <1>3
<1>5. /\ submitted' = submitted \cup {<<job, manifest>>}
      /\ jobs' = jobs /\ manifests' = manifests
      /\ approvals' = approvals /\ reviewed' = reviewed
  BY DEF submissionGate
<1>6. GateTypeOK' /\ HashesDiffer' /\ ApprovalsReviewed'
  BY <1>5 DEF GateInv, GateTypeOK, HashesDiffer, NextHash, ApprovalsReviewed
<1>7. SubmissionsApproved'
  BY <1>4, <1>5
  DEF GateInv, SubmissionsApproved, submissionGate, validateSubmission
<1> QED  BY <1>6, <1>7 DEF GateInv

LEMMA GateInvNext == GateInv /\ [GateNext]_gateVars => GateInv'
<1> SUFFICES ASSUME GateInv, [GateNext]_gateVars PROVE GateInv'
  OBVIOUS
<1>1. CASE UNCHANGED gateVars
  BY <1>1 DEF gateVars, GateInv, GateTypeOK, HashesDiffer, NextHash,
              ApprovalsReviewed, SubmissionsApproved
<1>2. CASE GateNext
  BY <1>2, JobSpecKeeps, ManifestKeeps, ApprovalKeeps, GateKeeps DEF GateNext
<1> QED  BY <1>1, <1>2

LEMMA GateInvImplies == GateInv => GateTypeOK /\ SubmissionsApproved
  BY DEF GateInv

(* Whatever documents are made anew after an approval and put together at  *)
(* the gate, submissionGate lets through only a pair that a person         *)
(* approved as that pair, made for each other and complete.                *)
THEOREM GateSafe == GateSpec => [](GateTypeOK /\ SubmissionsApproved)
<1>1. GateSpec => []GateInv
  BY GateInvInit, GateInvNext, PTL DEF GateSpec
<1> QED  BY <1>1, GateInvImplies, PTL

-----------------------------------------------------------------------------
(* The buyer's payment client (BuyerClient).                               *)

(* Where a call stands and what it has signed.  Calls that signed one      *)
(* authorization have the same key in the header.                          *)
CallsSound ==
  /\ \A c \in BuyerCall :
       /\ step[c] # "new" => key[c] \in Key
       /\ step[c] \in {"approve", "sign"} => challenge[c] \in Terms
       /\ step[c] = "sign" => <<c, challenge[c]>> \in approved
       /\ signature[c] # Nothing =>
            /\ step[c] \in {"sent", "paid", "refused"}
            /\ challenge[c] \in Terms
            /\ <<c, challenge[c]>> \in approved
  /\ \A c, d \in BuyerCall :
       /\ Nothing \notin {signature[c], signature[d]}
       /\ NonceOf[signature[c]] = NonceOf[signature[d]]
       => key[c] = key[d]

(* A request on its way carries what its call signed, under the key by     *)
(* which the server sees it.                                               *)
MessagesSound ==
  \A m \in sent : /\ signature[m.call] = m.replayKey
                  /\ step[m.call] # "new"
                  /\ serverKey(m.call) = m.key

Signed(k, n) ==
  \E c \in BuyerCall :
    step[c] # "new" /\ signature[c] = n /\ serverKey(c) = k

(* Only what a call signed is reserved for the key by which the server     *)
(* sees it, and only what is reserved is used.                             *)
PaymentsSigned ==
  /\ \A k \in Key :
       payment[k] # Nothing => Signed(k, payment[k])
  /\ \A n \in used : \E k \in Key : payment[k] # Nothing /\ NonceOf[payment[k]] = n
  /\ \A c \in BuyerCall :
       step[c] = "paid" => /\ NonceOf[signature[c]] \in used
                           /\ answer[serverKey(c)] # Nothing

BuyerInv ==
  BuyerTypeOK /\ LedgerInv /\ CallsSound /\ MessagesSound /\ PaymentsSigned

LEMMA BuyerInvInit == BuyerInit => BuyerInv
  BY LedgerInvInit
  DEF BuyerInit, LedgerInit, BuyerInv, BuyerTypeOK, CallsSound, MessagesSound,
      PaymentsSigned, Ended, Message

(* An authorization that was used was signed by a call that was approved,  *)
(* and pays under the key by which the server saw that call; and such a    *)
(* key has one payment.                                                    *)
LEMMA BuyerInvImplies == BuyerInv => BuyerTypeOK /\ PaidAsApproved
<1> SUFFICES ASSUME BuyerInv PROVE PaidAsApproved
  BY DEF BuyerInv
<1> USE DEF BuyerInv
<1>1. \A n \in used : \E c \in BuyerCall :
        /\ signature[c] # Nothing /\ NonceOf[signature[c]] = n
        /\ payment[serverKey(c)] = signature[c]
        /\ <<c, challenge[c]>> \in approved
  BY DEF PaymentsSigned, Signed, CallsSound
<1>2. ASSUME NEW c \in BuyerCall, signature[c] # Nothing, OneKey(c),
             NonceOf[signature[c]] \in used
      PROVE  NonceOf[payment[serverKey(c)]] = NonceOf[signature[c]]
  <2>1. PICK d \in BuyerCall :
          /\ signature[d] # Nothing /\ NonceOf[signature[d]] = NonceOf[signature[c]]
          /\ payment[serverKey(d)] = signature[d]
    BY <1>1, <1>2
  <2>2. key[d] = key[c]
    BY <1>2, <2>1 DEF CallsSound
  <2>3. serverKey(d) = serverKey(c)
    BY <1>2, <2>2 DEF OneKey
  <2> QED  BY <2>1, <2>3
<1>3. \A c, d \in BuyerCall :
        /\ Nothing \notin {signature[c], signature[d]}
        /\ {NonceOf[signature[c]], NonceOf[signature[d]]} \subseteq used
        /\ serverKey(c) = serverKey(d) /\ OneKey(c) /\ OneKey(d)
        => NonceOf[signature[c]] = NonceOf[signature[d]]
  <2> SUFFICES ASSUME NEW c \in BuyerCall, NEW d \in BuyerCall,
                      signature[c] # Nothing, signature[d] # Nothing,
                      NonceOf[signature[c]] \in used,
                      NonceOf[signature[d]] \in used,
                      serverKey(c) = serverKey(d), OneKey(c), OneKey(d)
               PROVE  NonceOf[signature[c]] = NonceOf[signature[d]]
    OBVIOUS
  <2>1. NonceOf[payment[serverKey(c)]] = NonceOf[signature[c]]
    BY <1>2
  <2>2. NonceOf[payment[serverKey(d)]] = NonceOf[signature[d]]
    BY <1>2
  <2> QED  BY <2>1, <2>2
<1>4. \A c \in BuyerCall :
        /\ step[c] \in {"not charged", "declined", "failed"} =>
             signature[c] = Nothing
        /\ step[c] = "paid" => /\ NonceOf[signature[c]] \in used
                               /\ answer[serverKey(c)] # Nothing
  BY DEF CallsSound, PaymentsSigned
<1> QED  BY <1>1, <1>3, <1>4 DEF PaidAsApproved

(* The steps of a call that leave its signature and what is under way.     *)
LEMMA CallStepKeeps ==
  ASSUME BuyerInv, NEW c \in BuyerCall,
         \/ \E where \in Place, given \in Key, inBody \in Key \cup {Nothing} :
              Request(c, where, given, inBody)
         \/ NotCharged(c) \/ Challenged(c) \/ BadChallenge(c)
         \/ Decline(c) \/ Approve(c) \/ Fail(c) \/ Refused(c)
  PROVE  BuyerInv'
<1>1. UNCHANGED <<ledgerVars, required, signature, sent>>
  BY DEF Request, NotCharged, Challenged, BadChallenge, Decline, Approve,
         Fail, Refused
<1>2. LedgerInv'
  BY <1>1 DEF BuyerInv, LedgerInv, ledgerVars
<1>3. BuyerTypeOK'
  <2>1. step' \in [BuyerCall -> {"new", "asked", "approve", "sign", "sent"}
                                 \cup Ended]
    BY DEF BuyerInv, BuyerTypeOK, Ended, Move, Request, NotCharged,
           Challenged, BadChallenge, Decline, Approve, Fail, Refused
  <2>2. /\ key' \in [BuyerCall -> Key \cup {Nothing}]
        /\ body' \in [BuyerCall -> Key \cup {Nothing}]
    <3>1. CASE \E where \in Place, given \in Key, inBody \in Key \cup {Nothing} :
                 Request(c, where, given, inBody)
      BY <3>1 DEF BuyerInv, BuyerTypeOK, Request, idempotencyKey
    <3>2. CASE \/ NotCharged(c) \/ Challenged(c) \/ BadChallenge(c)
               \/ Decline(c) \/ Approve(c) \/ Fail(c) \/ Refused(c)
      BY <3>2 DEF BuyerInv, BuyerTypeOK, NotCharged, Challenged,
                  BadChallenge, Decline, Approve, Fail, Refused
    <3> QED  BY <3>1, <3>2
  <2>3. challenge' \in [BuyerCall -> Terms \cup {Nothing}]
    BY DEF BuyerInv, BuyerTypeOK, Request, NotCharged, Challenged,
           BadChallenge, Decline, Approve, Fail, Refused
  <2>4. approved' \subseteq BuyerCall \X Terms
    <3>1. CASE Approve(c)
      <4>1. challenge[c] \in Terms
        BY <3>1 DEF Approve, Move, BuyerInv, CallsSound
      <4> QED  BY <3>1, <4>1 DEF Approve, BuyerInv, BuyerTypeOK
    <3>2. CASE ~Approve(c)
      <4>1. approved' = approved
        BY <3>2 DEF Request, NotCharged, Challenged, BadChallenge, Decline,
                    Fail, Refused
      <4> QED  BY <4>1 DEF BuyerInv, BuyerTypeOK
    <3> QED  BY <3>1, <3>2
  <2> QED
    BY <1>1, <2>1, <2>2, <2>3, <2>4 DEF BuyerInv, BuyerTypeOK, ledgerVars
<1>4. /\ \A d \in BuyerCall : d # c =>
           /\ step'[d] = step[d] /\ key'[d] = key[d] /\ body'[d] = body[d]
           /\ challenge'[d] = challenge[d]
      /\ approved \subseteq approved'
      /\ step[c] # "new" =>
           step'[c] # "new" /\ key'[c] = key[c] /\ body'[c] = body[c]
      /\ signature[c] # Nothing =>
           /\ step[c] # "new" /\ challenge'[c] = challenge[c]
           /\ step'[c] \in {"sent", "paid", "refused"}
      /\ step'[c] # "paid"
      /\ step'[c] # "new" => key'[c] \in Key
      /\ step'[c] \in {"approve", "sign"} => challenge'[c] \in Terms
      /\ step'[c] = "sign" => <<c, challenge'[c]>> \in approved'
  <2>1. CASE \E where \in Place, given \in Key, inBody \in Key \cup {Nothing} :
               Request(c, where, given, inBody)
    BY <2>1 DEF BuyerInv, BuyerTypeOK, CallsSound, Move, Request,
                idempotencyKey
  <2>2. CASE \/ NotCharged(c) \/ Challenged(c) \/ BadChallenge(c)
             \/ Decline(c) \/ Approve(c) \/ Fail(c) \/ Refused(c)
    BY <2>2 DEF BuyerInv, BuyerTypeOK, CallsSound, Move, NotCharged,
                Challenged, BadChallenge, Decline, Approve, Fail, Refused
  <2> QED  BY <2>1, <2>2
<1>5. CallsSound'
  BY <1>1, <1>4 DEF BuyerInv, CallsSound
<1>6. \A d \in BuyerCall : step[d] # "new" =>
        step'[d] # "new" /\ serverKey(d)' = serverKey(d)
  BY <1>4 DEF serverKey
<1>7. MessagesSound'
  BY <1>1, <1>6 DEF BuyerInv, BuyerTypeOK, Message, MessagesSound
<1>8. \A k \in Key, n \in ReplayKey : Signed(k, n) => Signed(k, n)'
  BY <1>1, <1>6 DEF Signed
<1>9. PaymentsSigned'
  <2>1. \A k \in Key : payment[k] # Nothing => payment[k] \in ReplayKey
    BY DEF BuyerInv, LedgerInv
  <2>2. \A d \in BuyerCall : step'[d] = "paid" => step[d] = "paid"
    BY <1>4
  <2> QED
    BY <1>1, <1>6, <1>8, <2>1, <2>2 DEF BuyerInv, PaymentsSigned, ledgerVars
<1> QED  BY <1>2, <1>3, <1>5, <1>7, <1>9 DEF BuyerInv

(* What is signed is a new authorization, or one that was signed for the   *)
(* same key and terms.                                                     *)
LEMMA SignKeeps ==
  ASSUME BuyerInv, NEW c \in BuyerCall, NEW n \in ReplayKey, SignAndSend(c, n)
  PROVE  BuyerInv'
<1> DEFINE m == [call |-> c, key |-> serverKey(c), replayKey |-> n,
                 terms |-> challenge[c]]
<1>1. /\ step[c] = "sign" /\ step' = [step EXCEPT ![c] = "sent"]
      /\ signature' = [signature EXCEPT ![c] = n]
      /\ sent' = sent \cup {m}
      /\ UNCHANGED <<ledgerVars, required, key, body, challenge, approved>>
  BY DEF SignAndSend, Send, Move
<1>2. n # Nothing /\ signature[c] = Nothing
  BY <1>1, LedgerAssumption DEF BuyerInv, CallsSound
<1>3. /\ key[c] \in Key /\ serverKey(c) \in Key /\ challenge[c] \in Terms
      /\ <<c, challenge[c]>> \in approved
  BY <1>1 DEF BuyerInv, BuyerTypeOK, CallsSound, serverKey, keySeen
<1>4. /\ signature'[c] = n /\ step'[c] = "sent"
      /\ \A d \in BuyerCall : d # c => /\ signature'[d] = signature[d]
                                       /\ step'[d] = step[d]
      /\ \A d \in BuyerCall : serverKey(d)' = serverKey(d)
  BY <1>1 DEF BuyerInv, BuyerTypeOK, serverKey
<1>5. m \in Message /\ m.call = c /\ m.key = serverKey(c) /\ m.replayKey = n
  BY <1>3 DEF Message
<1> HIDE DEF m
<1>6. LedgerInv'
  BY <1>1 DEF BuyerInv, LedgerInv, ledgerVars
<1>7. BuyerTypeOK'
  BY <1>1, <1>5 DEF BuyerInv, BuyerTypeOK, ledgerVars
<1>8. CallsSound'
  <2>1. \A d \in BuyerCall :
          signature[d] # Nothing /\ NonceOf[signature[d]] = NonceOf[n]
            => key[d] = key[c]
    BY DEF SignAndSend, MaySign
  <2> QED
    BY <1>1, <1>3, <1>4, <2>1 DEF BuyerInv, CallsSound
<1>9. MessagesSound'
  <2>1. \A q \in sent : q.call \in BuyerCall /\ q.call # c
    BY <1>1, <1>2, LedgerAssumption
    DEF BuyerInv, BuyerTypeOK, Message, MessagesSound
  <2> QED
    BY <1>1, <1>4, <1>5, <2>1 DEF BuyerInv, MessagesSound
<1>10. PaymentsSigned'
  <2>1. \A k \in Key : payment[k] # Nothing => Signed(k, payment[k])'
    <3> SUFFICES ASSUME NEW k \in Key, payment[k] # Nothing
                 PROVE  Signed(k, payment[k])'
      OBVIOUS
    <3>1. PICK d \in BuyerCall : /\ step[d] # "new" /\ signature[d] = payment[k]
                                /\ serverKey(d) = k
      BY DEF BuyerInv, PaymentsSigned, Signed
    <3>2. d # c
      BY <1>2, <3>1
    <3> QED  BY <1>1, <1>4, <3>1, <3>2 DEF Signed, ledgerVars
  <2>2. payment' = payment /\ used' = used /\ answer' = answer
    BY <1>1 DEF ledgerVars
  <2> QED
    BY <1>4, <2>1, <2>2 DEF BuyerInv, PaymentsSigned
<1> QED  BY <1>6, <1>7, <1>8, <1>9, <1>10 DEF BuyerInv

(* A call reports payment of a purchase that is fulfilled by what it       *)
(* signed.                                                                 *)
LEMMA PaidKeeps ==
  ASSUME BuyerInv, NEW c \in BuyerCall, Paid(c)
  PROVE  BuyerInv'
<1>1. /\ step[c] = "sent" /\ step' = [step EXCEPT ![c] = "paid"]
      /\ phase[serverKey(c)] = "fulfilled" /\ payment[serverKey(c)] = signature[c]
      /\ UNCHANGED <<ledgerVars, required, key, body, challenge, signature,
                     sent, approved>>
  BY DEF Paid, Move
<1>2. /\ step'[c] = "paid"
      /\ \A d \in BuyerCall : d # c => step'[d] = step[d]
      /\ \A d \in BuyerCall : serverKey(d)' = serverKey(d)
  BY <1>1 DEF BuyerInv, BuyerTypeOK, serverKey
<1>3. key[c] \in Key /\ serverKey(c) \in Key
  BY <1>1 DEF BuyerInv, BuyerTypeOK, CallsSound, serverKey, keySeen
<1>4. NonceOf[signature[c]] \in used /\ answer[serverKey(c)] # Nothing
  BY <1>1, <1>3, LedgerAssumption DEF BuyerInv, LedgerInv
<1>5. LedgerInv' /\ MessagesSound'
  <2>1. \A m \in sent : m.call \in BuyerCall
    BY DEF BuyerInv, BuyerTypeOK, Message
  <2> QED
    BY <1>1, <1>2, <2>1 DEF BuyerInv, LedgerInv, ledgerVars, MessagesSound
<1>6. BuyerTypeOK'
  BY <1>1 DEF BuyerInv, BuyerTypeOK, ledgerVars, Ended
<1>7. CallsSound'
  BY <1>1, <1>2, <1>3 DEF BuyerInv, CallsSound
<1>8. \A k \in Key : \A n : Signed(k, n) => Signed(k, n)'
  BY <1>1, <1>2 DEF Signed
<1>9. PaymentsSigned'
  BY <1>1, <1>2, <1>4, <1>8 DEF BuyerInv, PaymentsSigned, ledgerVars
<1> QED  BY <1>5, <1>6, <1>7, <1>9 DEF BuyerInv

(* A step of the server or the chain that reserves only what the message   *)
(* of a call asks for, and uses only what is reserved.                     *)
LEMMA ServerStepKeeps ==
  ASSUME BuyerInv, [LedgerNext]_ledgerVars, UNCHANGED buyerSide,
         sent' \subseteq sent, required' \in Terms,
         \A k \in Key : payment'[k] \in {payment[k], Nothing} \/
                        Signed(k, payment'[k]),
         \A n \in used' \ used :
           \E k \in Key : payment[k] # Nothing /\ NonceOf[payment[k]] = n
  PROVE  BuyerInv'
<1> USE DEF buyerSide
<1>0. LedgerInv' /\ LedgerKeeps
  BY LedgerStep DEF BuyerInv
<1>1. BuyerTypeOK'
  BY <1>0 DEF BuyerInv, BuyerTypeOK, LedgerInv, Phases
<1>2. CallsSound' /\ MessagesSound'
  BY DEF BuyerInv, CallsSound, MessagesSound, serverKey
<1>3. PaymentsSigned'
  <2>1. \A k \in Key : payment'[k] # Nothing => Signed(k, payment[k])'
    <3>1. \A k \in Key : payment'[k] # Nothing => Signed(k, payment'[k])
      BY DEF BuyerInv, PaymentsSigned
    <3> QED  BY <3>1 DEF Signed, serverKey
  <2>2. \A n \in used' :
          \E k \in Key : payment'[k] # Nothing /\ NonceOf[payment'[k]] = n
    <3> SUFFICES ASSUME NEW n \in used'
                 PROVE  \E k \in Key : payment'[k] # Nothing /\ NonceOf[payment'[k]] = n
      OBVIOUS
    <3>1. PICK k \in Key : payment[k] # Nothing /\ NonceOf[payment[k]] = n
      BY DEF BuyerInv, PaymentsSigned
    <3> QED  BY <1>0, <3>1 DEF LedgerKeeps
  <2>3. \A c \in BuyerCall : step[c] = "paid" =>
          NonceOf[signature[c]] \in used' /\ answer'[serverKey(c)] # Nothing
    <3>1. \A c \in BuyerCall : step[c] = "paid" => serverKey(c) \in Key
      BY DEF BuyerInv, BuyerTypeOK, CallsSound, serverKey, keySeen
    <3> QED  BY <1>0, <3>1 DEF BuyerInv, PaymentsSigned, LedgerKeeps
  <2>4. \A c \in BuyerCall : serverKey(c)' = serverKey(c)
    BY DEF serverKey
  <2> QED  BY <2>1, <2>2, <2>3, <2>4 DEF PaymentsSigned
<1> QED  BY <1>0, <1>1, <1>2, <1>3 DEF BuyerInv

LEMMA ReceiveKeeps ==
  ASSUME BuyerInv, NEW m \in sent, Receive(m)
  PROVE  BuyerInv'
<1>1. /\ m.call \in BuyerCall /\ m.key \in Key /\ m.replayKey \in ReplayKey
      /\ Signed(m.key, m.replayKey)
  BY DEF BuyerInv, BuyerTypeOK, Message, MessagesSound, Signed
<1>2. /\ UNCHANGED buyerSide /\ sent' \subseteq sent /\ required' \in Terms
  BY DEF Receive, BuyerInv, BuyerTypeOK
<1>3. CASE UNCHANGED ledgerVars
  BY <1>2, <1>3, ServerStepKeeps DEF ledgerVars
<1>4. CASE Reserve(m.key, m.replayKey)
  <2>1. \A k \in Key : /\ k = m.key => payment'[k] = m.replayKey
                       /\ k # m.key => payment'[k] = payment[k]
    BY <1>4 DEF Reserve, BuyerInv, LedgerInv
  <2>2. used' = used /\ LedgerNext
    BY <1>1, <1>4 DEF Reserve, LedgerNext
  <2> QED
    BY <1>1, <1>2, <2>1, <2>2, ServerStepKeeps
<1> QED  BY <1>3, <1>4 DEF Receive

LEMMA ServeKeeps ==
  ASSUME BuyerInv, NEW k \in Key, Serve(k)
  PROVE  BuyerInv'
<1>1. /\ UNCHANGED buyerSide /\ sent' \subseteq sent /\ required' \in Terms
      /\ payment' = payment /\ used' = used
  BY DEF Serve, Pay, Fulfil, BuyerInv, BuyerTypeOK
<1>2. LedgerNext
  BY DEF Serve, LedgerNext
<1> QED  BY <1>1, <1>2, ServerStepKeeps

LEMMA TransferKeeps ==
  ASSUME BuyerInv, NEW n \in Nonce, Transfer(n)
  PROVE  BuyerInv'
<1>1. /\ UNCHANGED buyerSide /\ sent' \subseteq sent /\ required' \in Terms
      /\ payment' = payment
      /\ used' = used \cup {n}
      /\ \E k \in Key : payment[k] # Nothing /\ NonceOf[payment[k]] = n
  BY DEF Transfer, Use, BuyerInv, BuyerTypeOK
<1>2. LedgerNext
  BY DEF Transfer, LedgerNext
<1> QED  BY <1>1, <1>2, ServerStepKeeps

LEMMA RepriceKeeps ==
  ASSUME BuyerInv, Reprice
  PROVE  BuyerInv'
  BY ServerStepKeeps DEF Reprice, ledgerVars

LEMMA BuyerInvNext == BuyerInv /\ [BuyerNext]_buyerVars => BuyerInv'
<1> SUFFICES ASSUME BuyerInv, [BuyerNext]_buyerVars PROVE BuyerInv'
  OBVIOUS
<1>1. CASE UNCHANGED buyerVars
  BY <1>1 DEF buyerVars, buyerSide, ledgerVars, BuyerInv, BuyerTypeOK,
              LedgerInv, CallsSound, MessagesSound, PaymentsSigned, Signed,
              serverKey
<1>2. CASE BuyerNext
  BY <1>2, CallStepKeeps, SignKeeps, PaidKeeps, ReceiveKeeps, ServeKeeps,
     TransferKeeps, RepriceKeeps DEF BuyerNext
<1> QED  BY <1>1, <1>2

(* Whatever is lost, repriced or called again, what is charged was signed  *)
(* after a person approved those terms in a call (request() asks, approves,*)
(* signs and sends in this order), and pays under the key by which the     *)
(* server saw that call, once for each such key.                           *)
THEOREM BuyerSafe == BuyerSpec => [](BuyerTypeOK /\ PaidAsApproved)
<1>1. BuyerSpec => []BuyerInv
  BY BuyerInvInit, BuyerInvNext, PTL DEF BuyerSpec
<1> QED  BY <1>1, BuyerInvImplies, PTL

-----------------------------------------------------------------------------
(* Whether a payment was settled (SettlementAuthority).                    *)

(* An endpoint shows what the chain had: a transaction below the head it   *)
(* shows is on the chain still, one at the head may have moved, upwards.   *)
ViewsSound ==
  \A u \in Endpoints :
    /\ view[u].head <= chain.head
    /\ view[u].block # 0 => chain.block = 0 \/ chain.block >= view[u].block
    /\ view[u].block # 0 /\ view[u].block < view[u].head =>
         chain.block = view[u].block /\ chain.tx = view[u].tx

(* The anchor was captured before the question was asked, and what was     *)
(* found in the logs is not below it.                                      *)
AnchorSound ==
  /\ anchor <= chain.head
  /\ place # "idle" => anchor # 0
  /\ place \in {"receipt", "verify", "head", "compare", "settled"} =>
       chain.block = 0 \/ chain.block >= anchor

(* Each endpoint is asked about the transaction of the logs.               *)
QuestionSound ==
  /\ place \in {"chain", "logs", "receipt"} =>
       turn = 1 /\ \A u \in Endpoints : proofs[u] = NoProof
  /\ place \in {"verify", "head"} => turn \in 1 .. Len(urls)
  /\ place = "head" => OneCandidate(match) /\ receipt # 0
  /\ place = "settled" =>
       \E u \in Endpoints : proofs[u] # NoProof /\ proofs[u].confirmations >= 2

(* A proof of two confirmations is about a block that cannot be replaced.  *)
ProofsSound ==
  \A u \in Endpoints :
    proofs[u] # NoProof =>
      /\ OneCandidate(match)
      /\ ~moved /\ proofs[u].confirmations >= 2 =>
           /\ chain.block = proofs[u].block /\ chain.tx = match
           /\ chain.block < chain.head

AuthorityInv ==
  /\ AuthorityTypeOK /\ ViewsSound /\ AnchorSound /\ QuestionSound
  /\ ProofsSound

LEMMA UrlsRange ==
  /\ Len(urls) \in Nat \ {0} /\ Primary \in Endpoints
  /\ \A i \in 1 .. Len(urls) : urls[i] \in Endpoints
  BY AuthorityAssumption DEF Endpoints, Primary

LEMMA ChainFields ==
  \A c : c \in Chain <=>
    /\ c \in [head : 1 .. MaxHeight, block : 0 .. MaxHeight, tx : Transaction]
    /\ c.head \in Nat /\ c.head >= 1 /\ c.head <= MaxHeight
    /\ c.block \in Nat /\ c.block <= c.head /\ c.tx \in Transaction
    /\ c.block = 0 <=> c.tx = "none"
  BY AuthorityAssumption DEF Chain

LEMMA CandidateUsed == ~OneCandidate("none")
  BY DEF OneCandidate, decodeTransfers

LEMMA AuthorityInvInit == AuthorityInit => AuthorityInv
<1> SUFFICES ASSUME AuthorityInit PROVE AuthorityInv
  OBVIOUS
<1>1. chain = [head |-> 1, block |-> 0, tx |-> "none"] /\ chain \in Chain
  BY AuthorityAssumption DEF AuthorityInit, Chain, Transaction
<1>2. \A u \in Endpoints : view[u] = chain
  BY DEF AuthorityInit
<1>3. AuthorityTypeOK
  <2>1. /\ turn = 1 /\ receipt = 0 /\ anchor = 0 /\ reorgs = 0
        /\ match = "none" /\ place = "idle" /\ moved = FALSE
        /\ view = [u \in Endpoints |-> chain]
        /\ proofs = [u \in Endpoints |-> NoProof]
    BY DEF AuthorityInit
  <2>2. 1 \in 1 .. Len(urls) + 1 /\ 0 \in 0 .. MaxHeight /\ 0 \in 0 .. MaxReorg
    BY UrlsRange, AuthorityAssumption
  <2> QED  BY <1>1, <2>1, <2>2 DEF AuthorityTypeOK, Transaction
<1>4. ViewsSound /\ AnchorSound /\ QuestionSound /\ ProofsSound
  BY <1>1, <1>2
  DEF AuthorityInit, ViewsSound, AnchorSound, QuestionSound, ProofsSound
<1> QED  BY <1>3, <1>4 DEF AuthorityInv

(* What the chain may do to what is known about it: it never shrinks, a    *)
(* transaction is at or above the old head when it moves, and one below    *)
(* the head does not move.                                                 *)
ChainMoves ==
  /\ chain' \in Chain
  /\ chain.head <= chain'.head
  /\ chain'.block \in {0, chain.block} \/ chain'.block >= chain.head
  /\ chain.block # 0 /\ chain.block < chain.head =>
       chain'.block = chain.block /\ chain'.tx = chain.tx

LEMMA MineMoves == AuthorityTypeOK /\ Mine => ChainMoves
<1> SUFFICES ASSUME AuthorityTypeOK, Mine PROVE ChainMoves
  OBVIOUS
<1>1. /\ chain \in [head : 1 .. MaxHeight, block : 0 .. MaxHeight, tx : Transaction]
      /\ chain.head \in Nat /\ chain.block \in Nat
      /\ chain.block <= chain.head /\ chain.head < MaxHeight
      /\ MaxHeight \in Nat /\ (chain.block = 0 <=> chain.tx = "none")
  BY AuthorityAssumption, ChainFields DEF AuthorityTypeOK, Mine
<1>2. CASE chain' = [chain EXCEPT !.head = @ + 1]
  <2>1. chain' = [head |-> chain.head + 1, block |-> chain.block, tx |-> chain.tx]
    BY <1>1, <1>2
  <2>2. /\ chain'.head = chain.head + 1 /\ chain'.block = chain.block
        /\ chain'.tx = chain.tx
    BY <2>1
  <2>3. chain' \in [head : 1 .. MaxHeight, block : 0 .. MaxHeight, tx : Transaction]
    BY <1>1, <2>1
  <2>4. chain' \in Chain
    BY <1>1, <2>2, <2>3 DEF Chain
  <2> QED  BY <1>1, <2>2, <2>4 DEF ChainMoves
<1>3. ASSUME chain.tx = "none", NEW tx \in Transaction \ {"none"},
             chain' = [head |-> chain.head + 1, block |-> chain.head + 1, tx |-> tx]
      PROVE  ChainMoves
  BY <1>1, <1>3 DEF ChainMoves, Chain, Transaction
<1> QED  BY <1>2, <1>3 DEF Mine

LEMMA ReorgMoves == AuthorityTypeOK /\ Reorg => ChainMoves
<1> SUFFICES ASSUME AuthorityTypeOK, Reorg PROVE ChainMoves
  OBVIOUS
<1>1. /\ chain.head \in 1 .. MaxHeight /\ chain.head > 1 /\ MaxHeight \in Nat
      /\ chain.block \in {0, chain.head}
  BY AuthorityAssumption, ChainFields DEF AuthorityTypeOK, Reorg
<1>2. PICK tx \in Transaction :
        chain' = [head |-> chain.head, tx |-> tx,
                  block |-> IF tx = "none" THEN 0 ELSE chain.head]
  BY DEF Reorg
<1>3. /\ chain'.head = chain.head /\ chain'.tx = tx
      /\ chain'.block = IF tx = "none" THEN 0 ELSE chain.head
      /\ chain' \in [head : 1 .. MaxHeight, block : 0 .. MaxHeight, tx : Transaction]
  BY <1>1, <1>2
<1>4. chain' \in Chain
  <2>1. chain'.block <= chain'.head /\ (chain'.block = 0 <=> chain'.tx = "none")
    BY <1>1, <1>3
  <2> QED  BY <1>3, <2>1 DEF Chain
<1>5. ~(chain.block # 0 /\ chain.block < chain.head)
  BY <1>1
<1>6. chain.head <= chain'.head
  BY <1>1, <1>3
<1>7. chain'.block = 0 \/ chain'.block >= chain.head
  BY <1>1, <1>3
<1> QED  BY <1>4, <1>5, <1>6, <1>7 DEF ChainMoves

LEMMA ChainMovesKeeps ==
  ASSUME AuthorityInv, ChainMoves, reorgs' \in 0 .. MaxReorg,
         UNCHANGED <<view, anchor, questionVars>>
  PROVE  AuthorityInv'
<1> USE DEF questionVars, AuthorityInv
<1>1. /\ chain.head \in Nat /\ chain.block \in Nat /\ anchor \in Nat
      /\ chain'.head \in Nat /\ chain'.block \in Nat
      /\ \A u \in Endpoints : /\ view[u].head \in Nat /\ view[u].block \in Nat
                              /\ view[u].block <= view[u].head
  BY ChainFields, AuthorityAssumption DEF ChainMoves, AuthorityTypeOK
<1>2. AuthorityTypeOK'
  BY DEF AuthorityTypeOK, ChainMoves
<1>3. ViewsSound'
  BY <1>1 DEF ViewsSound, ChainMoves
<1>4. AnchorSound'
  BY <1>1 DEF AnchorSound, ChainMoves
<1>5. QuestionSound'
  BY DEF QuestionSound
<1>6. ProofsSound'
  <2>1. \A u \in Endpoints : proofs[u] # NoProof => proofs[u].block # 0
    BY AuthorityAssumption DEF AuthorityTypeOK, Proof
  <2> QED  BY <1>1, <2>1 DEF ProofsSound, ChainMoves
<1> QED  BY <1>2, <1>3, <1>4, <1>5, <1>6

(* An endpoint comes to show a prefix of the chain.                        *)
LEMMA SyncKeeps ==
  ASSUME AuthorityInv, NEW u \in Endpoints, Sync(u)
  PROVE  AuthorityInv'
<1> USE DEF AuthorityInv
<1>1. PICK h \in 1 .. chain.head : view' = [view EXCEPT ![u] = UpTo(h)]
  BY DEF Sync
<1>2. /\ chain.head \in 1 .. MaxHeight /\ chain.block \in 0 .. chain.head
      /\ chain.tx \in Transaction /\ MaxHeight \in Nat
      /\ chain.block = 0 <=> chain.tx = "none"
      /\ chain \in [head : 1 .. MaxHeight, block : 0 .. MaxHeight, tx : Transaction]
  BY ChainFields, AuthorityAssumption DEF AuthorityTypeOK
<1>3. /\ UpTo(h) \in Chain /\ UpTo(h).head = h
      /\ UpTo(h).block # 0 => /\ UpTo(h).block = chain.block
                              /\ UpTo(h).tx = chain.tx
  <2>1. CASE chain.block <= h
    <3>1. UpTo(h) = [head |-> h, block |-> chain.block, tx |-> chain.tx]
      BY <1>2, <2>1 DEF UpTo
    <3> QED  BY <1>1, <1>2, <2>1, <3>1 DEF Chain
  <2>2. CASE ~(chain.block <= h)
    <3>1. UpTo(h) = [head |-> h, block |-> 0, tx |-> "none"]
      BY <2>2 DEF UpTo
    <3> QED  BY <1>1, <1>2, <3>1 DEF Chain, Transaction
  <2> QED  BY <2>1, <2>2
<1> HIDE DEF UpTo
<1>4. AuthorityTypeOK'
  BY <1>1, <1>3 DEF Sync, AuthorityTypeOK, questionVars
<1>5. ViewsSound'
  <2>1. /\ view'[u] = UpTo(h)
        /\ \A v \in Endpoints : v # u => view'[v] = view[v]
    BY <1>1 DEF AuthorityTypeOK
  <2>2. h <= chain.head /\ chain' = chain
    BY <1>1, <1>2 DEF Sync
  <2>3. UpTo(h).block \in Nat
    BY <1>3, ChainFields
  <2> QED  BY <1>2, <1>3, <2>1, <2>2, <2>3 DEF ViewsSound
<1>6. AnchorSound' /\ QuestionSound' /\ ProofsSound'
  BY DEF Sync, questionVars, AnchorSound, QuestionSound, ProofsSound
<1> QED  BY <1>4, <1>5, <1>6

LEMMA CaptureKeeps ==
  ASSUME AuthorityInv, Capture
  PROVE  AuthorityInv'
<1> USE DEF AuthorityInv
<1>1. /\ anchor = 0 /\ anchor' = view[Primary].head
      /\ UNCHANGED <<chain, reorgs, view, questionVars>>
  BY DEF Capture
<1>2. place = "idle"
  BY <1>1 DEF AnchorSound
<1>3. /\ view[Primary].head \in 1 .. MaxHeight
      /\ view[Primary].head <= chain.head
  BY UrlsRange, ChainFields DEF AuthorityTypeOK, ViewsSound
<1>4. AuthorityTypeOK'
  BY <1>1, <1>3, AuthorityAssumption DEF AuthorityTypeOK, questionVars
<1>5. AnchorSound'
  BY <1>1, <1>2, <1>3 DEF AnchorSound, questionVars
<1>6. ViewsSound' /\ QuestionSound' /\ ProofsSound'
  BY <1>1 DEF ViewsSound, QuestionSound, ProofsSound, questionVars
<1> QED  BY <1>4, <1>5, <1>6

LEMMA AskKeeps ==
  ASSUME AuthorityInv, Ask
  PROVE  AuthorityInv'
<1> USE DEF AuthorityInv
<1>1. /\ anchor # 0 /\ place' = "chain" /\ match' = "none"
      /\ turn' = 1 /\ receipt' = 0 /\ moved' = FALSE
      /\ proofs' = [u \in Endpoints |-> NoProof]
      /\ UNCHANGED <<chain, reorgs, view, anchor>>
  BY DEF Ask
<1>2. 1 \in 1 .. Len(urls) + 1 /\ 0 \in 0 .. MaxHeight
  BY UrlsRange, AuthorityAssumption
<1>3. AuthorityTypeOK'
  BY <1>1, <1>2 DEF AuthorityTypeOK, Transaction
<1>4. ViewsSound' /\ AnchorSound'
  BY <1>1 DEF ViewsSound, AnchorSound
<1>5. QuestionSound' /\ ProofsSound'
  BY <1>1 DEF QuestionSound, ProofsSound
<1> QED  BY <1>3, <1>4, <1>5

(* What the logs show was on the chain at or after the anchor; by now it   *)
(* may have moved, upwards.                                                *)
LEMMA LookupKeeps ==
  ASSUME AuthorityInv, ReadChain \/ ReadLogs \/ ReadReceipt \/ Unanswered
  PROVE  AuthorityInv'
<1> USE DEF AuthorityInv
<1>1. /\ place \in {"chain", "logs", "receipt"}
      /\ place' \in {"logs", "receipt", "verify", "unknown"}
      /\ place' = "verify" => place = "receipt"
      /\ place' = "receipt" => place = "logs"
      /\ UNCHANGED <<chain, reorgs, view, anchor, turn, receipt, proofs, moved>>
      /\ match' \in {match, view[Primary].tx}
  BY DEF ReadChain, ReadLogs, ReadReceipt, Unanswered, To
<1>2. view[Primary] \in Chain /\ view[Primary].tx \in Transaction
  BY UrlsRange, ChainFields DEF AuthorityTypeOK
<1>3. AuthorityTypeOK'
  BY <1>1, <1>2 DEF AuthorityTypeOK
<1>4. place' = "receipt" => view[Primary].block >= anchor /\ view[Primary].block # 0
  BY <1>2, ChainFields DEF ReadChain, ReadLogs, ReadReceipt, Unanswered, To
<1>5. AnchorSound'
  <2>1. /\ chain.block \in Nat /\ anchor \in Nat /\ view[Primary].block \in Nat
    BY <1>2, ChainFields, AuthorityAssumption DEF AuthorityTypeOK
  <2>2. CASE place' = "receipt"
    BY <1>1, <1>4, <2>1, <2>2, UrlsRange DEF AnchorSound, ViewsSound
  <2>3. CASE place' # "receipt"
    BY <1>1, <2>3 DEF AnchorSound
  <2> QED  BY <2>2, <2>3
<1>6. ViewsSound' /\ ProofsSound' /\ QuestionSound'
  BY <1>1, UrlsRange DEF ViewsSound, ProofsSound, QuestionSound
<1> QED  BY <1>3, <1>5, <1>6

(* The question goes on to the next endpoint or, after the last, compares. *)
LEMMA NextEndpointTurn ==
  ASSUME AuthorityInv, place \in {"verify", "head"}, NextEndpoint
  PROVE  /\ turn' \in 1 .. Len(urls) + 1 /\ receipt' = 0
         /\ place' \in {"verify", "compare"}
         /\ place' = "verify" => turn' \in 1 .. Len(urls)
         /\ UNCHANGED <<chain, reorgs, view, anchor, match>>
<1>1. /\ turn \in 1 .. Len(urls) /\ Len(urls) \in Nat /\ turn' = turn + 1
      /\ place' = IF turn = Len(urls) THEN "compare" ELSE "verify"
  BY UrlsRange DEF NextEndpoint, Answered, AuthorityInv, QuestionSound
<1>2. receipt' = 0 /\ UNCHANGED <<chain, reorgs, view, anchor, match>>
  BY DEF NextEndpoint, Answered
<1> QED  BY <1>1, <1>2

LEMMA VerifyReceiptKeeps ==
  ASSUME AuthorityInv, VerifyReceipt
  PROVE  AuthorityInv'
<1> USE DEF AuthorityInv
<1>1. /\ place = "verify" /\ place' = "head" /\ OneCandidate(match)
      /\ view[urls[turn]].tx = match /\ receipt' = view[urls[turn]].block
      /\ UNCHANGED <<chain, reorgs, view, anchor, match, turn, proofs, moved>>
  BY DEF VerifyReceipt, Answered, rpc
<1>2. view[urls[turn]] \in Chain
  BY <1>1, UrlsRange DEF AuthorityTypeOK, QuestionSound
<1>3. receipt' \in 1 .. MaxHeight
  BY <1>1, <1>2, CandidateUsed, ChainFields, AuthorityAssumption
<1>4. AuthorityTypeOK'
  BY <1>1, <1>3 DEF AuthorityTypeOK
<1>5. QuestionSound'
  BY <1>1, <1>3 DEF QuestionSound
<1>6. ViewsSound' /\ AnchorSound' /\ ProofsSound'
  BY <1>1 DEF ViewsSound, AnchorSound, ProofsSound
<1> QED  BY <1>4, <1>5, <1>6

(* An endpoint that still shows the transaction in the block of the        *)
(* receipt, below its head, proves what the chain can no longer change.    *)
LEMMA VerifyHeadKeeps ==
  ASSUME AuthorityInv, VerifyHead
  PROVE  AuthorityInv'
<1> USE DEF AuthorityInv
<1> DEFINE u == urls[turn]
           p == [block |-> receipt, confirmations |-> view[u].head - receipt + 1]
<1>1. /\ place = "head" /\ view[u].head >= receipt
      /\ proofs' = [proofs EXCEPT ![u] = p]
      /\ moved' = (moved \/ view[u].tx # match \/ view[u].block # receipt)
      /\ NextEndpoint
  BY DEF VerifyHead, Prove, rpc
<1>2. /\ turn' \in 1 .. Len(urls) + 1 /\ receipt' = 0
      /\ place' \in {"verify", "compare"}
      /\ place' = "verify" => turn' \in 1 .. Len(urls)
      /\ UNCHANGED <<chain, reorgs, view, anchor, match>>
  BY <1>1, NextEndpointTurn
<1>3. u \in Endpoints /\ view[u] \in Chain /\ OneCandidate(match)
  BY <1>1, UrlsRange DEF AuthorityTypeOK, QuestionSound
<1>4. /\ receipt \in 1 .. MaxHeight /\ view[u].head \in 1 .. MaxHeight
      /\ view[u].block \in Nat /\ chain.head \in Nat /\ MaxHeight \in Nat
  BY <1>1, <1>3, ChainFields, AuthorityAssumption
  DEF AuthorityTypeOK, QuestionSound
<1>5. p \in Proof /\ p.block = receipt
      /\ p.confirmations = view[u].head - receipt + 1
  BY <1>1, <1>4 DEF Proof
<1>6. ~moved' /\ p.confirmations >= 2 =>
        /\ chain.block = p.block /\ chain.tx = match /\ chain.block < chain.head
  <2>1. ~moved' => view[u].tx = match /\ view[u].block = receipt
    BY <1>1
  <2>2. p.confirmations >= 2 => view[u].head > receipt
    BY <1>4, <1>5
  <2>3. /\ view[u].head <= chain.head
        /\ view[u].block # 0 /\ view[u].block < view[u].head =>
             chain.block = view[u].block /\ chain.tx = view[u].tx
    BY <1>3 DEF ViewsSound
  <2> HIDE DEF u, p
  <2> QED  BY <1>4, <1>5, <2>1, <2>2, <2>3
<1> HIDE DEF u, p
<1>7. AuthorityTypeOK'
  <2>1. proofs' \in [Endpoints -> Proof \cup {NoProof}]
    BY <1>1, <1>3, <1>5 DEF AuthorityTypeOK
  <2>2. moved' \in BOOLEAN
    BY <1>1
  <2>3. 0 \in 0 .. MaxHeight
    BY <1>4
  <2> QED  BY <1>2, <2>1, <2>2, <2>3 DEF AuthorityTypeOK
<1>8. ProofsSound'
  <2>1. /\ proofs'[u] = p
        /\ \A v \in Endpoints : v # u => proofs'[v] = proofs[v]
    BY <1>1, <1>3 DEF AuthorityTypeOK
  <2>2. moved => moved'
    BY <1>1
  <2> QED  BY <1>2, <1>3, <1>6, <2>1, <2>2 DEF ProofsSound
<1>9. ViewsSound' /\ AnchorSound' /\ QuestionSound'
  BY <1>1, <1>2 DEF ViewsSound, AnchorSound, QuestionSound
<1> QED  BY <1>7, <1>8, <1>9

LEMMA VerifyFailsKeeps ==
  ASSUME AuthorityInv, VerifyFails
  PROVE  AuthorityInv'
<1> USE DEF AuthorityInv
<1>1. /\ place \in {"verify", "head"} /\ NextEndpoint
      /\ proofs' = proofs /\ moved' = moved
  BY DEF VerifyFails
<1>2. /\ turn' \in 1 .. Len(urls) + 1 /\ receipt' = 0
      /\ place' \in {"verify", "compare"}
      /\ place' = "verify" => turn' \in 1 .. Len(urls)
      /\ UNCHANGED <<chain, reorgs, view, anchor, match>>
  BY <1>1, NextEndpointTurn
<1>3. 0 \in 0 .. MaxHeight
  BY AuthorityAssumption
<1>4. AuthorityTypeOK'
  BY <1>1, <1>2, <1>3 DEF AuthorityTypeOK
<1>5. ViewsSound' /\ AnchorSound' /\ QuestionSound' /\ ProofsSound'
  BY <1>1, <1>2 DEF ViewsSound, AnchorSound, QuestionSound, ProofsSound
<1> QED  BY <1>4, <1>5

LEMMA CompareKeeps ==
  ASSUME AuthorityInv, Compare
  PROVE  AuthorityInv'
<1> USE DEF AuthorityInv
<1> DEFINE given == {proofs[u] : u \in Endpoints} \ {NoProof}
<1>1. /\ place = "compare" /\ place' \in {"settled", "unknown"}
      /\ place' = "settled" => \E p \in given : p.confirmations >= 2
      /\ UNCHANGED <<chain, reorgs, view, anchor, match, turn, receipt,
                     proofs, moved>>
  BY DEF Compare, Answered, DEFAULT_MIN_CONFIRMATIONS
<1>2. AuthorityTypeOK'
  BY <1>1 DEF AuthorityTypeOK
<1>3. QuestionSound'
  BY <1>1 DEF QuestionSound
<1>4. ViewsSound' /\ AnchorSound' /\ ProofsSound'
  BY <1>1 DEF ViewsSound, AnchorSound, ProofsSound
<1> QED  BY <1>2, <1>3, <1>4

LEMMA AuthorityInvNext ==
  AuthorityInv /\ [AuthorityNext]_authorityVars => AuthorityInv'
<1> SUFFICES ASSUME AuthorityInv, [AuthorityNext]_authorityVars
             PROVE  AuthorityInv'
  OBVIOUS
<1>1. CASE Mine \/ Reorg
  <2>1. ChainMoves
    BY <1>1, MineMoves, ReorgMoves DEF AuthorityInv
  <2>2. reorgs' \in 0 .. MaxReorg
    <3>1. reorgs \in 0 .. MaxReorg /\ MaxReorg \in Nat
      BY AuthorityAssumption DEF AuthorityInv, AuthorityTypeOK
    <3> QED  BY <1>1, <3>1 DEF Mine, Reorg
  <2>3. UNCHANGED <<view, anchor, questionVars>>
    BY <1>1 DEF Mine, Reorg
  <2> QED  BY <2>1, <2>2, <2>3, ChainMovesKeeps
<1>2. CASE \E u \in Endpoints : Sync(u)
  BY <1>2, SyncKeeps
<1>3. CASE ReadChain \/ ReadLogs \/ ReadReceipt \/ Unanswered
  BY <1>3, LookupKeeps
<1>4. CASE UNCHANGED authorityVars
  BY <1>4 DEF authorityVars, questionVars, AuthorityInv, AuthorityTypeOK,
              ViewsSound, AnchorSound, QuestionSound, ProofsSound
<1> QED
  BY <1>1, <1>2, <1>3, <1>4, CaptureKeeps, AskKeeps, VerifyReceiptKeeps,
     VerifyHeadKeeps, VerifyFailsKeeps, CompareKeeps DEF AuthorityNext

LEMMA AuthorityInvImplies == AuthorityInv => AuthorityTypeOK /\ SettledIsFinal
<1> SUFFICES ASSUME AuthorityInv, place = "settled"
             PROVE  /\ OneCandidate(match)
                    /\ ~moved => /\ chain.tx = match
                                 /\ chain.block \in anchor .. chain.head - 1
  BY DEF AuthorityInv, SettledIsFinal
<1>1. PICK u \in Endpoints : proofs[u] # NoProof /\ proofs[u].confirmations >= 2
  BY DEF AuthorityInv, QuestionSound
<1>2. /\ OneCandidate(match)
      /\ ~moved => chain.tx = match /\ chain.block < chain.head
  BY <1>1 DEF AuthorityInv, ProofsSound
<1>3. /\ chain.block \in Nat /\ chain.head \in Nat /\ anchor \in Nat
      /\ chain.block = 0 <=> chain.tx = "none"
      /\ chain.block = 0 \/ chain.block >= anchor
  BY ChainFields, AuthorityAssumption
  DEF AuthorityInv, AuthorityTypeOK, AnchorSound
<1> QED  BY <1>2, <1>3, CandidateUsed

(* An answer "settled" of verifyOnchain is about the transaction that used *)
(* the authorization, which carries exactly one transfer as agreed; unless *)
(* an endpoint lost it between the calls for its receipt and for the head, *)
(* it is on the chain after the anchor and can no longer move.             *)
THEOREM AuthoritySafe == AuthoritySpec => [](AuthorityTypeOK /\ SettledIsFinal)
<1>1. AuthoritySpec => []AuthorityInv
  BY AuthorityInvInit, AuthorityInvNext, PTL DEF AuthoritySpec
<1> QED  BY <1>1, AuthorityInvImplies, PTL

-----------------------------------------------------------------------------
(* All four together (MCOperator).                                         *)

OperatorInv == WorkerInv /\ GateInv /\ BuyerInv /\ AuthorityInv

LEMMA OperatorInvInit == OperatorInit => OperatorInv
  BY WorkerInvInit, GateInvInit, BuyerInvInit, AuthorityInvInit
  DEF OperatorInit, OperatorInv

LEMMA OperatorParts ==
  [OperatorNext]_vars =>
    /\ [WorkerNext]_workerVars /\ [GateNext]_gateVars
    /\ [BuyerNext]_buyerVars /\ [AuthorityNext]_authorityVars
  BY DEF OperatorNext, vars

LEMMA OperatorInvNext == OperatorInv /\ [OperatorNext]_vars => OperatorInv'
  BY OperatorParts, WorkerInvNext, GateInvNext, BuyerInvNext, AuthorityInvNext
  DEF OperatorInv

(* All variables of the four parts have their types.                       *)
THEOREM OperatorTypes == OperatorSpec => []TypeOK
<1>1. OperatorSpec => []OperatorInv
  BY OperatorInvInit, OperatorInvNext, PTL DEF OperatorSpec
<1>2. OperatorInv => TypeOK
  BY WorkerInvImplies, GateInvImplies, BuyerInvImplies, AuthorityInvImplies
  DEF OperatorInv, TypeOK
<1> QED  BY <1>1, <1>2, PTL

(* What was shown of each part holds in the composition that is            *)
(* model-checked: the cursor covers its events, submissions are approved,  *)
(* the buyer pays what was approved, and settled is final.                 *)
THEOREM OperatorSafe ==
  OperatorSpec =>
    [](CursorCovers /\ SubmissionsApproved /\ PaidAsApproved /\ SettledIsFinal)
<1>1. OperatorSpec => []OperatorInv
  BY OperatorInvInit, OperatorInvNext, PTL DEF OperatorSpec
<1>2. OperatorInv =>
        CursorCovers /\ SubmissionsApproved /\ PaidAsApproved /\ SettledIsFinal
  BY WorkerInvImplies, GateInvImplies, BuyerInvImplies, AuthorityInvImplies
  DEF OperatorInv
<1> QED  BY <1>1, <1>2, PTL

=============================================================================
