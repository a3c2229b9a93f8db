--------------------------- MODULE SubmissionGate ---------------------------
(***************************************************************************)
(* From a bounty to a submission (lib/trybounty): job specifications are   *)
(* frozen from the bounty, manifests are generated for a specification, a  *)
(* person approves, and the gate compares the documents it is given.       *)
(*                                                                         *)
(* The documents are files of the operator, who may give any of them to    *)
(* the gate.  A hash covers the content and the time of its document; here *)
(* it is the ordinal of the document.  The gate compares the hashes        *)
(* written in the documents and does not compute them again, so a document *)
(* is taken to change only by being made anew.                             *)
(***************************************************************************)
EXTENDS Naturals, FiniteSets

CONSTANTS
  GateBounty,   \* bounties
  Deliverable,  \* what a buyer may ask to be delivered
  Criterion,    \* acceptance criteria
  MaxDocument   \* bound: job specifications and manifests that are made

ASSUME GateAssumption == MaxDocument \in Nat

VARIABLES
  jobs, manifests, approvals,   \* the documents made so far
  reviewed,     \* the <<job, manifest>> pairs a person approved
  submitted     \* the pairs the gate let through

gateVars == <<jobs, manifests, approvals, reviewed, submitted>>

Job ==
  [spec_hash : 1 .. MaxDocument, bounty_id : GateBounty,
   deliverables : SUBSET Deliverable, acceptance_criteria : SUBSET Criterion]
Manifest ==
  [manifest_hash : 1 .. MaxDocument, bounty_id : GateBounty,
   job_spec_hash : 1 .. MaxDocument, artifacts : SUBSET Deliverable,
   criteria : SUBSET Criterion, tests : BOOLEAN, secret_scan : BOOLEAN]
Approval ==
  [bounty_id : GateBounty, job_spec_hash : 1 .. MaxDocument,
   manifest_hash : 1 .. MaxDocument]

GateTypeOK ==
  /\ jobs \subseteq Job
  /\ manifests \subseteq Manifest
  /\ approvals \subseteq Approval
  /\ reviewed \subseteq jobs \X manifests
  /\ submitted \subseteq jobs \X manifests

GateInit ==
  /\ jobs = {} /\ manifests = {} /\ approvals = {}
  /\ reviewed = {} /\ submitted = {}

NextHash == Cardinality(jobs) + Cardinality(manifests) + 1

createJobSpec(bounty, deliverables, criteria) ==
  /\ NextHash <= MaxDocument
  /\ jobs' = jobs \cup
       {[spec_hash |-> NextHash, bounty_id |-> bounty,
         deliverables |-> deliverables, acceptance_criteria |-> criteria]}
  /\ UNCHANGED <<manifests, approvals, reviewed, submitted>>

(* What exists and passes when the manifest is generated: artifacts,       *)
(* criteria, all tests, the secret scan (absent counts as failed).         *)
createSubmissionManifest(job, artifacts, criteria, tests, secretScan) ==
  /\ NextHash <= MaxDocument
  /\ manifests' = manifests \cup
       {[manifest_hash |-> NextHash, bounty_id |-> job.bounty_id,
         job_spec_hash |-> job.spec_hash, artifacts |-> artifacts,
         criteria |-> criteria, tests |-> tests, secret_scan |-> secretScan]}
  /\ UNCHANGED <<jobs, approvals, reviewed, submitted>>

(* Nothing is checked here: a person may approve what is not ready.        *)
createApproval(job, manifest) ==
  /\ approvals' = approvals \cup
       {[bounty_id |-> job.bounty_id, job_spec_hash |-> job.spec_hash,
         manifest_hash |-> manifest.manifest_hash]}
  /\ reviewed' = reviewed \cup {<<job, manifest>>}
  /\ UNCHANGED <<jobs, manifests, submitted>>

(* Every deliverable exists, every criterion and test passes, the secret   *)
(* scan passed; a specification without deliverables or criteria is        *)
(* ambiguous, and ambiguity never becomes permission.                      *)
validateSubmission(job, manifest) ==
  /\ manifest.bounty_id = job.bounty_id
  /\ manifest.job_spec_hash = job.spec_hash
  /\ job.deliverables \subseteq manifest.artifacts
  /\ job.acceptance_criteria \subseteq manifest.criteria
  /\ manifest.tests /\ manifest.secret_scan
  /\ job.deliverables # {} /\ job.acceptance_criteria # {}

approvalMatches_AnyManifest(approval, job, manifest) ==
  /\ approval.bounty_id = job.bounty_id
  /\ approval.job_spec_hash = job.spec_hash

approvalMatches(approval, job, manifest) ==
  /\ approval.bounty_id = job.bounty_id
  /\ approval.job_spec_hash = job.spec_hash
  /\ approval.manifest_hash = manifest.manifest_hash

submissionGate(job, manifest, approval) ==
  /\ validateSubmission(job, manifest)
  /\ approvalMatches(approval, job, manifest)
  /\ submitted' = submitted \cup {<<job, manifest>>}
  /\ UNCHANGED <<jobs, manifests, approvals, reviewed>>

GateNext ==
  \/ \E bounty \in GateBounty, D \in SUBSET Deliverable, C \in SUBSET Criterion :
       \/ createJobSpec(bounty, D, C)
       \/ \E job \in jobs, tests \in BOOLEAN, scan \in BOOLEAN :
            createSubmissionManifest(job, D, C, tests, scan)
  \/ \E job \in jobs, manifest \in manifests :
       \/ createApproval(job, manifest)
       \/ \E approval \in approvals : submissionGate(job, manifest, approval)

GateSpec == GateInit /\ [][GateNext]_gateVars

-----------------------------------------------------------------------------
(* Submissions are approved. Whatever specifications and manifests are made*)
(* again after an approval, and whichever documents are put together at the*)
(* gate, it lets through only a pair that a person approved as that pair,  *)
(* the manifest being made for that very specification and showing every   *)
(* deliverable and acceptance criterion it names                           *)
(* (trybounty-safety-test.mjs:134-135: "Even valid work without approval   *)
(* MUST be blocked").  The required_files of a specification are compared  *)
(* with nothing in the code and are left out here.                         *)
SubmissionsApproved ==
  /\ submitted \subseteq reviewed
  /\ \A s \in submitted :
       /\ s[2].job_spec_hash = s[1].spec_hash
       /\ {} # s[1].deliverables /\ s[1].deliverables \subseteq s[2].artifacts
       /\ {} # s[1].acceptance_criteria
       /\ s[1].acceptance_criteria \subseteq s[2].criteria

=============================================================================
