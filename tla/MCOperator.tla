----------------------------- MODULE MCOperator -----------------------------
(***************************************************************************)
(* The parts at the edge of the server that are checked together: the      *)
(* TryBounty worker, the submission gate, the buyer's payment client and   *)
(* the question whether a payment was settled.  They share no state, so a  *)
(* behaviour is one of one part; `part` says of which.                     *)
(***************************************************************************)
EXTENDS BountyWorker, SubmissionGate, BuyerClient, SettlementAuthority, TLC

CONSTANTS rk1, rk2, n1, n2

(* Two authorizations, each spelled in one way.                            *)
SpelledAlone == [k \in ReplayKey |-> IF k = rk1 THEN n1 ELSE n2]

VARIABLE part

vars == <<part, workerVars, gateVars, buyerVars, authorityVars>>

TwoEndpoints == <<"primary", "fallback">>
AnyTerms == CHOOSE t \in Terms : TRUE

OperatorInit ==
  /\ part \in {"worker", "gate", "buyer", "authority"}
  /\ WorkerInit /\ GateInit /\ AuthorityInit
  /\ BuyerInit /\ (part = "buyer" \/ required = AnyTerms)

OperatorNext ==
  /\ UNCHANGED part
  /\ \/ /\ part = "worker" /\ WorkerNext
        /\ UNCHANGED <<gateVars, buyerVars, authorityVars>>
     \/ /\ part = "gate" /\ GateNext
        /\ UNCHANGED <<workerVars, buyerVars, authorityVars>>
     \/ /\ part = "buyer" /\ BuyerNext
        /\ UNCHANGED <<workerVars, gateVars, authorityVars>>
     \/ /\ part = "authority" /\ AuthorityNext
        /\ UNCHANGED <<workerVars, gateVars, buyerVars>>

OperatorFairness ==
  \A w \in Worker :
    WF_vars(/\ part = "worker" /\ Cycle(w)
            /\ UNCHANGED <<part, gateVars, buyerVars, authorityVars>>)

OperatorSpec == OperatorInit /\ [][OperatorNext]_vars /\ OperatorFairness

(* All variables of the four parts have their types.                       *)
TypeOK == WorkerTypeOK /\ GateTypeOK /\ BuyerTypeOK /\ AuthorityTypeOK
=============================================================================
