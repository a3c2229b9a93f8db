---------------------------- MODULE LedgerProofs ----------------------------
(***************************************************************************)
(* What the ledger of purchases promises, proved of the abstract ledger:   *)
(* Gate1B implements it, and the buyer's client (BuyerClient) and the paid *)
(* routes (RevenueFunnel) are modelled against it.                         *)
(***************************************************************************)
EXTENDS PurchaseLedger, TLAPS

Phases == {"none", "reserved", "paid", "fulfilled"}

(* A purchase has a replay key once it is reserved, and no other purchase  *)
(* has that one; the authorization that what is paid rests on was used;    *)
(* what is fulfilled, and nothing else, is answered.                       *)
LedgerInv ==
  /\ phase \in [Key -> Phases]
  /\ payment \in [Key -> ReplayKey \cup {Nothing}]
  /\ answer \in [Key -> Answer \cup {Nothing}]
  /\ used \subseteq Nonce
  /\ \A j, k \in Key : payment[j] = payment[k] /\ payment[k] # Nothing => j = k
  /\ \A k \in Key :
       /\ phase[k] = "none" <=> payment[k] = Nothing
       /\ phase[k] \in {"paid", "fulfilled"} => NonceOf[payment[k]] \in used
       /\ phase[k] = "fulfilled" <=> answer[k] \in Answer

(* A step never gives up a replay key, an answer, a used authorization     *)
(* or a purchase that is paid or fulfilled.                                *)
LedgerKeeps ==
  /\ \A k \in Key :
       /\ payment[k] # Nothing => payment'[k] = payment[k]
       /\ answer[k] # Nothing => answer'[k] = answer[k]
       /\ phase[k] = "fulfilled" => phase'[k] = "fulfilled"
       /\ phase[k] = "paid" => phase'[k] \in {"paid", "fulfilled"}
  /\ used \subseteq used'

LEMMA LedgerInvInit == LedgerInit => LedgerInv
  BY LedgerAssumption DEF LedgerInit, LedgerInv, Phases

LEMMA ReserveStep ==
  ASSUME LedgerInv, NEW k \in Key, NEW n \in ReplayKey, Reserve(k, n)
  PROVE  LedgerInv' /\ LedgerKeeps
<1>1. /\ payment[k] = Nothing /\ n # Nothing
      /\ \A j \in Key : payment[j] # n
      /\ answer' = answer /\ used' = used
      /\ payment' = [payment EXCEPT ![k] = n]
      /\ phase' = [phase EXCEPT ![k] = "reserved"]
  BY LedgerAssumption DEF LedgerInv, Reserve
<1>2. /\ payment'[k] = n /\ phase'[k] = "reserved" /\ phase[k] = "none"
      /\ \A j \in Key : j # k => /\ payment'[j] = payment[j]
                                 /\ phase'[j] = phase[j]
  BY <1>1 DEF LedgerInv, Reserve
<1>3. /\ payment' \in [Key -> ReplayKey \cup {Nothing}]
      /\ phase' \in [Key -> Phases]
  BY <1>1 DEF LedgerInv, Phases
<1> QED  BY <1>1, <1>2, <1>3 DEF LedgerInv, LedgerKeeps

LEMMA PayStep ==
  ASSUME LedgerInv, NEW k \in Key, Pay(k)
  PROVE  LedgerInv' /\ LedgerKeeps
<1>1. /\ phase'[k] = "paid" /\ phase[k] = "reserved" /\ NonceOf[payment[k]] \in used
      /\ \A j \in Key : j # k => phase'[j] = phase[j]
      /\ phase' \in [Key -> Phases]
      /\ payment' = payment /\ answer' = answer /\ used' = used
  BY DEF LedgerInv, Pay, Phases
<1> QED  BY <1>1 DEF LedgerInv, LedgerKeeps

LEMMA FulfilStep ==
  ASSUME LedgerInv, NEW k \in Key, NEW a \in Answer, Fulfil(k, a)
  PROVE  LedgerInv' /\ LedgerKeeps
<1>1. /\ phase'[k] = "fulfilled" /\ phase[k] = "paid" /\ answer'[k] = a
      /\ \A j \in Key : j # k => /\ phase'[j] = phase[j]
                                 /\ answer'[j] = answer[j]
      /\ phase' \in [Key -> Phases]
      /\ answer' \in [Key -> Answer \cup {Nothing}]
      /\ payment' = payment /\ used' = used
  BY DEF LedgerInv, Fulfil, Phases
<1>2. answer[k] = Nothing
  BY <1>1 DEF LedgerInv
<1> QED  BY <1>1, <1>2 DEF LedgerInv, LedgerKeeps

LEMMA UseStep ==
  ASSUME LedgerInv, NEW n \in Nonce, Use(n)
  PROVE  LedgerInv' /\ LedgerKeeps
  BY DEF LedgerInv, LedgerKeeps, Use

LEMMA LedgerStep ==
  ASSUME LedgerInv, [LedgerNext]_ledgerVars
  PROVE  LedgerInv' /\ LedgerKeeps
<1>1. CASE UNCHANGED ledgerVars
  BY <1>1 DEF ledgerVars, LedgerInv, LedgerKeeps
<1> QED
  BY <1>1, ReserveStep, PayStep, FulfilStep, UseStep DEF LedgerNext

(* No replay key pays for two purchases, nothing is paid by what was not   *)
(* used, and exactly what is fulfilled has an answer.                      *)
THEOREM LedgerSafe == LedgerSpec => []LedgerInv
  BY LedgerInvInit, LedgerStep, PTL DEF LedgerSpec

(* The ledger never goes back: what a buyer once paid for and was answered *)
(* stays paid for and answered as it was.                                  *)
THEOREM LedgerFinal == LedgerSpec => [][LedgerKeeps]_ledgerVars
  BY LedgerSafe, LedgerStep, PTL DEF LedgerSpec

=============================================================================
