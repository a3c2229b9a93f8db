------------------------ MODULE SettlementAuthority ------------------------
(***************************************************************************)
(* Was the payment settled?  reconcileProduction asks the chain through    *)
(* RPC endpoints (lib/gate1b-production-adapter.mjs) and verifyOnchain     *)
(* counts confirmations (lib/onchain-verifier.mjs).  Gate1B takes the      *)
(* answer "settled" as the truth and lets any other be asked again.        *)
(*                                                                         *)
(* The chain grows while the question is being asked, and its newest block *)
(* may be replaced, never an older one.  An endpoint shows the blocks it   *)
(* had when it last synchronised.  Any call may fail; one to an endpoint   *)
(* of another network does, because its chain id is compared first.        *)
(***************************************************************************)
EXTENDS Naturals, Sequences

CONSTANTS
  urls,       \* the endpoints, in the order they are asked
  MaxHeight,  \* bound: blocks of the chain
  MaxReorg    \* bound: replacements of the newest block

Endpoints == {urls[i] : i \in 1 .. Len(urls)}

ASSUME AuthorityAssumption ==
  /\ urls \in Seq(Endpoints) /\ urls # <<>>
  /\ MaxHeight \in Nat \ {0} /\ MaxReorg \in Nat

VARIABLES
  chain,    \* the blocks, and where the authorization was used and by whom
  reorgs,   \* how often the newest block was replaced
  view,     \* view[u]: the chain as endpoint u shows it
  anchor,   \* reconciliationFromBlock, 0 before it is captured
  place,    \* where the question is, or its last answer
  match,    \* the transaction that used the authorization
  turn,     \* the endpoint verifyOnchain is asking
  receipt,  \* the block in the receipt it gave, 0 for no receipt yet
  proofs,   \* proofs[u]: the block and confirmations u proves
  moved     \* an endpoint lost the transaction between receipt and head

questionVars == <<place, match, turn, receipt, proofs, moved>>
authorityVars == <<chain, reorgs, view, anchor, questionVars>>

DEFAULT_MIN_CONFIRMATIONS == 2
Primary == urls[1]

(* The authorization binds payer and nonce.  The transaction that uses it  *)
(* is "ours", or "other": signed by the payer for another receiver or      *)
(* amount with the same nonce.  Either may carry a second transfer of the  *)
(* same payer that is like the agreed one: "ours" is then "twice", and     *)
(* "other" is "batched".  Block 0 is no block.                             *)
Transaction == {"none", "ours", "other", "twice", "batched"}
Chain == {c \in [head : 1 .. MaxHeight, block : 0 .. MaxHeight, tx : Transaction] :
            c.block <= c.head /\ (c.block = 0 <=> c.tx = "none")}
Proof == [block : 1 .. MaxHeight, confirmations : 1 .. MaxHeight]
NoProof == [block |-> 0, confirmations |-> 0]

AuthorityTypeOK ==
  /\ chain \in Chain /\ view \in [Endpoints -> Chain]
  /\ reorgs \in 0 .. MaxReorg
  /\ anchor \in 0 .. MaxHeight
  /\ place \in {"idle", "chain", "logs", "receipt", "verify", "head",
                "compare", "settled", "unknown"}
  /\ match \in Transaction
  /\ turn \in 1 .. Len(urls) + 1
  /\ receipt \in 0 .. MaxHeight
  /\ proofs \in [Endpoints -> Proof \cup {NoProof}]
  /\ moved \in BOOLEAN

AuthorityInit ==
  /\ chain = [head |-> 1, block |-> 0, tx |-> "none"]
  /\ view = [u \in Endpoints |-> chain]
  /\ reorgs = 0 /\ anchor = 0
  /\ place = "idle" /\ match = "none"
  /\ turn = 1 /\ receipt = 0
  /\ proofs = [u \in Endpoints |-> NoProof]
  /\ moved = FALSE

-----------------------------------------------------------------------------
(* The chain and its endpoints.                                            *)

(* A block that may use the authorization, if none has.                    *)
Mine ==
  /\ chain.head < MaxHeight
  /\ \/ chain' = [chain EXCEPT !.head = @ + 1]
     \/ /\ chain.tx = "none"
        /\ \E tx \in Transaction \ {"none"} :
             chain' = [head |-> chain.head + 1, block |-> chain.head + 1, tx |-> tx]
  /\ UNCHANGED <<reorgs, view, anchor, questionVars>>

(* The newest block is replaced, with or without the transaction.          *)
Reorg ==
  /\ reorgs < MaxReorg /\ reorgs' = reorgs + 1
  /\ chain.head > 1 /\ chain.block \in {0, chain.head}
  /\ \E tx \in Transaction :
       chain' = [head |-> chain.head, tx |-> tx,
                 block |-> IF tx = "none" THEN 0 ELSE chain.head]
  /\ UNCHANGED <<view, anchor, questionVars>>

UpTo(h) == IF chain.block <= h THEN [chain EXCEPT !.head = h]
           ELSE [head |-> h, block |-> 0, tx |-> "none"]

(* One backend of an endpoint may lag behind another.                      *)
Sync(u) ==
  /\ \E h \in 1 .. chain.head : view' = [view EXCEPT ![u] = UpTo(h)]
  /\ UNCHANGED <<chain, reorgs, anchor, questionVars>>

-----------------------------------------------------------------------------
(* captureReconciliationAnchor, before the payment is verified or settled. *)
Capture ==
  /\ anchor = 0
  /\ anchor' = view[Primary].head
  /\ UNCHANGED <<chain, reorgs, view, questionVars>>

(* reconcileProduction.  An unknown outcome may be asked again.            *)
Ask ==
  /\ anchor # 0 /\ place \in {"idle", "unknown"}
  /\ place' = "chain" /\ match' = "none"
  /\ turn' = 1 /\ receipt' = 0
  /\ proofs' = [u \in Endpoints |-> NoProof]
  /\ moved' = FALSE
  /\ UNCHANGED <<chain, reorgs, view, anchor>>

To(p) ==
  /\ place' = p
  /\ UNCHANGED <<chain, reorgs, view, anchor, turn, receipt, proofs, moved>>

ReadChain ==
  /\ place = "chain"
  /\ To("logs") /\ UNCHANGED match

(* The one event since the anchor that carries payer and nonce.            *)
ReadLogs ==
  /\ place = "logs"
  /\ view[Primary].tx # "none" /\ view[Primary].block >= anchor
  /\ match' = view[Primary].tx
  /\ To("receipt")

ReadReceipt ==
  /\ place = "receipt"
  /\ view[Primary].tx = match
  /\ To("verify") /\ UNCHANGED match

(* A failed call, another network, no event or no receipt.                 *)
Unanswered ==
  /\ place \in {"chain", "logs", "receipt"}
  /\ To("unknown") /\ UNCHANGED match

-----------------------------------------------------------------------------
(* verifyOnchain, one endpoint after the other.                            *)

Answered(p) ==
  /\ place' = p
  /\ UNCHANGED <<chain, reorgs, view, anchor, match>>

NextEndpoint ==
  /\ turn' = turn + 1 /\ receipt' = 0
  /\ Answered(IF turn = Len(urls) THEN "compare" ELSE "verify")

(* What a call to an endpoint returns, when it returns.                    *)
rpc(u) == view[u]

(* Its transfers of the token to the receiver, of the amount by the payer. *)
(* They are not compared with the event that uses the authorization.       *)
decodeTransfers(tx) ==
  CASE tx = "ours"    -> {"authorized"}
    [] tx = "twice"   -> {"authorized", "another"}
    [] tx = "batched" -> {"another"}
    [] OTHER          -> {}

OneCandidate(tx) == \E t \in decodeTransfers(tx) : decodeTransfers(tx) = {t}

(* The receipt of a transaction with exactly one such transfer.            *)
VerifyReceipt ==
  /\ place = "verify"
  /\ rpc(urls[turn]).tx = match /\ OneCandidate(match)
  /\ receipt' = rpc(urls[turn]).block
  /\ Answered("head") /\ UNCHANGED <<turn, proofs, moved>>

(* What the call for the head makes of the receipt, `extra` blocks being   *)
(* counted above the difference.                                           *)
Prove(u, extra) ==
  /\ proofs' = [proofs EXCEPT ![u] =
       [block |-> receipt, confirmations |-> rpc(u).head - receipt + extra]]
  /\ moved' = (moved \/ view[u].tx # match \/ view[u].block # receipt)
  /\ NextEndpoint

VerifyHead_OneAhead ==
  /\ place = "head" /\ rpc(urls[turn]).head >= receipt
  /\ Prove(urls[turn], 2)

VerifyHead_AnyHead ==
  /\ place = "head" /\ Prove(urls[turn], 1)

(* A call after it.  An endpoint that shows a head below it proves nothing.*)
VerifyHead ==
  /\ place = "head" /\ rpc(urls[turn]).head >= receipt
  /\ Prove(urls[turn], 1)

(* A failed call, another network, no receipt, a transaction that carries  *)
(* no such transfer or two.                                                *)
VerifyFails ==
  /\ place \in {"verify", "head"} /\ NextEndpoint
  /\ UNCHANGED <<proofs, moved>>

(* Proofs must be equal, confirmations included; the first one decides.    *)
Compare ==
  /\ place = "compare"
  /\ LET given == {proofs[u] : u \in Endpoints} \ {NoProof} IN
       Answered(IF \E p \in given : /\ given = {p}
                                 /\ p.confirmations >= DEFAULT_MIN_CONFIRMATIONS
             THEN "settled" ELSE "unknown")
  /\ UNCHANGED <<turn, receipt, proofs, moved>>

AuthorityNext ==
  \/ Mine \/ Reorg \/ \E u \in Endpoints : Sync(u)
  \/ Capture \/ Ask \/ ReadChain \/ ReadLogs \/ ReadReceipt \/ Unanswered
  \/ VerifyReceipt \/ VerifyHead \/ VerifyFails \/ Compare

AuthoritySpec == AuthorityInit /\ [][AuthorityNext]_authorityVars

-----------------------------------------------------------------------------
(* Settled is final.  An answer "settled" is about the transaction that    *)
(* used the authorization, found at or after the anchor, and that          *)
(* transaction carries exactly one transfer as agreed.  Unless an endpoint *)
(* lost it between the call for its receipt and the call for the head      *)
(* (`moved`, which the code does not notice), it is on the chain, under a  *)
(* block the chain can no longer replace, and stays there: whatever the    *)
(* endpoints had not yet seen, and however the chain moved between the     *)
(* other calls (docs/MCP_CURRENT_STATE.md:198-199, ">=2 confirmations      *)
(* default" and "A tx hash alone is never verified").  It is not said that *)
(* the transfer is the one the authorization made: in a batched            *)
(* transaction the code takes another for it.                              *)
SettledIsFinal ==
  place = "settled" =>
    /\ OneCandidate(match)
    /\ ~moved => /\ chain.tx = match
                 /\ chain.block \in anchor .. chain.head - 1

=============================================================================
