----------------------------- MODULE Storefront -----------------------------
(***************************************************************************)
(* Stripe sales of server-runtime.mjs: the webhook, the /claim page and    *)
(* /download, three routes of one server process over one JSON state file. *)
(*                                                                         *)
(* The file is read, changed and replaced between two awaits, so a write   *)
(* is one action; the requests interleave at their awaits (Stripe lookups, *)
(* sending a file).  Stripe delivers an event again until it is            *)
(* acknowledged, and possibly after that.                                  *)
(*                                                                         *)
(* Which offer a session is found to be for, and whether an offer's file   *)
(* is bound and intact, are free choices at every look: the operator edits *)
(* the catalog, the fulfillment map and the files at any time.  Crashes,   *)
(* failing writes and failing Stripe calls are faults, bounded by MaxFault.*)
(*                                                                         *)
(* Definitions whose name ends in a phrase after an underscore             *)
(* (Check_AnyStatus) are faulty variants of the definition that follows.   *)
(***************************************************************************)
EXTENDS Naturals

CONSTANTS
  Session,       \* Stripe Checkout Sessions
  Request,       \* places for requests the server works on at a time
  Digital,       \* offers delivered by download
  Service,       \* offers recorded as an order
  Credit,        \* legacy credit packs
  NoOffer,       \* no offer found
  NoOutcome,     \* a session not processed
  NoJob,         \* a free place
  MaxDownloads,  \* max_downloads of every product
  MaxFault       \* bound: faults

Offer == Digital \cup Service \cup Credit
Token == Session \X Offer        \* downloadToken(session, offer)

Outcome ==
  [status : {"unmapped_payment", "credit_sales_disabled", "paid",
             "paid_needs_file_binding"},
   offer : Offer \cup {NoOffer}]

Event == [session : Session, paid : BOOLEAN]

(* A request: the session as it knows it, the offer it found and the       *)
(* outcome it will report (NoOutcome: waiting for payment).                *)
Job ==
  [kind : {"webhook", "claim"}, session : Session, paid : BOOLEAN,
   at : {"retrieve", "check", "lookup", "commit", "link", "reply", "error"},
   offer : Offer \cup {NoOffer}, result : Outcome \cup {NoOutcome}]
    \cup [kind : {"download"}, token : Token]

ASSUME StorefrontAssumption ==
  /\ MaxDownloads \in Nat /\ MaxFault \in Nat
  /\ NoOffer \notin Offer /\ NoOutcome \notin Outcome /\ NoJob \notin Job
  /\ Digital \cap (Service \cup Credit) = {} /\ Service \cap Credit = {}

VARIABLES
  checkout,   \* checkout[s] at Stripe: open, complete, paid
  events,     \* events Stripe still delivers
  processed,  \* state file: processed_sessions
  granted,    \* state file: the tokens in download_entitlements
  downloads,  \* state file: their download counters
  orders,     \* state file: sessions in service_orders
  jobs,       \* jobs[r]: the request at place r
  links,      \* download links shown to buyers
  served,     \* served[t]: files sent for token t
  faults      \* faults so far

file == <<processed, granted, downloads, orders>>
vars == <<checkout, events, file, jobs, links, served, faults>>

TypeOK ==
  /\ checkout \in [Session -> {"open", "complete", "paid"}]
  /\ events \subseteq Event
  /\ processed \in [Session -> Outcome \cup {NoOutcome}]
  /\ granted \subseteq Token
  /\ downloads \in [Token -> Nat]
  /\ orders \subseteq Session
  /\ jobs \in [Request -> Job \cup {NoJob}]
  /\ links \subseteq Token
  /\ served \in [Token -> Nat]
  /\ faults \in 0 .. MaxFault

Init ==
  /\ checkout = [s \in Session |-> "open"]
  /\ events = {}
  /\ processed = [s \in Session |-> NoOutcome]
  /\ granted = {}
  /\ downloads = [t \in Token |-> 0]
  /\ orders = {}
  /\ jobs = [r \in Request |-> NoJob]
  /\ links = {}
  /\ served = [t \in Token |-> 0]
  /\ faults = 0

-----------------------------------------------------------------------------
(* Stripe.                                                                 *)

(* The buyer completes the checkout; a delayed payment is paid later.      *)
Complete(s, paidNow) ==
  /\ checkout[s] = "open"
  /\ checkout' = [checkout EXCEPT ![s] = IF paidNow THEN "paid" ELSE "complete"]
  /\ events' = events \cup {[session |-> s, paid |-> paidNow]}
  /\ UNCHANGED <<file, jobs, links, served, faults>>

DelayedPayment(s) ==
  /\ checkout[s] = "complete"
  /\ checkout' = [checkout EXCEPT ![s] = "paid"]
  /\ events' = events \cup {[session |-> s, paid |-> TRUE]}
  /\ UNCHANGED <<file, jobs, links, served, faults>>

-----------------------------------------------------------------------------
(* Requests.                                                               *)

At(r, kinds, label) ==
  jobs[r] # NoJob /\ jobs[r].kind \in kinds /\ jobs[r].at = label

Sale == {"webhook", "claim"}

(* The job of r moves on; nothing else changes.                            *)
Become(r, job) ==
  /\ jobs' = [jobs EXCEPT ![r] = job]
  /\ UNCHANGED <<checkout, events, file, links, served, faults>>

NewSale(kind, s, paid, at) ==
  [kind |-> kind, session |-> s, paid |-> paid, at |-> at,
   offer |-> NoOffer, result |-> NoOutcome]

(* The webhook is called with the session as it was at the event.          *)
Deliver(r, e) ==
  /\ jobs[r] = NoJob
  /\ e \in events
  /\ Become(r, NewSale("webhook", e.session, e.paid, "check"))

Claim(r, s) ==
  /\ jobs[r] = NoJob
  /\ Become(r, NewSale("claim", s, FALSE, "retrieve"))

(* /claim asks Stripe for the session.                                     *)
Retrieve(r) ==
  /\ At(r, {"claim"}, "retrieve")
  /\ Become(r, [jobs[r] EXCEPT !.at = "check",
                  !.paid = checkout[jobs[r].session] = "paid"])

Known(s) == processed[s] # NoOutcome

(* processPaidSession returns result: the webhook is answered, /claim goes *)
(* on to look up the offer once more.                                      *)
Returned(job, result) ==
  [job EXCEPT !.result = result,
     !.at = IF job.kind = "claim" /\ result # NoOutcome THEN "link" ELSE "reply"]

Check_AnyStatus(r) ==
  /\ At(r, Sale, "check")
  /\ Become(r, IF Known(jobs[r].session)
               THEN Returned(jobs[r], processed[jobs[r].session])
               ELSE [jobs[r] EXCEPT !.at = "lookup"])

(* Not paid: nothing happens.  Processed before: that outcome.  Otherwise  *)
(* the offer is looked up, which may need Stripe.                          *)
Check(r) ==
  /\ At(r, Sale, "check")
  /\ LET job == jobs[r] IN
     Become(r, IF ~job.paid THEN Returned(job, NoOutcome)
               ELSE IF Known(job.session) THEN Returned(job, processed[job.session])
               ELSE [job EXCEPT !.at = "lookup"])

Lookup(r, o) ==
  /\ At(r, Sale, "lookup")
  /\ Become(r, [jobs[r] EXCEPT !.offer = o, !.at = "commit"])

CallFails(r) ==
  /\ \E label \in {"retrieve", "lookup", "link"} : At(r, Sale, label)
  /\ faults < MaxFault
  /\ faults' = faults + 1
  /\ jobs' = [jobs EXCEPT ![r].at = "error"]
  /\ UNCHANGED <<checkout, events, file, links, served>>

OutcomeOf_NoNewStatus(o, ready) ==
  [offer |-> o, status |-> IF o \in Digital /\ ~ready THEN "unbound" ELSE "paid"]

OutcomeOf(o, ready) ==
  [offer |-> o,
   status |-> CASE o = NoOffer -> "unmapped_payment"
                [] o \in Credit -> "credit_sales_disabled"
                [] o \in Digital /\ ~ready -> "paid_needs_file_binding"
                [] OTHER -> "paid"]

(* The outcome with its entitlement or order, in one replacement of the    *)
(* file.                                                                   *)
Save(s, outcome) ==
  LET t == <<s, outcome.offer>>
      download == outcome.status = "paid" /\ outcome.offer \in Digital
  IN  /\ processed' = [processed EXCEPT ![s] = outcome]
      /\ granted' = IF download THEN granted \cup {t} ELSE granted
      /\ downloads' = IF download THEN [downloads EXCEPT ![t] = 0] ELSE downloads
      /\ orders' = IF outcome.offer \in Service THEN orders \cup {s} ELSE orders

Commit_NoRecheck(r, ready) ==
  /\ At(r, Sale, "commit")
  /\ LET outcome == OutcomeOf(jobs[r].offer, ready) IN
     /\ Save(jobs[r].session, outcome)
     /\ jobs' = [jobs EXCEPT ![r] = Returned(@, outcome)]
  /\ UNCHANGED <<checkout, events, links, served, faults>>

(* The state is read again after the await: another request may have       *)
(* processed the session.                                                  *)
Commit(r, ready) ==
  /\ At(r, Sale, "commit")
  /\ ~Known(jobs[r].session)
  /\ LET outcome == OutcomeOf(jobs[r].offer, ready) IN
     /\ Save(jobs[r].session, outcome)
     /\ jobs' = [jobs EXCEPT ![r] = Returned(@, outcome)]
  /\ UNCHANGED <<checkout, events, links, served, faults>>

ProcessedMeanwhile(r) ==
  /\ At(r, Sale, "commit")
  /\ Known(jobs[r].session)
  /\ Become(r, Returned(jobs[r], processed[jobs[r].session]))

(* The file could not be written; the old one is still there.              *)
CommitFails(r) ==
  /\ At(r, Sale, "commit")
  /\ ~Known(jobs[r].session)
  /\ faults < MaxFault
  /\ faults' = faults + 1
  /\ jobs' = [jobs EXCEPT ![r].at = "error"]
  /\ UNCHANGED <<checkout, events, file, links, served>>

(* /claim shows a link for the offer it finds now; the request fails when  *)
(* it finds none.                                                          *)
Link(r, o) ==
  /\ At(r, {"claim"}, "link")
  /\ LET job == jobs[r]
         ready == job.result.status = "paid" /\ job.result.offer \in Digital
     IN  /\ links' = IF ready /\ o # NoOffer THEN links \cup {<<job.session, o>>} ELSE links
         /\ jobs' = [jobs EXCEPT ![r].at =
                       IF ready /\ o = NoOffer THEN "error" ELSE "reply"]
  /\ UNCHANGED <<checkout, events, file, served, faults>>

(* The answer of a webhook acknowledges the event, unless Stripe misses it.*)
Reply(r) ==
  /\ At(r, Sale, "reply")
  /\ jobs' = [jobs EXCEPT ![r] = NoJob]
  /\ \/ UNCHANGED events
     \/ /\ jobs[r].kind = "webhook"
        /\ events' = events \ {[session |-> jobs[r].session, paid |-> jobs[r].paid]}
  /\ UNCHANGED <<checkout, file, links, served, faults>>

Fail_Acknowledged(r) ==
  /\ At(r, Sale, "error")
  /\ jobs' = [jobs EXCEPT ![r] = NoJob]
  /\ events' = events \ {[session |-> jobs[r].session, paid |-> jobs[r].paid]}
  /\ UNCHANGED <<checkout, file, links, served, faults>>

(* "Webhook processing failed; retry required".                            *)
Fail(r) ==
  /\ At(r, Sale, "error")
  /\ Become(r, NoJob)

Download_NotCounted(r, t) ==
  /\ jobs[r] = NoJob
  /\ t \in links \cap granted
  /\ downloads[t] < MaxDownloads
  /\ jobs' = [jobs EXCEPT ![r] = [kind |-> "download", token |-> t]]
  /\ UNCHANGED <<checkout, events, file, links, served, faults>>

(* The use is counted in the file before the first byte is sent.  All      *)
(* refusals (no entitlement, used up, file missing or altered, a failed    *)
(* write) change nothing.                                                  *)
Download(r, t) ==
  /\ jobs[r] = NoJob
  /\ t \in links \cap granted
  /\ downloads[t] < MaxDownloads
  /\ downloads' = [downloads EXCEPT ![t] = @ + 1]
  /\ jobs' = [jobs EXCEPT ![r] = [kind |-> "download", token |-> t]]
  /\ UNCHANGED <<checkout, events, processed, granted, orders, links, served, faults>>

Send(r) ==
  /\ jobs[r] # NoJob /\ jobs[r].kind = "download"
  /\ served' = [served EXCEPT ![jobs[r].token] = @ + 1]
  /\ jobs' = [jobs EXCEPT ![r] = NoJob]
  /\ UNCHANGED <<checkout, events, file, links, faults>>

(* The server dies and starts again: every request is gone.                *)
Crash ==
  /\ faults < MaxFault
  /\ faults' = faults + 1
  /\ jobs' = [r \in Request |-> NoJob]
  /\ UNCHANGED <<checkout, events, file, links, served>>

-----------------------------------------------------------------------------
Step(r) ==
  \/ Retrieve(r) \/ Check(r)
  \/ \E o \in Offer \cup {NoOffer} : Lookup(r, o) \/ Link(r, o)
  \/ \E ready \in BOOLEAN : Commit(r, ready)
  \/ ProcessedMeanwhile(r) \/ Reply(r) \/ Fail(r) \/ Send(r)

Next ==
  \/ \E s \in Session :
       \/ \E paidNow \in BOOLEAN : Complete(s, paidNow)
       \/ DelayedPayment(s)
  \/ \E r \in Request :
       \/ \E e \in Event : Deliver(r, e)
       \/ \E s \in Session : Claim(r, s)
       \/ \E t \in Token : Download(r, t)
       \/ Step(r) \/ CallFails(r) \/ CommitFails(r)
  \/ Crash

Spec == Init /\ [][Next]_vars

(* Stripe repeats an unacknowledged event; every await ends.               *)
Fairness ==
  /\ \A r \in Request : WF_vars(Step(r))
  /\ \A e \in Event : SF_vars(\E r \in Request : Deliver(r, e))

FairSpec == Spec /\ Fairness

-----------------------------------------------------------------------------
(* Properties.                                                             *)

(* A session is fulfilled once, after payment and in one form: exactly the *)
(* download or the order that its recorded outcome names, whichever of the *)
(* webhook, its repetitions and the /claim page came first and whatever    *)
(* the catalog said to the others.                                         *)
FulfilledOnce ==
  \A s \in Session :
    LET r == processed[s]
        sold == r # NoOutcome /\ r.status = "paid" IN
    /\ r # NoOutcome => checkout[s] = "paid"
    /\ \A o \in Offer : <<s, o>> \in granted <=> sold /\ o = r.offer /\ o \in Digital
    /\ s \in orders <=> sold /\ r.offer \in Service

(* No more files are sent than counted and none beyond the limit, over     *)
(* concurrent downloads and crashes between counting and sending.          *)
DownloadsBounded ==
  \A t \in Token :
    /\ served[t] <= downloads[t] /\ downloads[t] <= MaxDownloads
    /\ downloads[t] > 0 => t \in granted

(* What the file says of a sale is final: no outcome changes, no           *)
(* entitlement or order goes away and no counter goes back, whichever      *)
(* request writes the file next.                                           *)
SalesAreFinal ==
  [][/\ \A s \in Session : Known(s) => processed'[s] = processed[s]
     /\ granted \subseteq granted'
     /\ orders \subseteq orders'
     /\ \A t \in Token : downloads[t] <= downloads'[t]]_vars

(* Every paid session is processed in the end, if Stripe goes on           *)
(* delivering its event.                                                   *)
PaidIsProcessed ==
  \A s \in Session : checkout[s] = "paid" ~> Known(s)

=============================================================================
