---------------------------- MODULE BountyWorker ----------------------------
(***************************************************************************)
(* The TryBounty worker (scripts/trybounty-worker.mjs, lib/trybounty/      *)
(* store.mjs): each cycle loads the state file, scans the bounties on      *)
(* offer, recovers missed events page by page, and replaces the file after *)
(* the scan and after each page.  The service and a run with --once may    *)
(* work at the same time: nothing locks the file, and the last to write    *)
(* wins.                                                                   *)
(***************************************************************************)
EXTENDS Naturals

CONSTANTS
  Worker,       \* processes
  Once,         \* those started with --once
  Bounty,       \* bounties on offer
  MaxEvent,     \* bound: events TryBounty publishes
  MaxVersion,   \* bound: versions of a bounty
  MaxBreak      \* bound: crashes and failed calls

ASSUME WorkerAssumption ==
  /\ Once \subseteq Worker
  /\ MaxEvent \in Nat /\ MaxVersion \in Nat \ {0} /\ MaxBreak \in Nat

VARIABLES
  published,    \* events 1 .. published exist at TryBounty
  version,      \* version[b]: the version TryBounty shows
  file,         \* the state file
  state,        \* state[w]: the copy a worker's cycle works on
  at,           \* at[w]: where its cycle is
  breaks        \* crashes and failed calls so far

workerVars == <<published, version, file, state, at, breaks>>

State ==
  [cursor : 0 .. MaxEvent, events : SUBSET (1 .. MaxEvent),
   bounties : [Bounty -> 0 .. MaxVersion],
   candidates : [Bounty -> 0 .. MaxVersion]]

EmptyState ==
  [cursor |-> 0, events |-> {},
   bounties |-> [b \in Bounty |-> 0], candidates |-> [b \in Bounty |-> 0]]

WorkerTypeOK ==
  /\ published \in 0 .. MaxEvent
  /\ version \in [Bounty -> 1 .. MaxVersion]
  /\ file \in State
  /\ state \in [Worker -> State]
  /\ at \in [Worker -> {"idle", "scan", "save scan", "poll", "save page",
                        "save last page", "stopped"}]
  /\ breaks \in 0 .. MaxBreak

WorkerInit ==
  /\ published = 0
  /\ version = [b \in Bounty |-> 1]
  /\ file = EmptyState
  /\ state = [w \in Worker |-> EmptyState]
  /\ at = [w \in Worker |-> "idle"]
  /\ breaks = 0

Go(w, place) == at' = [at EXCEPT ![w] = place]
Rest(w) == Go(w, IF w \in Once THEN "stopped" ELSE "idle")
Broken == breaks < MaxBreak /\ breaks' = breaks + 1
world == <<published, version>>

(* cycle: loadState.  A file that is absent is the empty state.            *)
LoadState(w) ==
  /\ at[w] = "idle"
  /\ state' = [state EXCEPT ![w] = file]
  /\ Go(w, "scan")
  /\ UNCHANGED <<world, file, breaks>>

-----------------------------------------------------------------------------
(* scanAvailable.                                                          *)

(* A bounty the listing shows is qualified if its version is new, and      *)
(* marked as seen together with its evaluation.                            *)
Scan(w, b) ==
  /\ at[w] = "scan" /\ state[w].bounties[b] # version[b]
  /\ state' = [state EXCEPT ![w].bounties[b] = version[b],
                            ![w].candidates[b] = version[b]]
  /\ UNCHANGED <<world, file, at, breaks>>

ScanEnds(w) ==
  /\ at[w] = "scan" /\ Go(w, "save scan")
  /\ UNCHANGED <<world, file, state, breaks>>

(* The listing fails: what was scanned so far stays in memory.             *)
ScanFails(w) ==
  /\ at[w] = "scan" /\ Broken /\ Go(w, "poll")
  /\ UNCHANGED <<world, file, state>>

(* saveState replaces the file or throws; recovery follows in both cases.  *)
SaveScan(w) ==
  /\ at[w] = "save scan" /\ Go(w, "poll")
  /\ \/ file' = state[w] /\ UNCHANGED breaks
     \/ Broken /\ UNCHANGED file
  /\ UNCHANGED <<world, state>>

-----------------------------------------------------------------------------
(* recoverEvents.                                                          *)

Admit_AfterCursor(s, last) ==
  [s EXCEPT !.events = @ \cup (s.cursor + 2 .. last), !.cursor = last]

(* The events of a page are admitted, then the cursor is moved.            *)
Admit(s, last) ==
  [s EXCEPT !.events = @ \cup (s.cursor + 1 .. last), !.cursor = last]

(* A page holds events after the cursor, or none.                          *)
Poll(w) ==
  /\ at[w] = "poll"
  /\ \E last \in state[w].cursor .. published :
       /\ published > state[w].cursor => last > state[w].cursor
       /\ state' = [state EXCEPT ![w] = Admit(@, last)]
       /\ Go(w, IF last < published THEN "save page" ELSE "save last page")
  /\ UNCHANGED <<world, file, breaks>>

PollFails_Stops(w) ==
  /\ at[w] = "poll" /\ Broken /\ Go(w, "stopped")
  /\ UNCHANGED <<world, file, state>>

(* The poll fails or its page is malformed: the cycle ends and its memory  *)
(* is dropped.                                                             *)
PollFails(w) ==
  /\ at[w] = "poll" /\ Broken /\ Rest(w)
  /\ UNCHANGED <<world, file, state>>

(* A failed save ends the cycle; the page will be polled again.            *)
SavePage(w) ==
  /\ at[w] \in {"save page", "save last page"}
  /\ \/ /\ file' = state[w]
        /\ IF at[w] = "save page" THEN Go(w, "poll") ELSE Rest(w)
        /\ UNCHANGED breaks
     \/ Broken /\ Rest(w) /\ UNCHANGED file
  /\ UNCHANGED <<world, state>>

-----------------------------------------------------------------------------
(* The service is started again, a single run is not.                      *)
Crash(w) ==
  /\ at[w] \notin {"idle", "stopped"} /\ Broken /\ Rest(w)
  /\ UNCHANGED <<world, file, state>>

Publish ==
  /\ published < MaxEvent
  /\ published' = published + 1
  /\ UNCHANGED <<version, file, state, at, breaks>>

Revise(b) ==
  /\ version[b] < MaxVersion
  /\ version' = [version EXCEPT ![b] = @ + 1]
  /\ UNCHANGED <<published, file, state, at, breaks>>

Cycle(w) ==
  \/ LoadState(w) \/ ScanEnds(w) \/ SaveScan(w) \/ Poll(w) \/ SavePage(w)

WorkerNext ==
  \/ \E w \in Worker :
       \/ Cycle(w) \/ ScanFails(w) \/ PollFails(w) \/ Crash(w)
       \/ \E b \in Bounty : Scan(w, b)
  \/ Publish \/ \E b \in Bounty : Revise(b)

(* The loop starts a cycle every 30 s and every await of it ends.          *)
WorkerFairness == \A w \in Worker : WF_workerVars(Cycle(w))

WorkerSpec == WorkerInit /\ [][WorkerNext]_workerVars /\ WorkerFairness

-----------------------------------------------------------------------------
(* The cursor covers what was admitted, and what is marked as seen was     *)
(* evaluated, in the file and in every copy of it: whatever crashes, fails *)
(* or is overwritten by an older copy, the next poll skips no event and    *)
(* the next scan skips no version (comment at trybounty-worker.mjs:135:    *)
(* "Advance only after this page's events have been placed in durable      *)
(* state").                                                                *)
CursorCovers ==
  \A s \in {file} \cup {state[w] : w \in Worker} :
    /\ 1 .. s.cursor \subseteq s.events
    /\ s.events \subseteq 1 .. published
    /\ s.bounties = s.candidates

(* Every event is admitted in the end and for good, although a single run  *)
(* overwrites the service's file and saves, polls and processes fail.      *)
EventsSettle ==
  \A e \in 1 .. MaxEvent : published >= e ~> [](e \in file.events)

=============================================================================
