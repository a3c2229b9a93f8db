---------------------------- MODULE ProcessLock ----------------------------
(***************************************************************************)
(* withProcessLock (lib/gate1b-store.mjs): mutual exclusion between the    *)
(* server processes that share one durable JSON file.                      *)
(*                                                                         *)
(* A process spawns a guardian: a child that runs flock(1) on the lock     *)
(* file, reports once the kernel granted the lock, and exits when the pipe *)
(* to its parent closes.  The kernel lock is therefore held exactly while  *)
(* a granted guardian lives.  The parent learns of the death of its        *)
(* guardian by an event, which may come later than the death itself.       *)
(*                                                                         *)
(* One process has at most one guardian per file: a second call of the     *)
(* same process is refused with STORE_BUSY and changes nothing, so only    *)
(* the first one is modelled (Enqueue needs guardian[p] = "none").         *)
(***************************************************************************)
CONSTANTS
  Proc,             \* the processes that open the file
  WaitMayExpire,    \* may the wait for the lock end without it?
  GuardianMayDie,   \* may a guardian die while its parent lives?
  LateClose         \* may its parent pass assertOwned before it notices?

ASSUME LockAssumption ==
  WaitMayExpire \in BOOLEAN /\ GuardianMayDie \in BOOLEAN /\ LateClose \in BOOLEAN

VARIABLES
  guardian,   \* guardian[p]: the state of p's flock child
  owned       \* owned[p]: p's variable "owned && !closed"

lockVars == <<guardian, owned>>

LockTypeOK ==
  /\ guardian \in [Proc -> {"none", "queued", "holding", "exited"}]
  /\ owned \in [Proc -> BOOLEAN]

LockInit ==
  /\ guardian = [p \in Proc |-> "none"]
  /\ owned = [p \in Proc |-> FALSE]

KernelLocked == \E p \in Proc : guardian[p] = "holding"

(* The call starts: activeLocks has no entry of this process, a guardian   *)
(* is spawned and waits for the kernel lock.                               *)
Enqueue(p) ==
  /\ guardian[p] = "none"
  /\ guardian' = [guardian EXCEPT ![p] = "queued"]
  /\ UNCHANGED owned

Grant_Shared(p) ==
  /\ guardian[p] = "queued"
  /\ guardian' = [guardian EXCEPT ![p] = "holding"]
  /\ owned' = [owned EXCEPT ![p] = TRUE]

(* The kernel grants the lock and the parent reads the LOCKED frame.       *)
Grant(p) ==
  /\ guardian[p] = "queued"
  /\ ~KernelLocked
  /\ guardian' = [guardian EXCEPT ![p] = "holding"]
  /\ owned' = [owned EXCEPT ![p] = TRUE]

(* flock --wait expires, the readiness timer fires or the guardian fails   *)
(* before it reports: the call rejects and the guardian is reaped.         *)
GiveUp(p) ==
  /\ WaitMayExpire
  /\ guardian[p] = "queued"
  /\ guardian' = [guardian EXCEPT ![p] = "none"]
  /\ UNCHANGED owned

(* A granted guardian dies under a live parent; the kernel lock is free.   *)
GuardianDies(p) ==
  /\ GuardianMayDie
  /\ guardian[p] = "holding"
  /\ guardian' = [guardian EXCEPT ![p] = "exited"]
  /\ UNCHANGED owned

(* The 'close' event reaches the parent: closed = true, owned = false.     *)
NoticeClose(p) ==
  /\ guardian[p] = "exited"
  /\ owned[p]
  /\ owned' = [owned EXCEPT ![p] = FALSE]
  /\ UNCHANGED guardian

(* assertOwned() returns.  Without LateClose it is exact; with it, it can  *)
(* still succeed between the guardian's death and the 'close' event.       *)
AssertOwned(p) == owned[p] /\ (LateClose \/ guardian[p] = "holding")

(* The operation settled (the pipe is closed and the guardian awaited), or *)
(* the process itself died, which closes the pipe as well.                 *)
Release(p) ==
  /\ guardian' = [guardian EXCEPT ![p] = "none"]
  /\ owned' = [owned EXCEPT ![p] = FALSE]

=============================================================================
