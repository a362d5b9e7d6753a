------------------------------ MODULE CronLock ------------------------------
(***************************************************************************)
(* A cron job that every worker pod schedules and one is to run: a key of  *)
(* Valkey is set if it is absent and has a time to live, and is deleted    *)
(* when the job ends, whoever's it is by then (ValkeyService, and the      *)
(* frame of CleanupCronService and SnapshotCronService).                   *)
(* The time to live is 55 minutes. A job that takes longer may do so: the  *)
(* key then expires under it, which `outlived` records.                    *)
(***************************************************************************)
EXTENDS Naturals, FiniteSets

CONSTANTS
    Pods,
    MaxCrashes   \* bound on failures: crashes, and deletions that fail

ASSUME PodsAssumption == IsFiniteSet(Pods) /\ MaxCrashes \in Nat

VARIABLES
    lock,       \* the key exists
    running,    \* pods between acquireLock and releaseLock
    owner,      \* history: the pods whose key the present one is
    outlived,   \* history: a key expired under its owner
    crashes     \* failures so far

lockVars == <<lock, running, owner, outlived, crashes>>

LockTypeOK ==
    /\ lock \in BOOLEAN
    /\ running \subseteq Pods
    /\ owner \subseteq Pods
    /\ outlived \in BOOLEAN
    /\ crashes \in 0..MaxCrashes

LockInit ==
    /\ lock = FALSE
    /\ running = {}
    /\ owner = {}
    /\ outlived = FALSE
    /\ crashes = 0

(* Mutant: SET without NX.                                                 *)
AcquireAnyway(p) ==
    /\ p \notin running
    /\ lock' = TRUE
    /\ owner' = {p}
    /\ running' = running \cup {p}
    /\ UNCHANGED <<outlived, crashes>>

(* The cron ticks and SET NX PX succeeds; when it does not, the pod skips  *)
(* this tick and nothing changes.                                          *)
Acquire(p) ==
    /\ p \notin running
    /\ ~lock
    /\ lock' = TRUE
    /\ owner' = {p}
    /\ running' = running \cup {p}
    /\ UNCHANGED <<outlived, crashes>>

(* The job ended or threw, and the finally block deletes the key.          *)
Release(p) ==
    /\ p \in running
    /\ running' = running \ {p}
    /\ lock' = FALSE
    /\ owner' = {}
    /\ UNCHANGED <<outlived, crashes>>

(* The same with Valkey out of reach: the key stays.                       *)
ReleaseFails(p) ==
    /\ p \in running /\ crashes < MaxCrashes
    /\ running' = running \ {p}
    /\ crashes' = crashes + 1
    /\ UNCHANGED <<lock, owner, outlived>>

(* The job throws; the finally block deletes the key all the same.         *)
Throw(p) ==
    /\ p \in running /\ crashes < MaxCrashes
    /\ running' = running \ {p}
    /\ crashes' = crashes + 1
    /\ lock' = FALSE
    /\ owner' = {}
    /\ UNCHANGED outlived

Crash(p) ==
    /\ p \in running /\ crashes < MaxCrashes
    /\ running' = running \ {p}
    /\ crashes' = crashes + 1
    /\ UNCHANGED <<lock, owner, outlived>>

(* Mutant: the key has no time to live.                                    *)
Never ==
    /\ FALSE
    /\ UNCHANGED lockVars

(* PX                                                                      *)
Expire ==
    /\ lock
    /\ lock' = FALSE
    /\ owner' = {}
    /\ outlived' = (outlived \/ owner \cap running # {})
    /\ UNCHANGED <<running, crashes>>

(* "cron lock held by another pod - skipping this tick": one pod at a time *)
(* runs the job, until one outlives its key, whichever pods crash and      *)
(* whichever releases fail.                                                *)
JobExclusive == outlived \/ Cardinality(running) <= 1
=============================================================================
