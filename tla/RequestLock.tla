----------------------------- MODULE RequestLock -----------------------------
(***************************************************************************)
(* The lock that is to make the web API handle one request of a user at a  *)
(* time (WebAPI_Redis, Request/RequestLock.cs).  It is a number in Redis:  *)
(* 0 is free, and whoever adds the current second to 0 has it.  Reading,   *)
(* creating and adding are separate Redis calls, and requests of the user  *)
(* run concurrently.  A request goes through                               *)
(*                                                                         *)
(*   idle -> read -> [create ->] increment -> held -> idle                 *)
(*                                                                         *)
(* as `using (var lock = new RequestLock(id))` does.  Every Redis call may *)
(* fail; DB/Redis.cs turns the exception into a default result.  The host  *)
(* may crash at any moment.                                                *)
(***************************************************************************)
EXTENDS Integers

CONSTANTS
    Requests,   \* requests of one user that may run at the same time
    Seconds,    \* what TimeTickToSec(Now) may return
    Absent,     \* the value of a key Redis does not have
    MaxFailedReads  \* bound: how often a read fails although the key is there

ASSUME SecondsAssumption == Seconds \subseteq Nat \ {0}
ASSUME AbsentAssumption == Absent \notin Nat
ASSUME MaxFailedReadsAssumption == MaxFailedReads \in Nat

VARIABLES
    key,       \* the lock's number in Redis
    pc,        \* how far each request is
    cur,       \* curAllTimeSec of each request
    blind,     \* history: some request did not see a number at its read
    failedReads,  \* counts such reads of a key that was there
    faulted    \* history: a release or the answer to an increment was lost,
               \* or the host crashed

vars == <<key, pc, cur, blind, failedReads, faulted>>

Stages == {"idle", "read", "create", "increment", "held"}

Init ==
    /\ key \in {Absent, 0}
    /\ pc = [r \in Requests |-> "idle"]
    /\ cur \in [Requests -> Seconds]
    /\ blind = FALSE
    /\ failedReads = 0
    /\ faulted = FALSE

Go(r, stage) == pc' = [pc EXCEPT ![r] = stage]

\* The constructor and the clock reading RequestProcessing starts with.
RequestProcessing(r) ==
    /\ pc[r] = "idle"
    /\ Go(r, "read")
    /\ \E s \in Seconds : cur' = [cur EXCEPT ![r] = s]
    /\ UNCHANGED <<key, blind, failedReads, faulted>>

Found(r) == key # Absent /\ Go(r, IF key > 0 THEN "idle" ELSE "increment")

\* GetString: a missing key and a failed call look the same.
GetString(r) ==
    /\ pc[r] = "read"
    /\ \/ Found(r) /\ UNCHANGED <<blind, failedReads>>
       \/ /\ key = Absent
          /\ Go(r, "create")
          /\ blind' = TRUE
          /\ UNCHANGED failedReads
       \/ /\ key # Absent
          /\ failedReads < MaxFailedReads
          /\ Go(r, "create")
          /\ blind' = TRUE
          /\ failedReads' = failedReads + 1
    /\ UNCHANGED <<key, cur, faulted>>

\* SetStringAsync(key, 0).Wait(); its result is not looked at.
SetStringAsync(r) ==
    /\ pc[r] = "create"
    /\ key' \in {0, key}
    /\ Go(r, "increment")
    /\ UNCHANGED <<cur, blind, failedReads, faulted>>

\* Variant: the number is counted down.
Incremented_Down(r) == IF key = Absent THEN cur[r] ELSE key - cur[r]

\* INCRBY creates a missing key.
Incremented(r) == IF key = Absent THEN cur[r] ELSE key + cur[r]

\* Variant: any positive result is taken for the lock.
Granted_Positive(r) == Incremented(r) > 0

\* changeData == curAllTimeSec
Granted(r) == Incremented(r) = cur[r]

\* Increment.  Its catch returns 0, whether Redis has added or not.
Increment(r) ==
    /\ pc[r] = "increment"
    /\ \/ /\ key' = Incremented(r)
          /\ IF Granted(r) THEN Go(r, "held") ELSE Go(r, "idle")
          /\ UNCHANGED faulted
       \/ /\ key' = Incremented(r)
          /\ Go(r, "idle")
          /\ faulted' = TRUE
       \/ /\ Go(r, "idle")
          /\ UNCHANGED <<key, faulted>>
    /\ UNCHANGED <<cur, blind, failedReads>>

\* Variant: Dispose releases nothing.
Dispose_NoRelease(r) ==
    /\ pc[r] = "held"
    /\ UNCHANGED <<key, faulted>>
    /\ Go(r, "idle")
    /\ UNCHANGED <<cur, blind, failedReads>>

\* Dispose sets the key to 0 whatever it is by now, and does not wait for it.
Dispose(r) ==
    /\ pc[r] = "held"
    /\ \/ key' = 0 /\ UNCHANGED faulted
       \/ UNCHANGED key /\ faulted' = TRUE
    /\ Go(r, "idle")
    /\ UNCHANGED <<cur, blind, failedReads>>

\* The process ends; Redis stays.
Crash ==
    /\ pc' = [r \in Requests |-> "idle"]
    /\ faulted' = TRUE
    /\ UNCHANGED <<key, cur, blind, failedReads>>

Step(r) == GetString(r) \/ SetStringAsync(r) \/ Increment(r) \/ Dispose(r)

Next == Crash \/ \E r \in Requests : RequestProcessing(r) \/ Step(r)

\* A request that has started goes on; nobody has to send one.
Spec == Init /\ [][Next]_vars /\ \A r \in Requests : WF_vars(Step(r))

-----------------------------------------------------------------------------

Holders == {r \in Requests : pc[r] = "held"}

Taken == key # Absent /\ key > 0

\* Every variable has its type; the number is never negative.
TypeOK ==
    /\ key \in Nat \union {Absent}
    /\ pc \in [Requests -> Stages]
    /\ cur \in [Requests -> Seconds]
    /\ blind \in BOOLEAN
    /\ failedReads \in 0 .. MaxFailedReads
    /\ faulted \in BOOLEAN

\* Requests of one user are handled one after the other
\* (RequestLock.cs:9: "processes the requests of the client in sequence").
\* Two requests that both miss the key break it: the second SET of 0 lets the
\* second increment succeed as well.
Sequential == \A q, r \in Holders : q = r

\* What the lock does guarantee: as long as every request has seen the number
\* it read, at most one holds the lock, whatever else failed or crashed.
SequentialOnceCreated == ~blind => \A q, r \in Holders : q = r

\* A request is refused only on account of one that has the lock, unless a
\* fault left the number behind (RequestLock.cs:42, 54, 71): the refused
\* increments, which all stay in the number, never outlive the holder they ran
\* into.
TakenMeansHeld == Taken => (faulted \/ Holders # {})

\* A lock that is taken comes free again unless a fault has struck.
LockComesFree == Taken ~> (~Taken \/ faulted)

=============================================================================
