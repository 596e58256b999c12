-------------------------- MODULE RequestLockProofs --------------------------
(***************************************************************************)
(* Proofs about RequestLock, for any number of requests and any clock.     *)
(***************************************************************************)
EXTENDS RequestLock, TLAPS

\* What SequentialOnceCreated rests on: until a request has missed the number,
\* nobody creates it anew, whoever goes to increment has seen it, and while the
\* lock is held it is positive, so that no increment returns its own summand.
SeenByAll ==
    ~blind =>
        /\ \A r \in Requests : pc[r] # "create"
        /\ \A r \in Requests : pc[r] = "increment" => key # Absent
        /\ \A r \in Requests : pc[r] = "held" => Taken

IInv == TypeOK /\ SeenByAll /\ SequentialOnceCreated /\ TakenMeansHeld

-----------------------------------------------------------------------------

LEMMA InitHolds == Init => IInv
<1> SUFFICES ASSUME Init PROVE IInv
  OBVIOUS
<1>1. TypeOK
  <2>1. failedReads \in 0 .. MaxFailedReads  BY MaxFailedReadsAssumption DEF Init
  <2>2. pc \in [Requests -> Stages]  BY DEF Init, Stages
  <2>3. key \in Nat \union {Absent}  BY DEF Init
  <2> QED  BY <2>1, <2>2, <2>3, Zenon DEF Init, TypeOK
<1>2. ~Taken /\ \A r \in Requests : pc[r] = "idle"  BY DEF Init, Taken
<1>3. Holders = {}  BY <1>2 DEF Holders
<1> QED  BY <1>1, <1>2, <1>3 DEF IInv, SeenByAll, SequentialOnceCreated, TakenMeansHeld

\* Going on changes one request's stage.
LEMMA GoFacts ==
    ASSUME TypeOK, NEW r \in Requests, NEW stage \in Stages, Go(r, stage)
    PROVE  /\ pc' \in [Requests -> Stages]
           /\ pc'[r] = stage
           /\ \A q \in Requests : q # r => pc'[q] = pc[q]
BY DEF TypeOK, Go

LEMMA StartKeeps ==
    ASSUME IInv, NEW r \in Requests, RequestProcessing(r) PROVE IInv'
<1>1. "read" \in Stages /\ Go(r, "read")  BY DEF Stages, RequestProcessing
<1>2. /\ pc' \in [Requests -> Stages]
      /\ pc'[r] = "read"
      /\ \A q \in Requests : q # r => pc'[q] = pc[q]
  BY <1>1, GoFacts DEF IInv
<1>3. pc[r] = "idle" /\ key' = key /\ blind' = blind /\ faulted' = faulted
      /\ failedReads' = failedReads
  BY DEF RequestProcessing
<1>4. TypeOK'  BY <1>2, <1>3 DEF IInv, TypeOK, RequestProcessing
<1>5. SeenByAll'  BY <1>2, <1>3 DEF IInv, SeenByAll, Taken
<1>6. Holders' = Holders  BY <1>2, <1>3 DEF Holders
<1>7. SequentialOnceCreated' /\ TakenMeansHeld'
  BY <1>3, <1>6 DEF IInv, SequentialOnceCreated, TakenMeansHeld, Taken
<1> QED  BY <1>4, <1>5, <1>7 DEF IInv

LEMMA ReadKeeps ==
    ASSUME IInv, NEW r \in Requests, GetString(r) PROVE IInv'
<1>1. PICK stage \in {"idle", "create", "increment"} : Go(r, stage)
  BY DEF GetString, Found
<1>2. /\ pc' \in [Requests -> Stages]
      /\ pc'[r] = stage
      /\ \A q \in Requests : q # r => pc'[q] = pc[q]
  BY <1>1, GoFacts DEF IInv, Stages
<1>3. pc[r] = "read" /\ key' = key /\ faulted' = faulted /\ cur' = cur
  BY DEF GetString
<1>4. TypeOK'
  <2>1. failedReads' \in 0 .. MaxFailedReads
    BY MaxFailedReadsAssumption DEF IInv, TypeOK, GetString
  <2>2. blind' \in BOOLEAN  BY DEF IInv, TypeOK, GetString
  <2> QED  BY <1>2, <1>3, <2>1, <2>2, Zenon DEF IInv, TypeOK
<1>5. ~blind' => ~blind /\ key # Absent /\ stage # "create"
  BY <1>2, <1>3, SMT DEF GetString, Found, Go, IInv, TypeOK, Stages
<1>6. SeenByAll'  BY <1>2, <1>3, <1>5 DEF IInv, SeenByAll, Taken
<1>7. Holders' = Holders  BY <1>1, <1>2, <1>3 DEF Holders
<1>8. SequentialOnceCreated' /\ TakenMeansHeld'
  BY <1>3, <1>5, <1>7 DEF IInv, SequentialOnceCreated, TakenMeansHeld, Taken
<1> QED  BY <1>4, <1>6, <1>8 DEF IInv

LEMMA CreateKeeps ==
    ASSUME IInv, NEW r \in Requests, SetStringAsync(r) PROVE IInv'
<1>1. blind  BY DEF IInv, SeenByAll, SetStringAsync
<1>2. /\ pc' \in [Requests -> Stages]
      /\ pc'[r] = "increment"
      /\ \A q \in Requests : q # r => pc'[q] = pc[q]
  BY GoFacts DEF IInv, Stages, SetStringAsync
<1>3. pc[r] = "create" /\ blind' = blind /\ faulted' = faulted /\ key' \in {0, key}
  BY DEF SetStringAsync
<1>4. TypeOK'  BY <1>2, <1>3 DEF IInv, TypeOK, SetStringAsync
<1>5. SeenByAll' /\ SequentialOnceCreated'
  BY <1>1, <1>3 DEF SeenByAll, SequentialOnceCreated
<1>6. Holders' = Holders  BY <1>2, <1>3 DEF Holders
<1>7. TakenMeansHeld'  BY <1>3, <1>6 DEF IInv, TakenMeansHeld, Taken
<1> QED  BY <1>4, <1>5, <1>7 DEF IInv

\* An increment that is granted the lock found the number free.
LEMMA IncrementFacts ==
    ASSUME IInv, NEW r \in Requests, pc[r] = "increment"
    PROVE  /\ Incremented(r) \in Nat \ {0}
           /\ Granted(r) => ~Taken
           /\ ~Granted(r) => Taken
<1>1. cur[r] \in Nat \ {0}  BY SecondsAssumption DEF IInv, TypeOK
<1>2. CASE key = Absent
  BY <1>1, <1>2 DEF Incremented, Granted, Taken, IInv, TypeOK
<1>3. CASE key # Absent
  <2>1. key \in Nat  BY <1>3 DEF IInv, TypeOK
  <2> QED  BY <1>1, <1>3, <2>1 DEF Incremented, Granted, Taken
<1> QED  BY <1>2, <1>3

LEMMA IncrementKeeps ==
    ASSUME IInv, NEW r \in Requests, Increment(r) PROVE IInv'
<1>1. PICK stage \in {"idle", "held"} :
        /\ Go(r, stage)
        /\ key' \in {key, Incremented(r)}
        /\ stage = "held" => Granted(r) /\ key' = Incremented(r) /\ UNCHANGED faulted
        /\ stage = "idle" =>
             \/ UNCHANGED <<key, faulted>>
             \/ faulted' = TRUE
             \/ key' = Incremented(r) /\ ~Granted(r) /\ UNCHANGED faulted
  BY DEF Increment
<1>2. /\ pc' \in [Requests -> Stages]
      /\ pc'[r] = stage
      /\ \A q \in Requests : q # r => pc'[q] = pc[q]
  BY <1>1, GoFacts DEF IInv, Stages
<1>3. pc[r] = "increment" /\ blind' = blind /\ cur' = cur /\ failedReads' = failedReads
  BY DEF Increment
<1>4. /\ Incremented(r) \in Nat \ {0}
      /\ Granted(r) => ~Taken
      /\ ~Granted(r) => Taken
  BY <1>3, IncrementFacts
<1>5. faulted' \in BOOLEAN  BY <1>1 DEF IInv, TypeOK
<1>6. TypeOK'  BY <1>1, <1>2, <1>3, <1>4, <1>5 DEF IInv, TypeOK
<1>7. Taken => Taken'  BY <1>1, <1>4, AbsentAssumption DEF Taken
<1>8. stage = "held" => Taken'  BY <1>1, <1>4, AbsentAssumption DEF Taken
<1>9. key # Absent => key' # Absent  BY <1>1, <1>4, AbsentAssumption
<1>10. SeenByAll'
  <2> SUFFICES ASSUME ~blind' PROVE
        /\ \A q \in Requests : pc'[q] # "create"
        /\ \A q \in Requests : pc'[q] = "increment" => key' # Absent
        /\ \A q \in Requests : pc'[q] = "held" => Taken'
    BY DEF SeenByAll
  <2>1. SeenByAll /\ ~blind  BY <1>3 DEF IInv
  <2> QED  BY <2>1, <1>1, <1>2, <1>7, <1>8, <1>9 DEF SeenByAll
<1>11. SequentialOnceCreated'
  <2> SUFFICES ASSUME ~blind', NEW p \in Holders', NEW q \in Holders' PROVE p = q
    BY DEF SequentialOnceCreated
  <2>1. ~blind /\ p \in Requests /\ q \in Requests /\ pc'[p] = "held" /\ pc'[q] = "held"
    BY <1>3 DEF Holders
  <2>2. CASE stage = "idle"
    BY <2>1, <2>2, <1>2 DEF IInv, SequentialOnceCreated, Holders
  <2>3. CASE stage = "held"
    <3>1. ~Taken  BY <2>3, <1>1, <1>4
    <3>2. \A s \in Requests : pc[s] # "held"  BY <3>1, <2>1 DEF IInv, SeenByAll
    <3> QED  BY <3>2, <2>1, <1>2
  <2> QED  BY <2>2, <2>3, <1>1
<1>12. TakenMeansHeld'
  <2> SUFFICES ASSUME Taken', ~faulted' PROVE Holders' # {}
    BY <1>5 DEF TakenMeansHeld
  <2>1. CASE stage = "held"  BY <2>1, <1>2 DEF Holders
  <2>2. CASE stage = "idle"
    <3>1. Taken /\ ~faulted
      BY <2>2, <1>1, <1>4 DEF Taken
    <3>2. PICK q \in Requests : pc[q] = "held"
      BY <3>1 DEF IInv, TakenMeansHeld, Holders
    <3>3. pc'[q] = "held"  BY <3>2, <1>2, <1>3
    <3> QED  BY <3>3 DEF Holders
  <2> QED  BY <2>1, <2>2, <1>1
<1> QED  BY <1>6, <1>10, <1>11, <1>12 DEF IInv

\* Whoever releases was the only holder, or some request was blind.
LEMMA DisposeKeeps ==
    ASSUME IInv, NEW r \in Requests, Dispose(r) PROVE IInv'
<1>1. /\ pc' \in [Requests -> Stages]
      /\ pc'[r] = "idle"
      /\ \A q \in Requests : q # r => pc'[q] = pc[q]
  BY GoFacts DEF IInv, Stages, Dispose
<1>2. /\ pc[r] = "held"
      /\ blind' = blind /\ cur' = cur /\ failedReads' = failedReads
      /\ \/ key' = 0 /\ faulted' = faulted
         \/ key' = key /\ faulted' = TRUE
  BY DEF Dispose
<1>3. TypeOK'
  <2>1. key' \in Nat \union {Absent}  BY <1>2 DEF IInv, TypeOK
  <2>2. faulted' \in BOOLEAN  BY <1>2 DEF IInv, TypeOK
  <2> QED  BY <1>1, <1>2, <2>1, <2>2, Zenon DEF IInv, TypeOK
<1>4. Holders' = Holders \ {r}  BY <1>1, <1>2 DEF Holders
<1>5. SequentialOnceCreated'
  BY <1>2, <1>4 DEF IInv, SequentialOnceCreated
<1>6. SeenByAll'
  <2> SUFFICES ASSUME ~blind', NEW q \in Requests
               PROVE  /\ pc'[q] # "create"
                      /\ pc'[q] = "increment" => key' # Absent
                      /\ pc'[q] # "held"
    BY DEF SeenByAll
  <2>1. ~blind  BY <1>2
  <2>2. pc'[q] # "held"
    BY <2>1, <1>1, <1>2 DEF IInv, SequentialOnceCreated, Holders
  <2>3. pc'[q] # "create"  BY <2>1, <1>1 DEF IInv, SeenByAll
  <2>4. pc'[q] = "increment" => key' # Absent
    BY <2>1, <1>1, <1>2, AbsentAssumption DEF IInv, SeenByAll
  <2> QED  BY <2>2, <2>3, <2>4
<1>7. TakenMeansHeld'  BY <1>2 DEF TakenMeansHeld, Taken
<1> QED  BY <1>3, <1>5, <1>6, <1>7 DEF IInv

LEMMA CrashKeeps == ASSUME IInv, Crash PROVE IInv'
<1>1. /\ \A q \in Requests : pc'[q] = "idle"
      /\ pc' \in [Requests -> Stages]
      /\ faulted' = TRUE /\ key' = key /\ cur' = cur /\ blind' = blind
      /\ failedReads' = failedReads
  BY DEF Crash, Stages
<1>2. TypeOK'  BY <1>1 DEF IInv, TypeOK
<1> QED  BY <1>1, <1>2
  DEF IInv, SeenByAll, SequentialOnceCreated, TakenMeansHeld, Holders

LEMMA StepKeeps == ASSUME IInv, [Next]_vars PROVE IInv'
<1>1. CASE Crash  BY <1>1, CrashKeeps
<1>2. ASSUME NEW r \in Requests, RequestProcessing(r) \/ Step(r) PROVE IInv'
  BY <1>2, StartKeeps, ReadKeeps, CreateKeeps, IncrementKeeps, DisposeKeeps DEF Step
<1>3. CASE UNCHANGED vars
  BY <1>3 DEF vars, IInv, TypeOK, SeenByAll, SequentialOnceCreated, TakenMeansHeld,
              Holders, Taken
<1> QED  BY <1>1, <1>2, <1>3 DEF Next

-----------------------------------------------------------------------------

\* The invariants hold for any number of requests, any clock and any failures of
\* the Redis calls RequestLock makes.
THEOREM LockInvariance == Spec => []IInv
BY InitHolds, StepKeeps, PTL DEF Spec

\* The lock's number is never negative, and no variable leaves its type.
THEOREM LockTypeCorrect == Spec => []TypeOK
<1>1. IInv => TypeOK  BY DEF IInv
<1> QED  BY <1>1, LockInvariance, PTL

\* As long as every request has seen the number it read, one request of a user
\* at a time is between RequestProcessing and Dispose.
THEOREM OneAtATime == Spec => []SequentialOnceCreated
<1>1. IInv => SequentialOnceCreated  BY DEF IInv
<1> QED  BY <1>1, LockInvariance, PTL

\* Without a fault a refusal means that another request holds the lock.
THEOREM RefusedForAHolder == Spec => []TakenMeansHeld
<1>1. IInv => TakenMeansHeld  BY DEF IInv
<1> QED  BY <1>1, LockInvariance, PTL

=============================================================================
