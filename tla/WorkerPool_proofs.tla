-------------------------- MODULE WorkerPool_proofs --------------------------
(***************************************************************************)
(* What the worker pool guarantees, for every set of tasks, sessions and    *)
(* cancel calls and every limit: one task of a session at a time and in the *)
(* order submitted, the quota, effective cancels and no lost wake-up.       *)
(***************************************************************************)
EXTENDS WorkerPool, FiniteSetTheorems, WellFoundedInduction, TLAPS

-----------------------------------------------------------------------------
(* One consumer per session. *)

(* The claim protocol.  SerialPerSession speaks of consumers only; what     *)
(* keeps a second one from coming up is the claim made under p.mu long      *)
(* before it is spawned, so the claim has to be in the invariant: one claim *)
(* per session, kept by the spawned flag until the pool closes, and no      *)
(* consumer without a claim nor before its Submit call spawns it.           *)
ClaimInv ==
    /\ submit \in [Tasks -> SubmitStages]
    /\ consumer \in [Tasks -> ConsumerStages]
    /\ first \subseteq Tasks
    /\ \A t \in first : closed \/ SessionOf[t] \in spawned
    /\ \A t, u \in first : SessionOf[t] = SessionOf[u] => t = u
    /\ \A t \in Tasks : consumer[t] # "none" => t \in first
    /\ \A t \in Tasks : submit[t] \in {"new", "registered", "queued"} => consumer[t] = "none"

(* Before any Submit call nothing is claimed.                               *)
LEMMA ClaimInit == Init => ClaimInv
  BY DEF Init, ClaimInv, SubmitStages, ConsumerStages

(* A step that moves only one spawned consumer, between stages after its    *)
(* start, keeps the claims.                                                 *)
LEMMA ClaimMove ==
    ASSUME ClaimInv, NEW c \in Tasks, NEW stage \in ConsumerStages \ {"none"},
           consumer[c] # "none", ConsumerTo(c, stage),
           UNCHANGED <<submit, first, closed>>, spawned' = spawned \/ closed
    PROVE  ClaimInv'
  BY DEF ClaimInv, ConsumerTo

(* Every step of submitters, consumers, cancellers and the closer keeps the *)
(* claims.                                                                  *)
LEMMA ClaimStep == ClaimInv /\ [Next]_vars => ClaimInv'
<1> SUFFICES ASSUME ClaimInv, [Next]_vars PROVE ClaimInv'
  OBVIOUS
<1> USE DEF submits, queues, consumers, cancels
<1>1. ASSUME NEW t \in Tasks, Register(t) PROVE ClaimInv'
  <2>1. CASE closed
    BY <1>1, <2>1 DEF Register, ReturnWith, SubmitTo, ClaimInv, SubmitStages
  <2>2. CASE ~closed
    <3>1. submit' = [submit EXCEPT ![t] = "registered"] /\ submit[t] = "new"
      BY <1>1, <2>2 DEF Register, SubmitTo
    <3>2. first' = (IF SessionOf[t] \in spawned THEN first ELSE first \cup {t})
          /\ spawned' = spawned \cup {SessionOf[t]} /\ UNCHANGED <<closed, consumer>>
      BY <1>1, <2>2 DEF Register
    <3>3. QED
      BY <2>2, <3>1, <3>2 DEF ClaimInv, SubmitStages
  <2>3. QED
    BY <2>1, <2>2
<1>2. ASSUME NEW t \in Tasks, Enqueue(t) PROVE ClaimInv'
  BY <1>2 DEF Enqueue, SubmitTo, ClaimInv, SubmitStages
<1>3. ASSUME NEW t \in Tasks, SpawnAndWake(t) PROVE ClaimInv'
  <2>1. PICK stage \in {"lookup", "returned"} : submit' = [submit EXCEPT ![t] = stage]
    BY <1>3 DEF SpawnAndWake, SubmitTo, ReturnWith
  <2>2. consumer' = (IF t \in first THEN [consumer EXCEPT ![t] = "wait"] ELSE consumer)
        /\ UNCHANGED <<first, spawned, closed>>
    BY <1>3 DEF SpawnAndWake
  <2>3. QED
    BY <2>1, <2>2 DEF ClaimInv, SubmitStages, ConsumerStages
<1>4. ASSUME NEW t \in Tasks, Lookup(t) PROVE ClaimInv'
  BY <1>4 DEF Lookup, SubmitTo, ReturnWith, ClaimInv, SubmitStages
<1>5. ASSUME NEW t \in Tasks, Await(t) \/ CallerGivesUp(t) PROVE ClaimInv'
  BY <1>5 DEF Await, CallerGivesUp, SubmitTo, ReturnWith, ClaimInv, SubmitStages
<1>6. ASSUME NEW c \in Tasks, WaitWake(c) PROVE ClaimInv'
  <2>1. PICK stage \in {"exit", "drain"} : ConsumerTo(c, stage)
    BY <1>6 DEF WaitWake, ExitConsumer
  <2>2. consumer[c] # "none" /\ UNCHANGED <<submit, first, closed>>
        /\ (spawned' = spawned \/ closed)
    BY <1>6 DEF WaitWake, ExitConsumer
  <2>3. QED
    BY <2>1, <2>2, ClaimMove DEF ConsumerStages
<1>7. ASSUME NEW c \in Tasks, Pop(c) \/ Check(c) \/ Acquire(c) \/ Arm(c)
      PROVE ClaimInv'
  <2>1. PICK stage \in {"wait", "check", "settle", "acquire", "arm", "release", "run"} :
            ConsumerTo(c, stage)
    BY <1>7 DEF Pop, Check, Acquire, Arm
  <2>2. consumer[c] # "none" /\ UNCHANGED <<submit, first, closed, spawned>>
    BY <1>7 DEF Pop, Check, Acquire, Arm
  <2>3. QED
    BY <2>1, <2>2, ClaimMove DEF ConsumerStages
<1>8. ASSUME NEW c \in Tasks, Return(c) \/ Disarm(c) \/ ReleaseSlot(c)
      PROVE ClaimInv'
  <2>1. PICK stage \in {"disarm", "release", "settle"} : ConsumerTo(c, stage)
    BY <1>8 DEF Return, Disarm, ReleaseSlot
  <2>2. consumer[c] # "none" /\ UNCHANGED <<submit, first, closed, spawned>>
    BY <1>8 DEF Return, Disarm, ReleaseSlot
  <2>3. QED
    BY <2>1, <2>2, ClaimMove DEF ConsumerStages
<1>9. ASSUME NEW c \in Tasks, Settle(c) PROVE ClaimInv'
  <2>1. PICK stage \in {"exit", "drain"} : ConsumerTo(c, stage)
    BY <1>9 DEF Settle, ExitConsumer
  <2>2. consumer[c] # "none" /\ UNCHANGED <<submit, first, closed>>
        /\ (spawned' = spawned \/ closed)
    BY <1>9 DEF Settle, ExitConsumer
  <2>3. QED
    BY <2>1, <2>2, ClaimMove DEF ConsumerStages
<1>10. ASSUME NEW c \in Tasks, Watch(c) \/ Deadline(c) PROVE ClaimInv'
  BY <1>10 DEF Watch, Deadline, ClaimInv
<1>11. ASSUME NEW k \in Cancels, CancelOwner(k) \/ CancelSession(k) \/ Canceller(k)
       PROVE ClaimInv'
  <2>1. UNCHANGED <<submit, first, consumer, closed, spawned>>
    BY <1>11 DEF CancelOwner, CancelSession, CancelMatch, Canceller, CancelSweep, CancelMark
  <2>2. QED
    BY <2>1 DEF ClaimInv
<1>12. CASE Close
  BY <1>12 DEF Close, ClaimInv
<1>13. CASE UNCHANGED vars
  BY <1>13 DEF vars, ClaimInv
<1>14. QED
  BY <1>1, <1>2, <1>3, <1>4, <1>5, <1>6, <1>7, <1>8, <1>9, <1>10, <1>11, <1>12, <1>13
  DEF Next, Submitter, Consumer

(* The claims exclude two busy consumers in one session.                    *)
LEMMA ClaimsExclude == ClaimInv => SerialPerSession
  BY DEF ClaimInv, SerialPerSession, TaskStages, HoldingStages

(* However Submit calls, cancels and Close interleave, the tasks of one     *)
(* session are taken up one at a time (Submit, consume: the session actor). *)
THEOREM OneTaskPerSession == Spec => []SerialPerSession
<1>1. Spec => []ClaimInv
  BY ClaimInit, ClaimStep, PTL DEF Spec
<1>2. QED
  BY <1>1, ClaimsExclude, PTL

-----------------------------------------------------------------------------
(* The quota. *)

Holders == {c \in Tasks : consumer[c] \in HoldingStages}

(* The tokens in p.limit are exactly the consumers between the acquire and  *)
(* the deferred release of runTask, and never more than the channel holds.  *)
SlotsInv ==
    /\ IsFiniteSet(Holders)
    /\ SlotsExact
    /\ slots \in 0 .. Limit

(* Initially no slot is taken.                                              *)
LEMMA SlotsInit == Init => SlotsInv
<1> SUFFICES ASSUME Init PROVE SlotsInv
  OBVIOUS
<1>1. Holders = {}
  BY DEF Init, Holders, HoldingStages
<1>2. IsFiniteSet(Holders) /\ Cardinality(Holders) = 0
  BY <1>1, FS_EmptySet
<1>3. slots = 0 /\ 0 \in 0 .. Limit
  BY LimitAssumption DEF Init
<1>4. SlotsExact
  BY <1>2, <1>3 DEF SlotsExact, Holders
<1>5. QED
  BY <1>2, <1>3, <1>4 DEF SlotsInv

(* A step that moves no consumer across the acquire or the release, and     *)
(* leaves the channel alone, keeps the count.                               *)
LEMMA SlotsKept ==
    ASSUME SlotsInv, slots' = slots, Holders' = Holders
    PROVE  SlotsInv'
  BY DEF SlotsInv, SlotsExact, Holders

(* A consumer that moves between two stages on the same side keeps Holders. *)
LEMMA HoldersMove ==
    ASSUME consumer \in [Tasks -> ConsumerStages], NEW c \in Tasks, NEW stage,
           ConsumerTo(c, stage), consumer[c] \in HoldingStages <=> stage \in HoldingStages
    PROVE  Holders' = Holders
  BY DEF Holders, ConsumerTo

(* Every step keeps the count: each path of runTask that took a slot gives  *)
(* it back exactly once, the early return of a cancelled task included.     *)
LEMMA SlotsStep == ClaimInv /\ SlotsInv /\ [Next]_vars => SlotsInv'
<1> SUFFICES ASSUME ClaimInv, SlotsInv, [Next]_vars PROVE SlotsInv'
  OBVIOUS
<1> USE DEF submits, queues, consumers, cancels
<1>0. consumer \in [Tasks -> ConsumerStages]
  BY DEF ClaimInv
<1>1. ASSUME slots' = slots, consumer' = consumer PROVE SlotsInv'
  BY <1>1, SlotsKept DEF Holders
<1>2. ASSUME NEW t \in Tasks, SpawnAndWake(t) PROVE SlotsInv'
  <2>1. consumer[t] = "none"
    BY <1>2 DEF SpawnAndWake, ClaimInv
  <2>2. CASE t \in first
    <3>1. ConsumerTo(t, "wait") /\ slots' = slots
      BY <1>2, <2>2 DEF SpawnAndWake, ConsumerTo
    <3>2. QED
      BY <1>0, <2>1, <3>1, HoldersMove, SlotsKept DEF HoldingStages
  <2>3. CASE t \notin first
    BY <1>1, <1>2, <2>3 DEF SpawnAndWake
  <2>4. QED
    BY <2>2, <2>3
<1>3. ASSUME NEW c \in Tasks, Acquire(c) PROVE SlotsInv'
  <2>1. consumer[c] = "acquire" /\ slots < Limit /\ slots' = slots + 1 /\ ConsumerTo(c, "arm")
    BY <1>3 DEF Acquire
  <2>2. Holders' = Holders \cup {c} /\ c \notin Holders
    BY <1>0, <2>1 DEF Holders, ConsumerTo, HoldingStages
  <2>3. IsFiniteSet(Holders') /\ Cardinality(Holders') = Cardinality(Holders) + 1
    BY <2>2, FS_AddElement DEF SlotsInv
  <2>4. QED
    BY <2>1, <2>3, LimitAssumption DEF SlotsInv, SlotsExact, Holders
<1>4. ASSUME NEW c \in Tasks, ReleaseSlot(c) PROVE SlotsInv'
  <2>1. consumer[c] = "release" /\ slots' = slots - 1 /\ ConsumerTo(c, "settle")
    BY <1>4 DEF ReleaseSlot
  <2>2. Holders' = Holders \ {c} /\ c \in Holders
    BY <1>0, <2>1 DEF Holders, ConsumerTo, HoldingStages
  <2>3. IsFiniteSet(Holders') /\ Cardinality(Holders') = Cardinality(Holders) - 1
    BY <2>2, FS_RemoveElement DEF SlotsInv
  <2>4. Cardinality(Holders') \in Nat
    BY <2>3, FS_CardinalityType
  <2>5. QED
    BY <2>1, <2>3, <2>4, LimitAssumption DEF SlotsInv, SlotsExact, Holders
<1>5. ASSUME NEW c \in Tasks, WaitWake(c) \/ Pop(c) \/ Check(c) \/ Settle(c) PROVE SlotsInv'
  <2>1. PICK stage \in {"exit", "drain", "wait", "check", "settle", "acquire"} :
            ConsumerTo(c, stage)
    BY <1>5 DEF WaitWake, Pop, Check, Settle, ExitConsumer
  <2>2. consumer[c] \in {"wait", "drain", "check", "settle"} /\ slots' = slots
    BY <1>5 DEF WaitWake, Pop, Check, Settle
  <2>3. QED
    BY <1>0, <2>1, <2>2, HoldersMove, SlotsKept DEF HoldingStages
<1>6. ASSUME NEW c \in Tasks, Arm(c) \/ Return(c) \/ Disarm(c) PROVE SlotsInv'
  <2>1. PICK stage \in {"release", "run", "disarm"} : ConsumerTo(c, stage)
    BY <1>6 DEF Arm, Return, Disarm
  <2>2. consumer[c] \in {"arm", "run", "disarm"} /\ slots' = slots
    BY <1>6 DEF Arm, Return, Disarm
  <2>3. QED
    BY <1>0, <2>1, <2>2, HoldersMove, SlotsKept DEF HoldingStages
<1>7. ASSUME NEW t \in Tasks,
             \/ Register(t) \/ Enqueue(t) \/ Lookup(t) \/ Await(t) \/ CallerGivesUp(t)
             \/ Watch(t) \/ Deadline(t)
      PROVE SlotsInv'
  BY <1>1, <1>7 DEF Register, Enqueue, Lookup, Await, CallerGivesUp, Watch, Deadline
<1>8. ASSUME NEW k \in Cancels, CancelOwner(k) \/ CancelSession(k) \/ Canceller(k)
      PROVE SlotsInv'
  BY <1>1, <1>8 DEF CancelOwner, CancelSession, CancelMatch, Canceller, CancelSweep, CancelMark
<1>9. CASE Close \/ UNCHANGED vars
  BY <1>1, <1>9 DEF Close, vars
<1>10. QED
  BY <1>2, <1>3, <1>4, <1>5, <1>6, <1>7, <1>8, <1>9 DEF Next, Submitter, Consumer

(* No path through runTask leaks a slot of the global quota or gives one    *)
(* back twice.                                                              *)
THEOREM QuotaExact == Spec => []SlotsExact
<1>1. Spec => [](ClaimInv /\ SlotsInv)
  <2>1. Init => ClaimInv /\ SlotsInv
    BY ClaimInit, SlotsInit
  <2>2. ClaimInv /\ SlotsInv /\ [Next]_vars => (ClaimInv /\ SlotsInv)'
    BY ClaimStep, SlotsStep
  <2>3. QED
    BY <2>1, <2>2, PTL DEF Spec
<1>2. ClaimInv /\ SlotsInv => SlotsExact
  BY DEF SlotsInv
<1>3. QED
  BY <1>1, <1>2, PTL
-----------------------------------------------------------------------------
(* What cancelWhere leaves of a queue. *)

(* Induction over the naturals, from the well-foundedness of < .            *)
LEMMA SetInduction ==
    ASSUME NEW A \in SUBSET Nat, 0 \in A, \A n \in A : n + 1 \in A
    PROVE  A = Nat
<1> SUFFICES ASSUME Nat \ A # {} PROVE FALSE
  OBVIOUS
<1>1. PICK m \in Nat \ A : \A k \in Nat \ A : ~(<<k, m>> \in OpToRel(<, Nat))
  BY WFMin, NatLessThanWellFounded, Zenon
<1>2. \A k \in Nat \ A : ~(k < m)
  BY <1>1, Zenon DEF OpToRel
<1> HIDE DEF OpToRel
<1>3. m # 0 /\ m - 1 \in Nat
  BY <1>2
<1>4. m - 1 \in A
  BY <1>2, <1>3
<1>5. QED
  BY <1>3, <1>4

(* F is what the loop of Without keeps of the first entries of q, up to n.  *)
IsKept(F, q, gone, n) ==
    F = [i \in 0 .. n |-> IF i = 0 THEN <<>>
                          ELSE IF q[i] \in gone THEN F[i - 1] ELSE Append(F[i - 1], q[i])]

(* The loop of Without defines a function.                                  *)
LEMMA KeptExists ==
    ASSUME NEW q, NEW gone
    PROVE  \A n \in Nat : \E F : IsKept(F, q, gone, n)
<1> DEFINE A == {n \in Nat : \E F : IsKept(F, q, gone, n)}
<1>1. 0 \in A
  <2> DEFINE F == [i \in 0 .. 0 |-> <<>>]
  <2>1. IsKept(F, q, gone, 0)
    BY DEF IsKept
  <2>2. QED
    BY <2>1
<1>2. ASSUME NEW n \in A PROVE n + 1 \in A
  <2>1. PICK F : IsKept(F, q, gone, n)
    OBVIOUS
  <2> DEFINE next == IF q[n + 1] \in gone THEN F[n] ELSE Append(F[n], q[n + 1])
             G == [i \in 0 .. n + 1 |-> IF i = n + 1 THEN next ELSE F[i]]
  <2>2. \A i \in 0 .. n : F[i] = IF i = 0 THEN <<>>
                          ELSE IF q[i] \in gone THEN F[i - 1] ELSE Append(F[i - 1], q[i])
    BY <2>1 DEF IsKept
  <2>5. n \in Nat /\ \A i \in 0 .. n + 1 : i = n + 1 \/ i \in 0 .. n
     OBVIOUS
  <2> HIDE DEF A, next
  <2>3. \A i \in 0 .. n + 1 : G[i] = IF i = 0 THEN <<>>
                          ELSE IF q[i] \in gone THEN G[i - 1] ELSE Append(G[i - 1], q[i])
    <3>1. CASE n = 0
        BY <3>1, <2>2, <2>5 DEF next
    <3> SUFFICES ASSUME NEW i \in 0 .. n+1 PROVE G[i] = IF i = 0 THEN <<>>
                          ELSE IF q[i] \in gone THEN G[i - 1] ELSE Append(G[i - 1], q[i])
         OBVIOUS
    <3>2. CASE i = n + 1
       <4>1. G[i] = next /\ i # 0 /\ i - 1 = n /\ G[i-1] = F[n]
         BY <3>2, <2>5
       <4>2. QED
         BY <4>1, <3>2 DEF next
    <3>3. CASE i # n + 1 /\ i # 0
       <4>1. i \in 0 .. n /\ i - 1 \in 0 .. n
         BY <3>3, <2>5
       <4>2. G[i] = F[i] /\ G[i-1] = F[i-1]
         BY <4>1, <2>5
       <4>3. QED
         BY <4>1, <4>2, <3>3, <2>2
    <3>4. CASE i = 0
       BY <3>4, <2>2, <2>5
    <3>5. QED
      BY <3>2, <3>3, <3>4
  <2>6. IsKept(G, q, gone, n + 1)
    <3> HIDE DEF G
    <3>1. G = [i \in 0 .. n+1 |-> G[i]]
       BY DEF G
    <3> QED
      BY <2>3, <3>1, Zenon DEF IsKept
  <2>4. QED
    BY <2>6, <2>5 DEF A
<1>3. QED
  BY <1>1, <1>2, SetInduction

(* Without returns what its loop kept of the whole queue.                   *)
LEMMA WithoutKept ==
    ASSUME NEW q, NEW gone, Len(q) \in Nat
    PROVE  \E F : IsKept(F, q, gone, Len(q)) /\ Without(q, gone) = F[Len(q)]
<1> DEFINE G == CHOOSE F : F = [i \in 0 .. Len(q) |-> IF i = 0 THEN <<>>
                                ELSE IF q[i] \in gone THEN F[i - 1] ELSE Append(F[i - 1], q[i])]
<1>0. \E F : IsKept(F, q, gone, Len(q))
  BY KeptExists
<1>1. IsKept(G, q, gone, Len(q))
  BY <1>0, Zenon DEF IsKept
<1>2. Without(q, gone) = G[Len(q)]
  BY Zenon DEF Without
<1>3. QED
  BY <1>1, <1>2, Zenon

(* What is left of a queue is a subsequence of it, none of it to be removed: *)
(* f gives the old index of each entry that is left.                        *)
LEMMA WithoutSelects ==
    ASSUME NEW T, NEW q \in Seq(T), NEW gone
    PROVE  /\ Without(q, gone) \in Seq(T)
           /\ \E f \in [1 .. Len(Without(q, gone)) -> 1 .. Len(q)] :
                  /\ \A i \in 1 .. Len(Without(q, gone)) :
                         Without(q, gone)[i] = q[f[i]] /\ q[f[i]] \notin gone
                  /\ \A i, j \in 1 .. Len(Without(q, gone)) : i < j => f[i] < f[j]
<1>1. PICK F : IsKept(F, q, gone, Len(q)) /\ Without(q, gone) = F[Len(q)]
  BY WithoutKept
<1> DEFINE Sel(n, f) == /\ f \in [1 .. Len(F[n]) -> 1 .. n]
                        /\ \A i \in 1 .. Len(F[n]) : F[n][i] = q[f[i]] /\ q[f[i]] \notin gone
                        /\ \A i, j \in 1 .. Len(F[n]) : i < j => f[i] < f[j]
           Good(n) == F[n] \in Seq(T) /\ \E f : Sel(n, f)
           A == {n \in Nat : n <= Len(q) => Good(n)}
<1>2. \A i \in 0 .. Len(q) : F[i] = IF i = 0 THEN <<>>
                          ELSE IF q[i] \in gone THEN F[i - 1] ELSE Append(F[i - 1], q[i])
  BY <1>1 DEF IsKept
<1>3. 0 \in A
  <2>1. F[0] = <<>>
    BY <1>2
  <2>2. Sel(0, [i \in 1 .. 0 |-> 0])
    BY <2>1
  <2>3. F[0] \in Seq(T)
    BY <2>1
  <2>4. Good(0)
    BY <2>2, <2>3
  <2>5. QED
    BY <2>4
<1>4. ASSUME NEW n \in A PROVE n + 1 \in A
  <2> SUFFICES ASSUME n + 1 <= Len(q) PROVE Good(n + 1)
    OBVIOUS
  <2>1. n \in Nat /\ n + 1 \in 0 .. Len(q) /\ Good(n) /\ n + 1 # 0 /\ (n + 1) - 1 = n
    OBVIOUS
  <2>2. F[n+1] = IF q[n + 1] \in gone THEN F[n] ELSE Append(F[n], q[n + 1])
    BY <1>2, <2>1
  <2>3. PICK f : Sel(n, f)
    BY <2>1
  <2>4. CASE q[n + 1] \in gone
    <3>1. F[n+1] = F[n]
      BY <2>2, <2>4
    <3>2. Sel(n + 1, f)
      BY <3>1, <2>3, <2>1
    <3>3. QED
      BY <3>1, <3>2, <2>1
  <2>5. CASE q[n + 1] \notin gone
    <3> DEFINE m == Len(F[n])
               g == [i \in 1 .. m + 1 |-> IF i = m + 1 THEN n + 1 ELSE f[i]]
    <3>0. q[n+1] \in T /\ F[n] \in Seq(T) /\ m \in Nat
      BY <2>1
    <3>1. F[n+1] = Append(F[n], q[n+1]) 
      BY <2>2, <2>5
    <3>2. F[n+1] \in Seq(T) /\ Len(F[n+1]) = m + 1 /\ F[n+1][m+1] = q[n+1]
          /\ \A i \in 1 .. m : F[n+1][i] = F[n][i]
      BY <3>1, <3>0
    <3>3. f \in [1 .. m -> 1 .. n] /\ (\A i \in 1 .. m : F[n][i] = q[f[i]] /\ q[f[i]] \notin gone)
          /\ \A i, j \in 1 .. m : i < j => f[i] < f[j]
      BY <2>3
    <3> HIDE DEF m
    <3>4. g \in [1 .. m + 1 -> 1 .. n + 1]
      BY <3>3, <3>0, <2>1
    <3>5. \A i \in 1 .. m + 1 : F[n+1][i] = q[g[i]] /\ q[g[i]] \notin gone
      BY <3>3, <3>2, <3>0, <2>5
    <3>6. \A i, j \in 1 .. m + 1 : i < j => g[i] < g[j]
      BY <3>3, <3>0, <2>1
    <3>7. Sel(n + 1, g)
      BY <3>4, <3>5, <3>6, <3>2
    <3>8. QED
      BY <3>2, <3>7
  <2>6. QED
    BY <2>4, <2>5
<1>5. A = Nat
  <2> HIDE DEF A
  <2>1. A \in SUBSET Nat BY DEF A
  <2> QED
    BY <1>3, <1>4, <2>1, SetInduction
<1>6. Good(Len(q))
  BY <1>5
<1>7. QED
  BY <1>1, <1>6

-----------------------------------------------------------------------------
(* Submission order. *)

(* Where each task is: a queue holds tasks of its own session, each once,   *)
(* that their Submit calls have put there; a busy consumer holds one of its *)
(* session that is no longer queued, an idle one none.                      *)
QueueInv ==
    /\ queue \in [Sessions -> Seq(Tasks)]
    /\ current \in [Tasks -> Tasks \cup {NoTask}]
    /\ \A s \in Sessions : \A i \in 1 .. Len(queue[s]) :
          SessionOf[queue[s][i]] = s /\ submit[queue[s][i]] \notin {"new", "registered"}
    /\ \A s \in Sessions : \A i, j \in 1 .. Len(queue[s]) : queue[s][i] = queue[s][j] => i = j
    /\ \A c \in Tasks : consumer[c] \in TaskStages =>
          /\ current[c] \in Tasks
          /\ SessionOf[current[c]] = SessionOf[c]
          /\ submit[current[c]] \notin {"new", "registered"}
          /\ \A i \in 1 .. Len(queue[SessionOf[c]]) : queue[SessionOf[c]][i] # current[c]
    /\ \A c \in Tasks : consumer[c] \notin TaskStages => current[c] = NoTask

(* Before the first Submit call every queue is empty.                       *)
LEMMA QueueInit == Init => QueueInv
  BY TaskAssumption DEF Init, QueueInv, TaskStages, HoldingStages

(* A Submit call that moves on once its task is queued disturbs no queue.   *)
LEMMA QueueSubmits ==
    ASSUME ClaimInv, QueueInv, NEW t \in Tasks, NEW stage, submit' = [submit EXCEPT ![t] = stage],
           stage \notin {"new", "registered"} \/ submit[t] = "new",
           UNCHANGED <<queue, consumer, current>>
    PROVE  QueueInv'
<1>1. \A u \in Tasks : submit[u] \notin {"new", "registered"} => submit'[u] \notin {"new", "registered"}
  BY DEF ClaimInv
<1>2. \A s \in Sessions : \A i \in 1 .. Len(queue[s]) : queue[s][i] \in Tasks
  BY DEF QueueInv
<1>3. QED
  BY <1>1, <1>2 DEF QueueInv

(* Neither does a consumer that keeps the task it has in hand.              *)
LEMMA QueueConsumers ==
    ASSUME ClaimInv, QueueInv, NEW c \in Tasks, NEW stage, ConsumerTo(c, stage),
           consumer[c] \in TaskStages <=> stage \in TaskStages,
           UNCHANGED <<submit, queue, current>>
    PROVE  QueueInv'
  BY DEF QueueInv, ConsumerTo, ClaimInv

(* A queue that loses tasks, the others in the same order, is still one.    *)
LEMMA QueueSwept ==
    ASSUME QueueInv, NEW s \in Sessions, NEW gone,
           queue' = [queue EXCEPT ![s] = Without(@, gone)],
           UNCHANGED <<submit, consumer, current>>
    PROVE  /\ QueueInv'
           /\ \E f \in [1 .. Len(queue'[s]) -> 1 .. Len(queue[s])] :
                  /\ \A i \in 1 .. Len(queue'[s]) : queue'[s][i] = queue[s][f[i]]
                  /\ \A i, j \in 1 .. Len(queue'[s]) : i < j => f[i] < f[j]
<1> DEFINE q == queue[s]
           r == Without(q, gone)
<1>1. q \in Seq(Tasks)
  BY DEF QueueInv
<1>2. r \in Seq(Tasks)
  BY <1>1, WithoutSelects
<1>3. PICK f \in [1 .. Len(r) -> 1 .. Len(q)] :
          /\ \A i \in 1 .. Len(r) : r[i] = q[f[i]]
          /\ \A i, j \in 1 .. Len(r) : i < j => f[i] < f[j]
  BY <1>1, WithoutSelects
<1> HIDE DEF r
<1>4. /\ queue' \in [Sessions -> Seq(Tasks)]
      /\ queue'[s] = r /\ \A z \in Sessions \ {s} : queue'[z] = queue[z]
  <2>1. queue' = [queue EXCEPT ![s] = r]
    BY DEF r
  <2>2. QED
    BY <1>2, <2>1 DEF QueueInv
<1>5. \A i, j \in 1 .. Len(r) : r[i] = r[j] => i = j
  <2> SUFFICES ASSUME NEW i \in 1 .. Len(r), NEW j \in 1 .. Len(r), r[i] = r[j] PROVE i = j
    OBVIOUS
  <2>1. f[i] = f[j]
    BY <1>3 DEF QueueInv
  <2>2. Len(r) \in Nat /\ Len(q) \in Nat /\ f[i] \in 1 .. Len(q)
    BY <1>1, <1>2
  <2>3. ~(i < j) /\ ~(j < i)
    BY <1>3, <2>1, <2>2
  <2>4. QED
    BY <2>2, <2>3
<1>6. \A z \in Sessions : \A i \in 1 .. Len(queue'[z]) : \E j \in 1 .. Len(queue[z]) :
          queue'[z][i] = queue[z][j]
  <2> TAKE z \in Sessions
  <2>1. CASE z = s
    BY <1>3, <1>4, <2>1
  <2>2. CASE z # s
    BY <1>4, <2>2
  <2>3. QED
    BY <2>1, <2>2
<1>7. \A z \in Sessions : \A i, j \in 1 .. Len(queue'[z]) : queue'[z][i] = queue'[z][j] => i = j
  <2> TAKE z \in Sessions
  <2>1. CASE z = s
    BY <1>4, <1>5, <2>1
  <2>2. CASE z # s
    BY <1>4, <2>2 DEF QueueInv
  <2>3. QED
    BY <2>1, <2>2
<1>8. \A z \in Sessions : \A i \in 1 .. Len(queue'[z]) :
          SessionOf[queue'[z][i]] = z /\ submit[queue'[z][i]] \notin {"new", "registered"}
  BY <1>6 DEF QueueInv
<1>9. \A c \in Tasks : consumer[c] \in TaskStages =>
          \A i \in 1 .. Len(queue'[SessionOf[c]]) : queue'[SessionOf[c]][i] # current[c]
  <2> SUFFICES ASSUME NEW c \in Tasks, consumer[c] \in TaskStages,
                      NEW i \in 1 .. Len(queue'[SessionOf[c]])
               PROVE  queue'[SessionOf[c]][i] # current[c]
    OBVIOUS
  <2>1. SessionOf[c] \in Sessions
    BY TaskAssumption
  <2>2. PICK j \in 1 .. Len(queue[SessionOf[c]]) : queue'[SessionOf[c]][i] = queue[SessionOf[c]][j]
    BY <1>6, <2>1
  <2>3. QED
    BY <2>2 DEF QueueInv
<1>10. QueueInv'
  BY <1>4, <1>7, <1>8, <1>9 DEF QueueInv
<1>11. QED
  BY <1>3, <1>4, <1>10

(* Every step keeps the queues and the tasks in hand apart.                 *)
LEMMA QueueStep == ClaimInv /\ QueueInv /\ [Next]_vars => QueueInv'
<1> SUFFICES ASSUME ClaimInv, QueueInv, [Next]_vars PROVE QueueInv'
  OBVIOUS
<1> USE DEF submits, queues, consumers, cancels
<1>0. consumer \in [Tasks -> ConsumerStages] /\ submit \in [Tasks -> SubmitStages]
  BY DEF ClaimInv
<1>1. ASSUME UNCHANGED <<submit, queue, consumer, current>> PROVE QueueInv'
  BY <1>1 DEF QueueInv
<1>2. ASSUME NEW t \in Tasks, Register(t) \/ Lookup(t) \/ Await(t) \/ CallerGivesUp(t)
      PROVE  QueueInv'
  <2>1. PICK stage \in {"registered", "waiting", "returned"} : submit' = [submit EXCEPT ![t] = stage]
    BY <1>2 DEF Register, Lookup, Await, CallerGivesUp, SubmitTo, ReturnWith
  <2>2. stage = "registered" => submit[t] = "new"
    BY <1>0, <1>2, <2>1 DEF Register, Lookup, Await, CallerGivesUp, SubmitTo, ReturnWith
  <2>3. UNCHANGED <<queue, consumer, current>>
    BY <1>2 DEF Register, Lookup, Await, CallerGivesUp
  <2>4. QED
    BY <2>1, <2>2, <2>3, QueueSubmits
<1>3. ASSUME NEW t \in Tasks, Enqueue(t) PROVE QueueInv'
  <2> DEFINE s == SessionOf[t]
             q == queue[s]
  <2>1. /\ submit[t] = "registered" /\ submit' = [submit EXCEPT ![t] = "queued"]
        /\ queue' = [queue EXCEPT ![s] = Append(q, t)]
        /\ UNCHANGED <<consumer, current>>
    BY <1>3 DEF Enqueue, SubmitTo
  <2>2. s \in Sessions /\ q \in Seq(Tasks)
    BY TaskAssumption DEF QueueInv
  <2> DEFINE r == Append(q, t)
  <2>3. /\ r \in Seq(Tasks) /\ Len(r) = Len(q) + 1 /\ r[Len(q) + 1] = t
        /\ \A i \in 1 .. Len(q) : r[i] = q[i]
    BY <2>2
  <2>4. Len(q) \in Nat /\ \A i \in 1 .. Len(r) : i = Len(q) + 1 \/ i \in 1 .. Len(q)
    BY <2>2, <2>3
  <2>5. /\ \A i \in 1 .. Len(q) : q[i] # t
        /\ \A i, j \in 1 .. Len(q) : q[i] = q[j] => i = j
    BY <2>1, <2>2 DEF QueueInv
  <2>6. /\ queue' \in [Sessions -> Seq(Tasks)]
        /\ queue'[s] = r /\ \A z \in Sessions \ {s} : queue'[z] = queue[z]
    BY <2>1, <2>2, <2>3 DEF QueueInv
  <2> HIDE DEF r
  <2>7. \A u \in Tasks : submit[u] \notin {"new", "registered"} => submit'[u] \notin {"new", "registered"}
    BY <1>0, <2>1
  <2>8. \A z \in Sessions : \A i \in 1 .. Len(queue'[z]) :
            SessionOf[queue'[z][i]] = z /\ submit'[queue'[z][i]] \notin {"new", "registered"}
    <3> SUFFICES ASSUME NEW z \in Sessions, NEW i \in 1 .. Len(queue'[z])
                 PROVE  SessionOf[queue'[z][i]] = z /\ submit'[queue'[z][i]] \notin {"new", "registered"}
      OBVIOUS
    <3>1. CASE z = s /\ i = Len(q) + 1
      BY <1>0, <2>1, <2>3, <2>6, <3>1
    <3>2. CASE ~(z = s /\ i = Len(q) + 1)
      <4>1. i \in 1 .. Len(queue[z]) /\ queue'[z][i] = queue[z][i]
        BY <2>3, <2>4, <2>6, <3>2
      <4>2. queue[z][i] \in Tasks
        BY <4>1 DEF QueueInv
      <4>3. QED
        BY <2>7, <4>1, <4>2 DEF QueueInv
    <3>3. QED
      BY <3>1, <3>2
  <2>9. \A z \in Sessions : \A i, j \in 1 .. Len(queue'[z]) : queue'[z][i] = queue'[z][j] => i = j
    <3> SUFFICES ASSUME NEW z \in Sessions, NEW i \in 1 .. Len(queue'[z]),
                        NEW j \in 1 .. Len(queue'[z]), queue'[z][i] = queue'[z][j]
                 PROVE  i = j
      OBVIOUS
    <3>1. CASE z = s
      <4>1. i \in 1 .. Len(r) /\ j \in 1 .. Len(r) /\ r[i] = r[j]
        BY <2>6, <3>1
      <4>2. CASE i = Len(q) + 1 \/ j = Len(q) + 1
        BY <2>3, <2>4, <2>5, <4>1, <4>2
      <4>3. CASE i \in 1 .. Len(q) /\ j \in 1 .. Len(q)
        BY <2>3, <2>5, <4>1, <4>3
      <4>4. QED
        BY <2>4, <4>1, <4>2, <4>3
    <3>2. CASE z # s
      BY <2>6, <3>2 DEF QueueInv
    <3>3. QED
      BY <3>1, <3>2
  <2>10. ASSUME NEW c \in Tasks, consumer[c] \in TaskStages
         PROVE  /\ submit'[current[c]] \notin {"new", "registered"}
                /\ \A i \in 1 .. Len(queue'[SessionOf[c]]) : queue'[SessionOf[c]][i] # current[c]
    <3>1. current[c] \in Tasks /\ SessionOf[c] \in Sessions
      BY <2>10, TaskAssumption DEF QueueInv
    <3>2. current[c] # t /\ submit'[current[c]] \notin {"new", "registered"}
      BY <2>1, <2>7, <2>10, <3>1 DEF QueueInv
    <3>3. \A i \in 1 .. Len(queue[SessionOf[c]]) : queue[SessionOf[c]][i] # current[c]
      BY <2>10 DEF QueueInv
    <3>4. \A i \in 1 .. Len(queue'[SessionOf[c]]) : queue'[SessionOf[c]][i] # current[c]
      <4>1. CASE SessionOf[c] = s
        <5>1. queue'[SessionOf[c]] = r /\ queue[SessionOf[c]] = q
          BY <2>6, <4>1
        <5>2. \A i \in 1 .. Len(r) : r[i] # current[c]
          BY <2>3, <2>4, <3>2, <3>3, <5>1
        <5>3. QED
          BY <5>1, <5>2
      <4>2. CASE SessionOf[c] # s
        <5>1. queue'[SessionOf[c]] = queue[SessionOf[c]]
          BY <2>6, <3>1, <4>2
        <5>2. QED
          BY <3>3, <5>1
      <4>3. QED
        BY <4>1, <4>2
    <3>5. QED
      BY <3>2, <3>4
  <2>11. QED
    BY <2>1, <2>6, <2>8, <2>9, <2>10 DEF QueueInv
<1>4. ASSUME NEW t \in Tasks, SpawnAndWake(t) PROVE QueueInv'
  <2>1. PICK stage \in {"lookup", "returned"} : submit' = [submit EXCEPT ![t] = stage]
    BY <1>4 DEF SpawnAndWake, SubmitTo, ReturnWith
  <2>2. consumer[t] = "none" /\ UNCHANGED <<queue, current>>
    BY <1>4 DEF SpawnAndWake, ClaimInv
  <2>3. \A c \in Tasks : consumer'[c] \in TaskStages <=> consumer[c] \in TaskStages
    BY <1>0, <1>4, <2>2 DEF SpawnAndWake, TaskStages, HoldingStages
  <2>4. \A u \in Tasks : submit[u] \notin {"new", "registered"} => submit'[u] \notin {"new", "registered"}
    BY <1>0, <2>1
  <2>5. \A s \in Sessions : \A i \in 1 .. Len(queue[s]) : queue[s][i] \in Tasks
    BY DEF QueueInv
  <2>6. QED
    BY <2>2, <2>3, <2>4, <2>5 DEF QueueInv
<1>5. ASSUME NEW c \in Tasks, WaitWake(c) PROVE QueueInv'
  <2>1. PICK stage \in {"exit", "drain"} : ConsumerTo(c, stage)
    BY <1>5 DEF WaitWake, ExitConsumer
  <2>2. consumer[c] = "wait" /\ UNCHANGED <<submit, queue, current>>
    BY <1>5 DEF WaitWake, ExitConsumer
  <2>3. QED
    BY <2>1, <2>2, QueueConsumers DEF TaskStages, HoldingStages
<1>6. ASSUME NEW c \in Tasks, Pop(c), queue[SessionOf[c]] = <<>> PROVE QueueInv'
  <2>1. ConsumerTo(c, "wait") /\ consumer[c] = "drain" /\ UNCHANGED <<submit, queue, current>>
    BY <1>6 DEF Pop
  <2>2. QED
    BY <2>1, QueueConsumers DEF TaskStages, HoldingStages
<1>7. ASSUME NEW c \in Tasks, Pop(c), queue[SessionOf[c]] # <<>> PROVE QueueInv'
  <2> DEFINE s == SessionOf[c]
             q == queue[s]
             r == Tail(q)
  <2>1. /\ consumer[c] = "drain" /\ ConsumerTo(c, "check")
        /\ current' = [current EXCEPT ![c] = Head(q)]
        /\ queue' = [queue EXCEPT ![s] = r]
        /\ UNCHANGED submit
    BY <1>7 DEF Pop
  <2>2. s \in Sessions /\ q \in Seq(Tasks) /\ q # <<>>
    BY <1>7, TaskAssumption DEF QueueInv
  <2>3. /\ r \in Seq(Tasks) /\ Len(r) = Len(q) - 1 /\ Len(q) \in Nat \ {0} /\ Head(q) = q[1]
        /\ \A i \in 1 .. Len(r) : r[i] = q[i + 1] /\ i + 1 \in 1 .. Len(q) /\ i + 1 # 1
    BY <2>2
  <2> HIDE DEF r
  <2>4. /\ queue' \in [Sessions -> Seq(Tasks)]
        /\ queue'[s] = r /\ \A z \in Sessions \ {s} : queue'[z] = queue[z]
    BY <2>1, <2>2, <2>3 DEF QueueInv
  <2>5. 1 \in 1 .. Len(q) /\ q[1] \in Tasks /\ SessionOf[q[1]] = s
        /\ submit[q[1]] \notin {"new", "registered"}
    BY <2>2, <2>3 DEF QueueInv
  <2>6. \A z \in Sessions : \A i \in 1 .. Len(queue'[z]) : \E j \in 1 .. Len(queue[z]) :
            queue'[z][i] = queue[z][j]
    BY <2>3, <2>4
  <2>7. \A z \in Sessions : \A i, j \in 1 .. Len(queue'[z]) : queue'[z][i] = queue'[z][j] => i = j
    <3> SUFFICES ASSUME NEW z \in Sessions, NEW i \in 1 .. Len(queue'[z]),
                        NEW j \in 1 .. Len(queue'[z]), queue'[z][i] = queue'[z][j]
                 PROVE  i = j
      OBVIOUS
    <3>1. CASE z = s
      <4>1. i \in 1 .. Len(r) /\ j \in 1 .. Len(r) /\ r[i] = r[j]
        BY <2>4, <3>1
      <4>2. \A m, n \in 1 .. Len(q) : q[m] = q[n] => m = n
        BY <2>2 DEF QueueInv
      <4>3. i + 1 = j + 1
        BY <2>3, <4>1, <4>2
      <4>4. QED
        BY <2>3, <4>1, <4>3
    <3>2. CASE z # s
      BY <2>4, <3>2 DEF QueueInv
    <3>3. QED
      BY <3>1, <3>2
  <2>8. ASSUME NEW d \in Tasks, consumer'[d] \in TaskStages
        PROVE  /\ current'[d] \in Tasks
               /\ SessionOf[current'[d]] = SessionOf[d]
               /\ submit[current'[d]] \notin {"new", "registered"}
               /\ \A i \in 1 .. Len(queue'[SessionOf[d]]) : queue'[SessionOf[d]][i] # current'[d]
    <3>1. CASE d = c
      <4>1. current'[d] = q[1]
        BY <2>1, <2>3, <3>1 DEF QueueInv
      <4>2. \A i \in 1 .. Len(r) : r[i] # q[1]
        BY <2>2, <2>3, <2>5 DEF QueueInv
      <4>3. QED
        BY <2>4, <2>5, <3>1, <4>1, <4>2
    <3>2. CASE d # c
      <4>1. consumer[d] \in TaskStages /\ current'[d] = current[d] /\ SessionOf[d] \in Sessions
        BY <1>0, <2>1, <2>8, <3>2, TaskAssumption DEF ConsumerTo, QueueInv
      <4>2. \A i \in 1 .. Len(queue'[SessionOf[d]]) : queue'[SessionOf[d]][i] # current[d]
        <5> SUFFICES ASSUME NEW i \in 1 .. Len(queue'[SessionOf[d]])
                     PROVE  queue'[SessionOf[d]][i] # current[d]
          OBVIOUS
        <5>1. PICK j \in 1 .. Len(queue[SessionOf[d]]) :
                    queue'[SessionOf[d]][i] = queue[SessionOf[d]][j]
          BY <2>6, <4>1
        <5>2. QED
          BY <4>1, <5>1 DEF QueueInv
      <4>3. QED
        BY <4>1, <4>2 DEF QueueInv
    <3>3. QED
      BY <3>1, <3>2
  <2>9. \A z \in Sessions : \A i \in 1 .. Len(queue'[z]) :
            SessionOf[queue'[z][i]] = z /\ submit[queue'[z][i]] \notin {"new", "registered"}
    BY <2>6 DEF QueueInv
  <2>10. \A d \in Tasks : consumer'[d] \notin TaskStages => current'[d] = NoTask
    BY <1>0, <2>1 DEF ConsumerTo, QueueInv, TaskStages, HoldingStages
  <2>11. current' \in [Tasks -> Tasks \cup {NoTask}]
    BY <2>1, <2>3, <2>5 DEF QueueInv
  <2>12. QED
    BY <2>1, <2>4, <2>7, <2>8, <2>9, <2>10, <2>11 DEF QueueInv
<1>8. ASSUME NEW c \in Tasks,
             Check(c) \/ Acquire(c) \/ Arm(c) \/ Return(c) \/ Disarm(c) \/ ReleaseSlot(c)
      PROVE  QueueInv'
  <2>1. PICK stage \in TaskStages : ConsumerTo(c, stage)
    BY <1>8 DEF Check, Acquire, Arm, Return, Disarm, ReleaseSlot, TaskStages, HoldingStages
  <2>2. consumer[c] \in TaskStages /\ UNCHANGED <<submit, queue, current>>
    BY <1>8 DEF Check, Acquire, Arm, Return, Disarm, ReleaseSlot, TaskStages, HoldingStages
  <2>3. QED
    BY <2>1, <2>2, QueueConsumers
<1>9. ASSUME NEW c \in Tasks, Settle(c) PROVE QueueInv'
  <2>1. PICK stage \in {"exit", "drain"} : ConsumerTo(c, stage)
    BY <1>9 DEF Settle, ExitConsumer
  <2>2. current' = [current EXCEPT ![c] = NoTask] /\ UNCHANGED <<submit, queue>>
    BY <1>9 DEF Settle, ExitConsumer
  <2>3. stage \notin TaskStages
    BY <2>1 DEF TaskStages, HoldingStages
  <2>4. QED
    BY <1>0, <2>1, <2>2, <2>3 DEF ConsumerTo, QueueInv
<1>10. ASSUME NEW k \in Cancels, CancelSweep(k) PROVE QueueInv'
  <2>1. CASE sweep[k] = {}
    BY <1>1, <1>10, <2>1 DEF CancelSweep
  <2>2. CASE sweep[k] # {}
    <3>1. PICK s \in sweep[k] : queue' = [queue EXCEPT ![s] = Without(@, matched[k])]
      BY <1>10, <2>2 DEF CancelSweep
    <3>2. UNCHANGED <<submit, consumer, current>>
      BY <1>10 DEF CancelSweep
    <3>3. CASE s \in Sessions
      BY <3>1, <3>2, <3>3, QueueSwept
    <3>4. CASE s \notin Sessions
      BY <1>1, <3>1, <3>2, <3>4 DEF QueueInv
    <3>5. QED
      BY <3>3, <3>4
  <2>3. QED
    BY <2>1, <2>2
<1>11. ASSUME NEW k \in Cancels, CancelOwner(k) \/ CancelSession(k) \/ CancelMark(k)
       PROVE  QueueInv'
  BY <1>1, <1>11 DEF CancelOwner, CancelSession, CancelMatch, CancelMark
<1>12. ASSUME NEW c \in Tasks, Watch(c) \/ Deadline(c) PROVE QueueInv'
  BY <1>1, <1>12 DEF Watch, Deadline
<1>13. CASE Close \/ UNCHANGED vars
  BY <1>1, <1>13 DEF Close, vars
<1>14. QED
  BY <1>2, <1>3, <1>4, <1>5, <1>6, <1>7, <1>8, <1>9, <1>10, <1>11, <1>12, <1>13
  DEF Next, Submitter, Consumer, Canceller

(* The order of submission: what was submitted before t registered stays    *)
(* ahead of t in the queue, and has left it once a consumer has t in hand.  *)
OrderInv ==
    /\ before \in [Tasks -> SUBSET Tasks]
    /\ \A t \in Tasks : \A u \in before[t] :
          /\ SessionOf[u] = SessionOf[t] /\ u # t
          /\ submit[u] \in {"lookup", "waiting", "returned"} /\ submit[t] # "new"
    /\ \A s \in Sessions : \A i, j \in 1 .. Len(queue[s]) :
          queue[s][j] \in before[queue[s][i]] => j < i
    /\ \A c \in Tasks : consumer[c] \in TaskStages =>
          \A i \in 1 .. Len(queue[SessionOf[c]]) :
             queue[SessionOf[c]][i] \notin before[current[c]]

(* Nothing comes before anything yet.                                       *)
LEMMA OrderInit == Init => OrderInv
<1> SUFFICES ASSUME Init PROVE OrderInv
  OBVIOUS
<1>1. \A s \in Sessions : 1 .. Len(queue[s]) = {}
  BY DEF Init
<1>2. before \in [Tasks -> SUBSET Tasks] /\ \A t \in Tasks : before[t] = {}
  BY DEF Init
<1>3. \A c \in Tasks : consumer[c] \notin TaskStages
  BY DEF Init, TaskStages, HoldingStages
<1>4. QED
  BY <1>1, <1>2, <1>3 DEF OrderInv

(* A step that only moves Submit calls on, or consumers, keeps the order.   *)
LEMMA OrderKept ==
    ASSUME OrderInv, UNCHANGED <<before, queue, current>>,
           \A u \in Tasks : /\ submit[u] # "new" => submit'[u] # "new"
                            /\ submit[u] \in {"lookup", "waiting", "returned"} =>
                                  submit'[u] \in {"lookup", "waiting", "returned"}
                            /\ consumer'[u] \in TaskStages => consumer[u] \in TaskStages
    PROVE  OrderInv'
<1>1. \A t \in Tasks : \A u \in before[t] : u \in Tasks
  BY DEF OrderInv
<1>2. QED
  BY <1>1 DEF OrderInv

(* Every step keeps the order.                                              *)
LEMMA OrderStep == ClaimInv /\ QueueInv /\ OrderInv /\ [Next]_vars => OrderInv'
<1> SUFFICES ASSUME ClaimInv, QueueInv, OrderInv, [Next]_vars PROVE OrderInv'
  OBVIOUS
<1> USE DEF submits, queues, consumers, cancels
<1>0. /\ consumer \in [Tasks -> ConsumerStages] /\ submit \in [Tasks -> SubmitStages]
      /\ \A c \in Tasks : SessionOf[c] \in Sessions
  BY TaskAssumption DEF ClaimInv
<1>1. ASSUME UNCHANGED <<before, submit, queue, consumer, current>> PROVE OrderInv'
  BY <1>1 DEF OrderInv
<1>2. ASSUME NEW t \in Tasks, Register(t), ~closed PROVE OrderInv'
  <2> DEFINE B == {u \in InSession(SessionOf[t]) : submit[u] \in {"lookup", "waiting", "returned"}}
  <2>1. /\ submit[t] = "new" /\ submit' = [submit EXCEPT ![t] = "registered"]
        /\ before' = [before EXCEPT ![t] = B] /\ UNCHANGED <<queue, consumer, current>>
    BY <1>2 DEF Register, SubmitTo
  <2>2. before' \in [Tasks -> SUBSET Tasks] /\ before'[t] = B
        /\ \A v \in Tasks \ {t} : before'[v] = before[v]
    BY <2>1 DEF OrderInv, InSession
  <2>3. \A v \in Tasks : \A u \in before'[v] :
          /\ SessionOf[u] = SessionOf[v] /\ u # v
          /\ submit'[u] \in {"lookup", "waiting", "returned"} /\ submit'[v] # "new"
    <3> SUFFICES ASSUME NEW v \in Tasks, NEW u \in before'[v]
                 PROVE  /\ SessionOf[u] = SessionOf[v] /\ u # v
                        /\ submit'[u] \in {"lookup", "waiting", "returned"} /\ submit'[v] # "new"
      OBVIOUS
    <3>1. CASE v = t
      BY <1>0, <2>1, <2>2, <3>1 DEF InSession
    <3>2. CASE v # t
      BY <1>0, <2>1, <2>2, <3>2 DEF OrderInv
    <3>3. QED
      BY <3>1, <3>2
  <2>4. \A s \in Sessions : \A i \in 1 .. Len(queue[s]) :
            queue[s][i] \in Tasks /\ queue[s][i] # t
    BY <2>1 DEF QueueInv
  <2>5. \A c \in Tasks : consumer[c] \in TaskStages => current[c] \in Tasks /\ current[c] # t
    BY <2>1 DEF QueueInv
  <2>6. \A s \in Sessions : \A i, j \in 1 .. Len(queue[s]) :
            queue[s][j] \in before'[queue[s][i]] => j < i
    BY <2>2, <2>4 DEF OrderInv
  <2>7. \A c \in Tasks : consumer[c] \in TaskStages =>
          \A i \in 1 .. Len(queue[SessionOf[c]]) :
             queue[SessionOf[c]][i] \notin before'[current[c]]
    BY <2>2, <2>5 DEF OrderInv
  <2>8. QED
    BY <2>1, <2>2, <2>3, <2>6, <2>7 DEF OrderInv
<1>3. ASSUME NEW t \in Tasks,
             \/ (Register(t) /\ closed) \/ SpawnAndWake(t) \/ Lookup(t) \/ Await(t)
             \/ CallerGivesUp(t)
      PROVE  OrderInv'
  <2>1. PICK stage \in {"lookup", "waiting", "returned"} : submit' = [submit EXCEPT ![t] = stage]
    BY <1>3 DEF Register, SpawnAndWake, Lookup, Await, CallerGivesUp, SubmitTo, ReturnWith
  <2>2. UNCHANGED <<before, queue, current>>
    BY <1>3 DEF Register, SpawnAndWake, Lookup, Await, CallerGivesUp
  <2>3. \A c \in Tasks : consumer'[c] \in TaskStages => consumer[c] \in TaskStages
    BY <1>0, <1>3 DEF Register, SpawnAndWake, Lookup, Await, CallerGivesUp, TaskStages, HoldingStages
  <2>4. \A u \in Tasks : /\ submit[u] # "new" => submit'[u] # "new"
                         /\ submit[u] \in {"lookup", "waiting", "returned"} =>
                               submit'[u] \in {"lookup", "waiting", "returned"}
    BY <1>0, <2>1
  <2>5. QED
    BY <2>2, <2>3, <2>4, OrderKept
<1>4. ASSUME NEW t \in Tasks, Enqueue(t) PROVE OrderInv'
  <2> DEFINE s == SessionOf[t]
             q == queue[s]
             r == Append(q, t)
  <2>1. /\ submit[t] = "registered" /\ submit' = [submit EXCEPT ![t] = "queued"]
        /\ queue' = [queue EXCEPT ![s] = r]
        /\ UNCHANGED <<before, consumer, current>>
    BY <1>4 DEF Enqueue, SubmitTo
  <2>2. s \in Sessions /\ q \in Seq(Tasks)
    BY <1>0 DEF QueueInv
  <2>3. /\ Len(r) = Len(q) + 1 /\ r[Len(q) + 1] = t /\ Len(q) \in Nat
        /\ \A i \in 1 .. Len(q) : r[i] = q[i]
        /\ \A i \in 1 .. Len(r) : i = Len(q) + 1 \/ i \in 1 .. Len(q)
    BY <2>2
  <2>4. queue'[s] = r /\ \A z \in Sessions \ {s} : queue'[z] = queue[z]
    BY <2>1, <2>2 DEF QueueInv
  <2> HIDE DEF r
  <2>5. \A u \in Tasks : t \notin before[u]
    BY <2>1 DEF OrderInv
  <2>6. \A z \in Sessions : \A i, j \in 1 .. Len(queue'[z]) :
            queue'[z][j] \in before[queue'[z][i]] => j < i
    <3> SUFFICES ASSUME NEW z \in Sessions, NEW i \in 1 .. Len(queue'[z]),
                        NEW j \in 1 .. Len(queue'[z]), queue'[z][j] \in before[queue'[z][i]]
                 PROVE  j < i
      OBVIOUS
    <3>1. CASE z # s
      BY <2>4, <3>1 DEF OrderInv
    <3>2. CASE z = s
      <4>1. i \in 1 .. Len(r) /\ j \in 1 .. Len(r) /\ r[j] \in before[r[i]]
        BY <2>4, <3>2
      <4>2. r[i] \in Tasks
        BY <2>2, <2>3, <4>1
      <4>3. j \in 1 .. Len(q) /\ r[j] = q[j]
        BY <2>3, <2>5, <4>1, <4>2
      <4>4. CASE i = Len(q) + 1
        BY <2>3, <4>3, <4>4
      <4>5. CASE i \in 1 .. Len(q)
        BY <2>2, <2>3, <4>1, <4>3, <4>5 DEF OrderInv
      <4>6. QED
        BY <2>3, <4>1, <4>4, <4>5
    <3>3. QED
      BY <3>1, <3>2
  <2>7. \A c \in Tasks : consumer[c] \in TaskStages =>
          \A i \in 1 .. Len(queue'[SessionOf[c]]) :
             queue'[SessionOf[c]][i] \notin before[current[c]]
    <3> SUFFICES ASSUME NEW c \in Tasks, consumer[c] \in TaskStages,
                        NEW i \in 1 .. Len(queue'[SessionOf[c]])
                 PROVE  queue'[SessionOf[c]][i] \notin before[current[c]]
      OBVIOUS
    <3>1. current[c] \in Tasks
      BY DEF QueueInv
    <3>2. CASE SessionOf[c] # s
      BY <1>0, <2>4, <3>2 DEF OrderInv
    <3>3. CASE SessionOf[c] = s
      <4>1. i \in 1 .. Len(r) /\ queue'[SessionOf[c]][i] = r[i]
        BY <2>4, <3>3
      <4>2. CASE i = Len(q) + 1
        BY <2>3, <2>5, <3>1, <4>1, <4>2
      <4>3. CASE i \in 1 .. Len(q)
        BY <2>3, <3>3, <4>1, <4>3 DEF OrderInv
      <4>4. QED
        BY <2>3, <4>1, <4>2, <4>3
    <3>4. QED
      BY <3>2, <3>3
  <2>8. \A u \in Tasks : /\ submit[u] # "new" => submit'[u] # "new"
                         /\ submit[u] \in {"lookup", "waiting", "returned"} =>
                               submit'[u] \in {"lookup", "waiting", "returned"}
    BY <1>0, <2>1
  <2>9. \A v \in Tasks : \A u \in before[v] : u \in Tasks
    BY DEF OrderInv
  <2>10. QED
    BY <2>1, <2>6, <2>7, <2>8, <2>9 DEF OrderInv
<1>5. ASSUME NEW c \in Tasks, Pop(c), queue[SessionOf[c]] # <<>> PROVE OrderInv'
  <2> DEFINE s == SessionOf[c]
             q == queue[s]
             r == Tail(q)
  <2>1. /\ consumer[c] = "drain" /\ ConsumerTo(c, "check")
        /\ current' = [current EXCEPT ![c] = Head(q)]
        /\ queue' = [queue EXCEPT ![s] = r]
        /\ UNCHANGED <<submit, before>>
    BY <1>5 DEF Pop
  <2>2. s \in Sessions /\ q \in Seq(Tasks) /\ q # <<>>
    BY <1>0, <1>5 DEF QueueInv
  <2>3. /\ r \in Seq(Tasks) /\ Len(r) = Len(q) - 1 /\ Len(q) \in Nat \ {0} /\ Head(q) = q[1]
        /\ \A i \in 1 .. Len(r) : r[i] = q[i + 1] /\ i + 1 \in 1 .. Len(q) /\ ~(i + 1 < 1)
    BY <2>2
  <2> HIDE DEF r
  <2>4. queue'[s] = r /\ \A z \in Sessions \ {s} : queue'[z] = queue[z]
    BY <2>1, <2>2 DEF QueueInv
  <2>5. \A i, j \in 1 .. Len(q) : q[j] \in before[q[i]] => j < i
    BY <2>2 DEF OrderInv
  <2>6. \A z \in Sessions : \A i, j \in 1 .. Len(queue'[z]) :
            queue'[z][j] \in before[queue'[z][i]] => j < i
    <3> SUFFICES ASSUME NEW z \in Sessions, NEW i \in 1 .. Len(queue'[z]),
                        NEW j \in 1 .. Len(queue'[z]), queue'[z][j] \in before[queue'[z][i]]
                 PROVE  j < i
      OBVIOUS
    <3>1. CASE z # s
      BY <2>4, <3>1 DEF OrderInv
    <3>2. CASE z = s
      <4>1. i \in 1 .. Len(r) /\ j \in 1 .. Len(r) /\ r[j] \in before[r[i]]
        BY <2>4, <3>2
      <4>2. j + 1 < i + 1
        BY <2>3, <2>5, <4>1
      <4>3. QED
        BY <2>3, <4>1, <4>2
    <3>3. QED
      BY <3>1, <3>2
  <2>7. \A d \in Tasks : consumer'[d] \in TaskStages =>
          \A i \in 1 .. Len(queue'[SessionOf[d]]) :
             queue'[SessionOf[d]][i] \notin before[current'[d]]
    <3> SUFFICES ASSUME NEW d \in Tasks, consumer'[d] \in TaskStages,
                        NEW i \in 1 .. Len(queue'[SessionOf[d]])
                 PROVE  queue'[SessionOf[d]][i] \notin before[current'[d]]
      OBVIOUS
    <3>1. CASE d = c
      <4>1. current'[d] = q[1] /\ 1 \in 1 .. Len(q)
        BY <2>1, <2>3, <3>1 DEF QueueInv
      <4>2. i \in 1 .. Len(r) /\ queue'[SessionOf[d]][i] = q[i + 1]
        BY <2>3, <2>4, <3>1
      <4>3. QED
        BY <2>3, <2>5, <4>1, <4>2
    <3>2. CASE d # c
      <4>1. consumer[d] \in TaskStages /\ current'[d] = current[d]
        BY <1>0, <2>1, <3>2 DEF ConsumerTo, QueueInv
      <4>2. CASE SessionOf[d] # s
        BY <1>0, <2>4, <4>1, <4>2 DEF OrderInv
      <4>3. CASE SessionOf[d] = s
        <5>1. i \in 1 .. Len(r) /\ queue'[SessionOf[d]][i] = q[i + 1]
          BY <2>3, <2>4, <4>3
        <5>2. QED
          BY <2>3, <4>1, <4>3, <5>1 DEF OrderInv
      <4>4. QED
        BY <4>2, <4>3
    <3>3. QED
      BY <3>1, <3>2
  <2>8. QED
    BY <2>1, <2>6, <2>7 DEF OrderInv
<1>6. ASSUME NEW c \in Tasks, WaitWake(c) \/ (Pop(c) /\ queue[SessionOf[c]] = <<>>)
      PROVE  OrderInv'
  <2>1. PICK stage \in {"exit", "drain", "wait"} : ConsumerTo(c, stage)
    BY <1>6 DEF WaitWake, ExitConsumer, Pop
  <2>2. UNCHANGED <<submit, before, queue, current>>
    BY <1>6 DEF WaitWake, ExitConsumer, Pop
  <2>3. QED
    BY <1>0, <2>1, <2>2, OrderKept DEF ConsumerTo, TaskStages, HoldingStages
<1>7. ASSUME NEW c \in Tasks,
             Check(c) \/ Acquire(c) \/ Arm(c) \/ Return(c) \/ Disarm(c) \/ ReleaseSlot(c)
      PROVE  OrderInv'
  <2>1. PICK stage \in TaskStages : ConsumerTo(c, stage)
    BY <1>7 DEF Check, Acquire, Arm, Return, Disarm, ReleaseSlot, TaskStages, HoldingStages
  <2>2. consumer[c] \in TaskStages /\ UNCHANGED <<submit, before, queue, current>>
    BY <1>7 DEF Check, Acquire, Arm, Return, Disarm, ReleaseSlot, TaskStages, HoldingStages
  <2>3. QED
    BY <1>0, <2>1, <2>2, OrderKept DEF ConsumerTo
<1>8. ASSUME NEW c \in Tasks, Settle(c) PROVE OrderInv'
  <2>1. PICK stage \in {"exit", "drain"} : ConsumerTo(c, stage)
    BY <1>8 DEF Settle, ExitConsumer
  <2>2. current' = [current EXCEPT ![c] = NoTask] /\ UNCHANGED <<submit, before, queue>>
    BY <1>8 DEF Settle, ExitConsumer
  <2>3. stage \notin TaskStages
    BY <2>1 DEF TaskStages, HoldingStages
  <2>4. \A d \in Tasks : consumer'[d] \in TaskStages =>
            consumer[d] \in TaskStages /\ current'[d] = current[d]
    BY <1>0, <2>1, <2>2, <2>3 DEF ConsumerTo, QueueInv
  <2>5. QED
    BY <2>2, <2>4 DEF OrderInv
<1>9. ASSUME NEW k \in Cancels, CancelSweep(k) PROVE OrderInv'
  <2>1. CASE sweep[k] = {}
    BY <1>1, <1>9, <2>1 DEF CancelSweep
  <2>2. CASE sweep[k] # {}
    <3>1. PICK s \in sweep[k] : queue' = [queue EXCEPT ![s] = Without(@, matched[k])]
      BY <1>9, <2>2 DEF CancelSweep
    <3>2. UNCHANGED <<submit, before, consumer, current>>
      BY <1>9 DEF CancelSweep
    <3>3. CASE s \notin Sessions
      BY <1>1, <3>1, <3>2, <3>3 DEF QueueInv
    <3>4. CASE s \in Sessions
      <4>1. PICK f \in [1 .. Len(queue'[s]) -> 1 .. Len(queue[s])] :
                /\ \A i \in 1 .. Len(queue'[s]) : queue'[s][i] = queue[s][f[i]]
                /\ \A i, j \in 1 .. Len(queue'[s]) : i < j => f[i] < f[j]
        BY <3>1, <3>2, <3>4, QueueSwept
      <4>2. \A z \in Sessions \ {s} : queue'[z] = queue[z]
        BY <3>1 DEF QueueInv
      <4>3. \A z \in Sessions : Len(queue'[z]) \in Nat /\ Len(queue[z]) \in Nat
        <5>1. QueueInv'
          BY <3>1, <3>2, <3>4, QueueSwept
        <5>2. QED
          BY <5>1 DEF QueueInv
      <4>4. \A z \in Sessions : \A i, j \in 1 .. Len(queue'[z]) :
                queue'[z][j] \in before[queue'[z][i]] => j < i
        <5> SUFFICES ASSUME NEW z \in Sessions, NEW i \in 1 .. Len(queue'[z]),
                            NEW j \in 1 .. Len(queue'[z]), queue'[z][j] \in before[queue'[z][i]]
                     PROVE  j < i
          OBVIOUS
        <5>1. CASE z # s
          BY <4>2, <5>1 DEF OrderInv
        <5>2. CASE z = s
          <6>1. f[j] < f[i]
            BY <4>1, <5>2 DEF OrderInv
          <6>2. ~(i < j) /\ i # j
            BY <4>1, <4>3, <5>2, <6>1
          <6>3. QED
            BY <4>3, <6>2
        <5>3. QED
          BY <5>1, <5>2
      <4>5. \A c \in Tasks : consumer[c] \in TaskStages =>
                \A i \in 1 .. Len(queue'[SessionOf[c]]) :
                    queue'[SessionOf[c]][i] \notin before[current[c]]
        <5> SUFFICES ASSUME NEW c \in Tasks, consumer[c] \in TaskStages,
                            NEW i \in 1 .. Len(queue'[SessionOf[c]])
                     PROVE  queue'[SessionOf[c]][i] \notin before[current[c]]
          OBVIOUS
        <5>1. CASE SessionOf[c] # s
          BY <1>0, <4>2, <5>1 DEF OrderInv
        <5>2. CASE SessionOf[c] = s
          <6>1. f[i] \in 1 .. Len(queue[s]) /\ queue'[s][i] = queue[s][f[i]]
            BY <4>1, <5>2
          <6>2. queue[s][f[i]] \notin before[current[c]]
            BY <5>2, <6>1 DEF OrderInv
          <6>3. QED
            BY <5>2, <6>1, <6>2
        <5>3. QED
          BY <5>1, <5>2
      <4>6. QED
        BY <3>2, <4>4, <4>5 DEF OrderInv
    <3>5. QED
      BY <3>3, <3>4
  <2>3. QED
    BY <2>1, <2>2
<1>10. ASSUME NEW k \in Cancels, CancelOwner(k) \/ CancelSession(k) \/ CancelMark(k)
       PROVE  OrderInv'
  BY <1>1, <1>10 DEF CancelOwner, CancelSession, CancelMatch, CancelMark
<1>11. ASSUME NEW c \in Tasks, Watch(c) \/ Deadline(c) PROVE OrderInv'
  BY <1>1, <1>11 DEF Watch, Deadline
<1>12. CASE Close \/ UNCHANGED vars
  BY <1>1, <1>12 DEF Close, vars
<1>13. ASSUME NEW t \in Tasks, Submitter(t) PROVE OrderInv'
  BY <1>2, <1>3, <1>4, <1>13 DEF Submitter
<1>14. ASSUME NEW c \in Tasks, Consumer(c) PROVE OrderInv'
  <2>1. ASSUME Pop(c) PROVE OrderInv'
    BY <1>5, <1>6, <2>1
  <2>2. QED
    BY <1>6, <1>7, <1>8, <1>11, <1>14, <2>1 DEF Consumer
<1>15. ASSUME NEW t \in Tasks, CallerGivesUp(t) \/ Deadline(t) \/ Return(t) PROVE OrderInv'
  BY <1>3, <1>7, <1>11, <1>15
<1>16. ASSUME NEW k \in Cancels, CancelOwner(k) \/ CancelSession(k) \/ Canceller(k) PROVE OrderInv'
  BY <1>9, <1>10, <1>16 DEF Canceller
<1>17. QED
  BY <1>12, <1>13, <1>14, <1>15, <1>16 DEF Next

(* A running task has overtaken nobody.                                     *)
LEMMA OrderHolds == ClaimInv /\ QueueInv /\ OrderInv => SubmissionOrder
<1> SUFFICES ASSUME ClaimInv, QueueInv, OrderInv, NEW t \in Running, NEW u \in before[t] \ {t}
             PROVE  u \notin Range(queue[SessionOf[u]]) /\ \A c \in Tasks : current[c] # u
  BY DEF SubmissionOrder
<1>1. PICK c \in Tasks : consumer[c] = "run" /\ t = current[c]
  BY DEF Running
<1>2. consumer[c] \in TaskStages
  BY <1>1 DEF TaskStages, HoldingStages
<1>3. t \in Tasks /\ SessionOf[t] = SessionOf[c]
  BY <1>1, <1>2 DEF QueueInv
<1>4. u \in Tasks /\ SessionOf[u] = SessionOf[c] /\ u # t /\ SessionOf[c] \in Sessions
  BY <1>3, TaskAssumption DEF OrderInv
<1>5. u \notin Range(queue[SessionOf[u]])
  <2>1. \A i \in 1 .. Len(queue[SessionOf[c]]) : queue[SessionOf[c]][i] # u
    BY <1>1, <1>2 DEF OrderInv
  <2>2. DOMAIN queue[SessionOf[c]] = 1 .. Len(queue[SessionOf[c]])
    BY <1>4 DEF QueueInv
  <2>3. QED
    BY <1>4, <2>1, <2>2 DEF Range
<1>6. ASSUME NEW d \in Tasks, current[d] = u PROVE FALSE
  <2>1. consumer[d] \in TaskStages /\ SessionOf[u] = SessionOf[d]
    BY <1>4, <1>6, NoTaskAssumption DEF QueueInv
  <2>2. d = c
    BY <1>2, <1>4, <2>1, ClaimsExclude DEF SerialPerSession
  <2>3. QED
    BY <1>1, <1>4, <1>6, <2>2
<1>7. QED
  BY <1>5, <1>6

(* The tasks of a session run in the order of their Submit calls, whatever  *)
(* cancels take out of the queue in between (Submit, consume, cancelWhere). *)
THEOREM FirstComeFirstServed == Spec => []SubmissionOrder
<1>1. Spec => [](ClaimInv /\ QueueInv /\ OrderInv)
  <2>1. Init => ClaimInv /\ QueueInv /\ OrderInv
    BY ClaimInit, QueueInit, OrderInit
  <2>2. ClaimInv /\ QueueInv /\ OrderInv /\ [Next]_vars => (ClaimInv /\ QueueInv /\ OrderInv)'
    BY ClaimStep, QueueStep, OrderStep
  <2>3. QED
    BY <2>1, <2>2, PTL DEF Spec
<1>2. QED
  BY <1>1, OrderHolds, PTL

-----------------------------------------------------------------------------
(* Wake-ups. *)

(* Initially every queue is empty.                                          *)
LEMMA WakeInit == Init => NoLostWakeup
  BY DEF Init, NoLostWakeup

(* A step after which every queue that is not empty was so before, and the  *)
(* tokens, the submitters about to post one and the busy consumers are      *)
(* still there, loses no wake-up.                                           *)
LEMMA WakeKept ==
    ASSUME NoLostWakeup, closed => closed',
           \A s \in Sessions : queue'[s] # <<>> => queue[s] # <<>>,
           wake \subseteq wake',
           \A t \in Tasks : /\ submit[t] = "queued" => submit'[t] = "queued"
                            /\ consumer[t] \in TaskStages \cup {"drain"} =>
                                  consumer'[t] \in TaskStages \cup {"drain"}
    PROVE  NoLostWakeup'
  BY DEF NoLostWakeup, InSession

(* Every step leaves a queued task somebody who will look at its queue.     *)
LEMMA WakeStep == ClaimInv /\ QueueInv /\ NoLostWakeup /\ [Next]_vars => NoLostWakeup'
<1> SUFFICES ASSUME ClaimInv, QueueInv, NoLostWakeup, [Next]_vars PROVE NoLostWakeup'
  OBVIOUS
<1> USE DEF submits, queues, consumers, cancels
<1>0. /\ consumer \in [Tasks -> ConsumerStages] /\ submit \in [Tasks -> SubmitStages]
      /\ \A c \in Tasks : SessionOf[c] \in Sessions
  BY TaskAssumption DEF ClaimInv
<1>1. ASSUME NEW t \in Tasks, Register(t) \/ Lookup(t) \/ Await(t) \/ CallerGivesUp(t)
      PROVE  NoLostWakeup'
  <2>1. UNCHANGED <<closed, queue, wake, consumer>>
    BY <1>1 DEF Register, Lookup, Await, CallerGivesUp
  <2>2. submit[t] # "queued" /\ \A u \in Tasks \ {t} : submit'[u] = submit[u]
    BY <1>0, <1>1 DEF Register, Lookup, Await, CallerGivesUp, SubmitTo, ReturnWith
  <2>3. QED
    BY <2>1, <2>2, WakeKept
<1>2. ASSUME NEW t \in Tasks, Enqueue(t) PROVE NoLostWakeup'
  <2>1. submit' = [submit EXCEPT ![t] = "queued"] /\ UNCHANGED <<closed, wake, consumer>>
        /\ queue' = [queue EXCEPT ![SessionOf[t]] = Append(@, t)]
    BY <1>2 DEF Enqueue, SubmitTo
  <2>2. submit'[t] = "queued" /\ \A u \in Tasks : submit[u] = "queued" => submit'[u] = "queued"
    BY <1>0, <2>1
  <2>3. \A s \in Sessions : s # SessionOf[t] => queue'[s] = queue[s]
    BY <2>1 DEF QueueInv
  <2>4. QED
    BY <2>1, <2>2, <2>3 DEF NoLostWakeup, InSession
<1>3. ASSUME NEW t \in Tasks, SpawnAndWake(t) PROVE NoLostWakeup'
  <2>1. PICK stage \in {"lookup", "returned"} : submit' = [submit EXCEPT ![t] = stage]
    BY <1>3 DEF SpawnAndWake, SubmitTo, ReturnWith
  <2>2. \A u \in Tasks \ {t} : submit'[u] = submit[u] /\ consumer'[u] = consumer[u]
    BY <1>0, <1>3, <2>1 DEF SpawnAndWake
  <2>3. consumer[t] = "none" /\ wake' = wake \cup {SessionOf[t]} /\ UNCHANGED <<queue, closed>>
    BY <1>3 DEF SpawnAndWake, ClaimInv
  <2>4. QED
    BY <2>2, <2>3 DEF NoLostWakeup, InSession, TaskStages, HoldingStages
<1>4. ASSUME NEW c \in Tasks, WaitWake(c) PROVE NoLostWakeup'
  <2>1. UNCHANGED <<submit, queue, closed>>
    BY <1>4 DEF WaitWake
  <2>2. CASE closed
    BY <2>1, <2>2 DEF NoLostWakeup
  <2>3. CASE ~closed
    <3>1. ConsumerTo(c, "drain") /\ wake' = wake \ {SessionOf[c]} /\ consumer[c] = "wait"
      BY <1>4, <2>3 DEF WaitWake
    <3>2. consumer'[c] = "drain" /\ \A d \in Tasks \ {c} : consumer'[d] = consumer[d]
      BY <1>0, <3>1 DEF ConsumerTo
    <3>3. QED
      BY <2>1, <3>1, <3>2 DEF NoLostWakeup, InSession, TaskStages, HoldingStages
  <2>4. QED
    BY <2>2, <2>3
<1>5. ASSUME NEW c \in Tasks, Pop(c), queue[SessionOf[c]] = <<>> PROVE NoLostWakeup'
  <2>1. ConsumerTo(c, "wait") /\ UNCHANGED <<submit, queue, closed, wake>>
    BY <1>5 DEF Pop
  <2>2. \A d \in Tasks \ {c} : consumer'[d] = consumer[d]
    BY <1>0, <2>1 DEF ConsumerTo
  <2>3. QED
    BY <1>5, <2>1, <2>2 DEF NoLostWakeup, InSession
<1>6. ASSUME NEW c \in Tasks, Pop(c), queue[SessionOf[c]] # <<>> PROVE NoLostWakeup'
  <2>1. /\ ConsumerTo(c, "check") /\ UNCHANGED <<submit, closed, wake>>
        /\ queue' = [queue EXCEPT ![SessionOf[c]] = Tail(@)]
    BY <1>6 DEF Pop
  <2>2. consumer'[c] = "check" /\ \A d \in Tasks \ {c} : consumer'[d] = consumer[d]
    BY <1>0, <2>1 DEF ConsumerTo
  <2>3. \A s \in Sessions : queue'[s] # <<>> => queue[s] # <<>>
    BY <1>6, <2>1 DEF QueueInv
  <2>4. QED
    BY <2>1, <2>2, <2>3, WakeKept DEF TaskStages, HoldingStages
<1>7. ASSUME NEW c \in Tasks,
             Check(c) \/ Acquire(c) \/ Arm(c) \/ Return(c) \/ Disarm(c) \/ ReleaseSlot(c)
      PROVE  NoLostWakeup'
  <2>1. PICK stage \in TaskStages : ConsumerTo(c, stage)
    BY <1>7 DEF Check, Acquire, Arm, Return, Disarm, ReleaseSlot, TaskStages, HoldingStages
  <2>2. UNCHANGED <<submit, queue, wake, closed>>
    BY <1>7 DEF Check, Acquire, Arm, Return, Disarm, ReleaseSlot
  <2>3. QED
    BY <1>0, <2>1, <2>2, WakeKept DEF ConsumerTo
<1>8. ASSUME NEW c \in Tasks, Settle(c) PROVE NoLostWakeup'
  <2>1. UNCHANGED <<submit, queue, wake, closed>>
    BY <1>8 DEF Settle
  <2>2. CASE closed
    BY <2>1, <2>2 DEF NoLostWakeup
  <2>3. CASE ~closed
    BY <1>0, <1>8, <2>1, <2>3, WakeKept DEF Settle, ConsumerTo
  <2>4. QED
    BY <2>2, <2>3
<1>9. ASSUME NEW k \in Cancels, CancelSweep(k) PROVE NoLostWakeup'
  <2>1. UNCHANGED <<submit, consumer, wake, closed>>
    BY <1>9 DEF CancelSweep
  <2>2. \A s \in Sessions : queue'[s] # <<>> => queue[s] # <<>>
    <3>1. CASE sweep[k] = {}
      BY <1>9, <3>1 DEF CancelSweep
    <3>2. CASE sweep[k] # {}
      <4>1. PICK s \in sweep[k] : queue' = [queue EXCEPT ![s] = Without(@, matched[k])]
        BY <1>9, <3>2 DEF CancelSweep
      <4>2. CASE s \in Sessions
        <5>1. PICK f \in [1 .. Len(queue'[s]) -> 1 .. Len(queue[s])] : TRUE
          BY <2>1, <4>1, <4>2, <1>9, QueueSwept DEF CancelSweep
        <5>2. queue'[s] \in Seq(Tasks) /\ queue[s] \in Seq(Tasks)
          BY <4>1, <4>2, WithoutSelects DEF QueueInv
        <5>3. queue'[s] # <<>> => queue[s] # <<>>
          BY <5>1, <5>2
        <5>4. QED
          BY <4>1, <5>3 DEF QueueInv
      <4>3. CASE s \notin Sessions
        BY <4>1, <4>3 DEF QueueInv
      <4>4. QED
        BY <4>2, <4>3
    <3>3. QED
      BY <3>1, <3>2
  <2>3. QED
    BY <2>1, <2>2, WakeKept
<1>10. ASSUME NEW k \in Cancels, CancelOwner(k) \/ CancelSession(k) \/ CancelMark(k)
       PROVE  NoLostWakeup'
  BY <1>10, WakeKept DEF CancelOwner, CancelSession, CancelMatch, CancelMark
<1>11. ASSUME NEW c \in Tasks, Watch(c) \/ Deadline(c) PROVE NoLostWakeup'
  BY <1>11, WakeKept DEF Watch, Deadline
<1>12. CASE Close \/ UNCHANGED vars
  BY <1>12, WakeKept DEF Close, vars
<1>13. ASSUME NEW t \in Tasks, Submitter(t) PROVE NoLostWakeup'
  BY <1>1, <1>2, <1>3, <1>13 DEF Submitter
<1>14. ASSUME NEW c \in Tasks, Consumer(c) PROVE NoLostWakeup'
  BY <1>4, <1>5, <1>6, <1>7, <1>8, <1>11, <1>14 DEF Consumer
<1>15. ASSUME NEW t \in Tasks, CallerGivesUp(t) \/ Deadline(t) \/ Return(t) PROVE NoLostWakeup'
  BY <1>1, <1>7, <1>11, <1>15
<1>16. ASSUME NEW k \in Cancels, CancelOwner(k) \/ CancelSession(k) \/ Canceller(k)
       PROVE  NoLostWakeup'
  BY <1>9, <1>10, <1>16 DEF Canceller
<1>17. QED
  BY <1>12, <1>13, <1>14, <1>15, <1>16 DEF Next

(* A task queued in an open pool is never left to a consumer that sleeps    *)
(* with nobody about to wake it (the buffered wake channel of Submit).      *)
THEOREM EveryTaskIsSeen == Spec => []NoLostWakeup
<1>1. Init => ClaimInv /\ QueueInv /\ NoLostWakeup
  BY ClaimInit, QueueInit, WakeInit
<1>2. ClaimInv /\ QueueInv /\ NoLostWakeup /\ [Next]_vars => (ClaimInv /\ QueueInv /\ NoLostWakeup)'
  BY ClaimStep, QueueStep, WakeStep
<1>3. QED
  BY <1>1, <1>2, PTL DEF Spec

-----------------------------------------------------------------------------
(* Cancels. *)

(* A matched task is still to be marked, or is cancelled and settled; and a *)
(* running task has its cancelFunc registered, so that the mark reaches its *)
(* context, or was marked already and its context reached.                  *)
MarkInv ==
    /\ cancel \in [Cancels -> {"new", "sweep", "mark", "returned"}]
    /\ mark \in [Cancels -> SUBSET Tasks] /\ matched \in [Cancels -> SUBSET Tasks]
    /\ \A k \in Cancels : matched[k] \subseteq mark[k] \cup (cancelled \cap done)
    /\ \A k \in Cancels : cancel[k] = "returned" => mark[k] = {}
    /\ \A c \in Tasks : consumer[c] = "run" =>
          /\ current[c] \in armed \cup cancelled
          /\ current[c] \in cancelled => current[c] \in ctxDone

(* No cancel was called yet.                                                *)
LEMMA MarkInit == Init => MarkInv
  BY DEF Init, MarkInv

(* A step of a consumer c that does not start its task, nor disarm another  *)
(* one, keeps the marks.                                                    *)
LEMMA MarkKept ==
    ASSUME MarkInv, UNCHANGED <<cancels, cancelled>>, done \subseteq done', ctxDone \subseteq ctxDone',
           \A c \in Tasks : consumer'[c] = "run" =>
               /\ consumer[c] = "run" /\ current'[c] = current[c]
               /\ current[c] \in armed => current[c] \in armed'
    PROVE  MarkInv'
  BY DEF MarkInv, cancels

(* Every step keeps the marks.                                              *)
LEMMA MarkStep == ClaimInv /\ QueueInv /\ MarkInv /\ [Next]_vars => MarkInv'
<1> SUFFICES ASSUME ClaimInv, QueueInv, MarkInv, [Next]_vars PROVE MarkInv'
  OBVIOUS
<1> USE DEF submits, queues, consumers
<1>0. consumer \in [Tasks -> ConsumerStages] /\ current \in [Tasks -> Tasks \cup {NoTask}]
  BY DEF ClaimInv, QueueInv
<1>1. ASSUME NEW t \in Tasks,
             \/ Register(t) \/ Enqueue(t) \/ Lookup(t) \/ Await(t) \/ CallerGivesUp(t)
             \/ Watch(t) \/ Deadline(t)
      PROVE  MarkInv'
  BY <1>1, MarkKept DEF Register, Enqueue, Lookup, Await, CallerGivesUp, Watch, Deadline
<1>2. ASSUME NEW t \in Tasks, SpawnAndWake(t) PROVE MarkInv'
  BY <1>0, <1>2, MarkKept DEF SpawnAndWake
<1>3. ASSUME NEW c \in Tasks,
             WaitWake(c) \/ Pop(c) \/ Check(c) \/ Acquire(c) \/ Return(c) \/ ReleaseSlot(c)
      PROVE  MarkInv'
  <2>1. PICK stage \in ConsumerStages \ {"run"} : ConsumerTo(c, stage)
    BY <1>3 DEF WaitWake, ExitConsumer, Pop, Check, Acquire, Return, ReleaseSlot, ConsumerStages
  <2>2. /\ UNCHANGED <<cancels, cancelled, done, ctxDone, armed>>
        /\ \A d \in Tasks \ {c} : current'[d] = current[d]
    BY <1>0, <1>3 DEF WaitWake, ExitConsumer, Pop, Check, Acquire, Return, ReleaseSlot
  <2>3. QED
    BY <1>0, <2>1, <2>2, MarkKept DEF ConsumerTo
<1>4. ASSUME NEW c \in Tasks, Arm(c) PROVE MarkInv'
  <2>1. CASE current[c] \in cancelled
    BY <1>0, <1>4, <2>1, MarkKept DEF Arm, ConsumerTo
  <2>2. CASE current[c] \notin cancelled
    BY <1>0, <1>4, <2>2 DEF Arm, ConsumerTo, MarkInv, cancels
  <2>3. QED
    BY <2>1, <2>2
<1>5. ASSUME NEW c \in Tasks, Disarm(c) PROVE MarkInv'
  <2>1. /\ consumer[c] = "disarm" /\ ConsumerTo(c, "release") /\ armed' = armed \ {current[c]}
        /\ ctxDone' = ctxDone \cup {current[c]} /\ UNCHANGED <<cancels, cancelled, done, current>>
    BY <1>5 DEF Disarm
  <2>2. ASSUME NEW d \in Tasks, consumer'[d] = "run" PROVE consumer[d] = "run" /\ current[d] # current[c]
    <3>1. d # c /\ consumer[d] = "run"
      BY <1>0, <2>1, <2>2 DEF ConsumerTo
    <3>2. consumer[c] \in TaskStages /\ consumer[d] \in TaskStages
      BY <2>1, <3>1 DEF TaskStages, HoldingStages
    <3>3. SessionOf[c] # SessionOf[d]
      BY <3>1, <3>2, ClaimsExclude DEF SerialPerSession
    <3>4. QED
      BY <3>1, <3>2, <3>3 DEF QueueInv
  <2>3. QED
    BY <2>1, <2>2, MarkKept
<1>6. ASSUME NEW c \in Tasks, Settle(c) PROVE MarkInv'
  <2>1. PICK stage \in {"exit", "drain"} : ConsumerTo(c, stage)
    BY <1>6 DEF Settle, ExitConsumer
  <2>2. /\ UNCHANGED <<cancels, cancelled, ctxDone, armed>> /\ done \subseteq done'
        /\ current' = [current EXCEPT ![c] = NoTask]
    BY <1>6 DEF Settle, ExitConsumer
  <2>3. QED
    BY <1>0, <2>1, <2>2, MarkKept DEF ConsumerTo
<1>7. ASSUME NEW k \in Cancels, NEW match \in SUBSET Tasks, CancelMatch(k, match) PROVE MarkInv'
  <2> DEFINE hit == tracked \cap match
  <2>1. /\ cancel' = [cancel EXCEPT ![k] = "sweep"]
        /\ matched' = [matched EXCEPT ![k] = hit] /\ mark' = [mark EXCEPT ![k] = hit]
        /\ UNCHANGED <<consumer, current, cancelled, armed, ctxDone, done>>
    BY <1>7 DEF CancelMatch
  <2>2. hit \in SUBSET Tasks
    OBVIOUS
  <2> HIDE DEF hit
  <2>3. /\ cancel' \in [Cancels -> {"new", "sweep", "mark", "returned"}]
        /\ mark' \in [Cancels -> SUBSET Tasks] /\ matched' \in [Cancels -> SUBSET Tasks]
    BY <2>1, <2>2 DEF MarkInv
  <2>4. \A j \in Cancels : matched'[j] \subseteq mark'[j] \cup (cancelled \cap done)
    BY <2>1 DEF MarkInv
  <2>5. \A j \in Cancels : cancel'[j] = "returned" => mark'[j] = {}
    BY <2>1 DEF MarkInv
  <2>6. QED
    BY <2>1, <2>3, <2>4, <2>5 DEF MarkInv
<1>8. ASSUME NEW k \in Cancels, CancelOwner(k) \/ CancelSession(k) PROVE MarkInv'
  <2>1. PICK match \in SUBSET Tasks : CancelMatch(k, match)
    BY <1>8 DEF CancelOwner, CancelSession, InSession
  <2>2. QED
    BY <1>7, <2>1
<1>9. ASSUME NEW k \in Cancels, CancelSweep(k) PROVE MarkInv'
  <2>1. cancel[k] = "sweep" /\ (cancel' = [cancel EXCEPT ![k] = "mark"] \/ cancel' = cancel)
    BY <1>9 DEF CancelSweep
  <2>2. UNCHANGED <<matched, mark, consumer, current, cancelled, armed, ctxDone, done>>
    BY <1>9 DEF CancelSweep
  <2>3. QED
    BY <2>1, <2>2 DEF MarkInv
<1>10. ASSUME NEW k \in Cancels, CancelMark(k), mark[k] = {} PROVE MarkInv'
  <2>1. /\ cancel' = [cancel EXCEPT ![k] = "returned"]
        /\ UNCHANGED <<matched, mark, consumer, current, cancelled, armed, ctxDone, done>>
    BY <1>10 DEF CancelMark
  <2>2. QED
    BY <1>10, <2>1 DEF MarkInv
<1>11. ASSUME NEW k \in Cancels, CancelMark(k), mark[k] # {} PROVE MarkInv'
  <2>1. PICK t \in mark[k] :
            /\ cancelled' = cancelled \cup {t}
            /\ ctxDone' = IF t \in armed THEN ctxDone \cup {t} ELSE ctxDone
            /\ armed' = armed \ {t}
            /\ done' = done \cup {t}
            /\ mark' = [mark EXCEPT ![k] = @ \ {t}]
            /\ UNCHANGED cancel
    BY <1>11 DEF CancelMark
  <2>2. UNCHANGED <<matched, consumer, current>>
    BY <1>11 DEF CancelMark
  <2>3. mark' \in [Cancels -> SUBSET Tasks] /\ mark'[k] = mark[k] \ {t}
        /\ \A j \in Cancels \ {k} : mark'[j] = mark[j]
    BY <2>1 DEF MarkInv
  <2>4. \A j \in Cancels : matched[j] \subseteq mark'[j] \cup (cancelled' \cap done')
    BY <2>1, <2>3 DEF MarkInv
  <2>5. \A j \in Cancels : cancel[j] = "returned" => mark'[j] = {}
    BY <2>3 DEF MarkInv
  <2>6. \A c \in Tasks : consumer[c] = "run" =>
          /\ current[c] \in armed' \cup cancelled'
          /\ current[c] \in cancelled' => current[c] \in ctxDone'
    BY <2>1 DEF MarkInv
  <2>7. QED
    BY <2>1, <2>2, <2>3, <2>4, <2>5, <2>6 DEF MarkInv
<1>12. CASE Close \/ UNCHANGED vars
  BY <1>12, MarkKept DEF Close, vars
<1>13. QED
  BY <1>1, <1>2, <1>3, <1>4, <1>5, <1>6, <1>8, <1>9, <1>10, <1>11, <1>12
  DEF Next, Submitter, Consumer, Canceller

(* Once CancelOwner or CancelSession has returned, no task it matched runs  *)
(* with a live context, wherever the call caught it (cancelWhere, runTask). *)
THEOREM CancelReachesTask == Spec => []CancelEffective
<1>1. Init => ClaimInv /\ QueueInv /\ MarkInv
  BY ClaimInit, QueueInit, MarkInit
<1>2. ClaimInv /\ QueueInv /\ MarkInv /\ [Next]_vars => (ClaimInv /\ QueueInv /\ MarkInv)'
  BY ClaimStep, QueueStep, MarkStep
<1>3. MarkInv => CancelEffective
  BY DEF MarkInv, CancelEffective, Running
<1>4. QED
  BY <1>1, <1>2, <1>3, PTL DEF Spec
==============================================================================
