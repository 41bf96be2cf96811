-------------------------- MODULE SessionLog_proofs --------------------------
(***************************************************************************)
(* Safety of the event pipeline for every set of emitters and subscribers, *)
(* every capacity and any number of faults and restarts.                   *)
(***************************************************************************)
EXTENDS SessionLog, SequenceTheorems, WellFoundedInduction, TLAPS

-----------------------------------------------------------------------------
(* Facts about the data the pipeline is built from. *)

(* Appending to a sequence adds exactly the new element to its range.       *)
LEMMA AppendRange ==
    ASSUME NEW S, NEW s \in Seq(S), NEW x \in S
    PROVE  /\ Append(s, x) \in Seq(S)
           /\ Len(Append(s, x)) = Len(s) + 1
           /\ Range(Append(s, x)) = Range(s) \cup {x}
  BY AppendProperties DEF Range

(* Taking the head off a channel adds nothing to what it holds.             *)
LEMMA TailRange ==
    ASSUME NEW S, NEW s \in Seq(S), s # <<>>
    PROVE  /\ Tail(s) \in Seq(S)
           /\ Len(Tail(s)) = Len(s) - 1
           /\ Range(Tail(s)) \subseteq Range(s)
  BY HeadTailProperties DEF Range

(* A bounded non-empty set of naturals has a maximum, and Max is it.        *)
LEMMA BoundedMax ==
    ASSUME NEW T \in SUBSET Nat, T # {}, NEW b \in Nat, \A n \in T : n <= b
    PROVE  Max(T) \in T /\ \A n \in T : n <= Max(T)
<1> DEFINE U == {k \in Nat : \A n \in T : n <= k}
<1>0. b \in U
  OBVIOUS
<1>1. PICK m \in U : \A k \in U : ~(<<k, m>> \in OpToRel(<, Nat))
  BY <1>0, WFMin, NatLessThanWellFounded, Zenon
<1>2. \A k \in U : m <= k
  <2>1. \A k \in U : ~(k < m)
    BY <1>1, Zenon DEF OpToRel
  <2>2. QED
    BY <2>1
<1>3. m \in T
  <2>1. SUFFICES ASSUME m \notin T PROVE FALSE
    OBVIOUS
  <2>2. m # 0
    <3>1. PICK n \in T : TRUE
      OBVIOUS
    <3>2. n \in Nat /\ n <= m /\ n # m
      BY <2>1, <3>1
    <3>3. QED
      BY <3>2
  <2>3. m - 1 \in U
    BY <2>1, <2>2
  <2>4. QED
    BY <1>2, <2>3
<1>4. \E x \in T : \A y \in T : x >= y
  BY <1>3
<1>5. QED
  BY <1>4 DEF Max

(* The lifecycle machine keeps its type and stamps natural turn numbers.    *)
LEMMA MachineTyping ==
    ASSUME NEW m \in Machine, NEW type \in Types
    PROVE  /\ Transit(m, type) \in Machine
           /\ StampTurn(m, type) \in Nat
<1> USE DEF Transit, StampTurn, Machine
<1>1. CASE type = TurnStart
  BY <1>1 DEF TurnStart, StepStart
<1>2. CASE type = TurnEnd
  BY <1>2 DEF TurnStart, TurnEnd, StepStart
<1>3. CASE type = StepStart
  BY <1>3 DEF TurnStart, TurnEnd, StepStart
<1>4. CASE type = StepEnd
  BY <1>4 DEF TurnStart, TurnEnd, StepStart, StepEnd
<1>5. CASE type \notin Boundaries
  BY <1>5 DEF Boundaries
<1>6. QED
  BY <1>1, <1>2, <1>3, <1>4, <1>5 DEF Boundaries

(* The store's next sequence number is a natural number.                    *)
LEMMA NextStoredTyping ==
    ASSUME store \in Seq(Envelope)
    PROVE  NextStored \in Nat
<1>1. CASE store = <<>>
  BY <1>1 DEF NextStored
<1>2. CASE store # <<>>
  <2>1. Len(store) \in 1 .. Len(store)
    BY <1>2
  <2>2. store[Len(store)] \in Envelope
    BY <2>1
  <2>3. QED
    BY <1>2, <2>2 DEF NextStored, Envelope
<1>3. QED
  BY <1>1, <1>2

(* The bound that gives LastStoredTurn its maximum: some number bounds      *)
(* every stored turn.                                                       *)
TurnsBounded == \E b \in Nat : \A r \in Rows : r.turn <= b

(* The seed of turnNumber is a natural number no stored turn exceeds.       *)
LEMMA LastStoredTurnTyping ==
    ASSUME store \in Seq(Envelope), TurnsBounded
    PROVE  /\ LastStoredTurn \in Nat
           /\ \A n \in StoredTurns : n <= LastStoredTurn
<1> DEFINE T == {0} \cup StoredTurns
<1>1. Rows \subseteq Envelope
  BY DEF Rows, Range
<1>2. T \in SUBSET Nat /\ T # {}
  BY <1>1 DEF StoredTurns, Envelope
<1>3. PICK b \in Nat : \A r \in Rows : r.turn <= b
  BY DEF TurnsBounded
<1>4. \A n \in T : n <= b
  BY <1>3 DEF StoredTurns
<1>5. Max(T) \in T /\ \A n \in T : n <= Max(T)
  BY <1>2, <1>4, BoundedMax
<1>6. QED
  BY <1>2, <1>5 DEF LastStoredTurn

-----------------------------------------------------------------------------
(* Type correctness. *)

TypeInv == TypeOK /\ TurnsBounded

(* What TypeOK says of the ring.                                            *)
RingOK ==
    /\ ring \in Ring
    /\ ring.head <= ring.tail /\ \A e \in Emitters : ring.read[e] <= ring.tail

(* Initially every variable has its type.                                   *)
LEMMA TypeInit == Init => TypeInv
<1> SUFFICES ASSUME Init PROVE TypeInv
  OBVIOUS
<1> USE DEF Init
<1>1. Rows = {}
  BY DEF Rows, Range
<1>2. TurnsBounded
  BY <1>1 DEF TurnsBounded
<1>3. machine \in Machine
  BY DEF FreshMachine, Machine
<1>4. NoEnvelope \in Envelope
  BY DEF NoEnvelope, Envelope, Types
<1>5. ring \in Ring
  BY <1>4 DEF EmptyRing, Ring
<1>6. ring.head <= ring.tail /\ \A e \in Emitters : ring.read[e] <= ring.tail
  BY DEF EmptyRing
<1>7. cache \in [warm : BOOLEAN, last : Int, log : SUBSET Envelope]
  BY DEF ColdCache
<1>8. pc \in [Emitters -> Stages] /\ call \in [Emitters -> Envelope]
  BY <1>4 DEF Stages
<1>9. /\ DOMAIN channels \subseteq Subscribers
      /\ \A s \in DOMAIN channels : channels[s] \in Seq(Envelope) /\ Len(channels[s]) <= SubCap
  OBVIOUS
<1>10. /\ seqCounter \in Nat /\ base \in Nat /\ faults \in Nat /\ restarts \in Nat
       /\ store \in Seq(Envelope) /\ segment \subseteq Envelope
  OBVIOUS
<1>11. /\ compacting \in BOOLEAN /\ overlapped \in BOOLEAN
       /\ faulted \in BOOLEAN /\ seedLost \in BOOLEAN
  OBVIOUS
<1> HIDE DEF Init
<1>12. QED
  BY <1>2, <1>3, <1>5, <1>6, <1>7, <1>8, <1>9, <1>10, <1>11, Zenon DEF TypeInv, TypeOK

(* Goto and Return keep the types of pc and call.                           *)
LEMMA GotoTyping ==
    ASSUME TypeOK, NEW e \in Emitters, NEW stage \in Stages, Goto(e, stage)
    PROVE  pc' \in [Emitters -> Stages] /\ call' \in [Emitters -> Envelope]
  BY DEF Goto, TypeOK

(* Returning to the caller keeps the types of pc and call.                  *)
LEMMA ReturnTyping ==
    ASSUME TypeOK, NEW e \in Emitters, Return(e)
    PROVE  pc' \in [Emitters -> Stages] /\ call' \in [Emitters -> Envelope]
<1>1. NoEnvelope \in Envelope /\ "idle" \in Stages
  BY DEF NoEnvelope, Envelope, Types, Stages
<1>2. QED
  BY <1>1 DEF Return, TypeOK

(* A read of the log leaves a well-typed cache.                             *)
LEMMA CacheTyping ==
    ASSUME TypeOK, CachedSessionEvents
    PROVE  cache' \in [warm : BOOLEAN, last : Int, log : SUBSET Envelope]
<1>1. Rows \subseteq Envelope /\ NextStored \in Int
  BY NextStoredTyping DEF TypeOK, Rows, Range
<1>2. FullLoad \in [warm : BOOLEAN, last : Int, log : SUBSET Envelope]
  BY <1>1 DEF FullLoad
<1>3. TopUp \in [warm : BOOLEAN, last : Int, log : SUBSET Envelope]
  BY <1>1 DEF TopUp, GetEvents, TypeOK
<1>4. QED
  BY <1>2, <1>3 DEF CachedSessionEvents, TypeOK

(* Every step keeps the types: one case per action, and in each the         *)
(* variables it changes.                                                    *)
LEMMA TypeStep == TypeInv /\ [Next]_vars => TypeInv'
<1> SUFFICES ASSUME TypeInv, [Next]_vars PROVE TypeInv'
  OBVIOUS
<1>t. TypeOK /\ TurnsBounded
  BY DEF TypeInv
<1>s. store \in Seq(Envelope) /\ NextStored \in Nat /\ Rows \subseteq Envelope
  BY <1>t, NextStoredTyping DEF TypeOK, Rows, Range
<1>n. NoEnvelope \in Envelope
  BY DEF NoEnvelope, Envelope, Types
<1>b. ASSUME store' = store PROVE TurnsBounded'
  BY <1>b, <1>t DEF TurnsBounded, Rows
<1>f. /\ ring \in Ring /\ ring.head \in Nat /\ ring.tail \in Nat
      /\ ring.slots \in [0 .. RingCap - 1 -> Envelope] /\ ring.read \in [Emitters -> Nat]
  BY <1>t DEF TypeOK, Ring
<1>1. ASSUME NEW e \in Emitters, NEW type \in Boundaries \cup {Other}, EmitEvent(e, type)
      PROVE  TypeInv'
  <2>1. type \in Types
    BY DEF Types
  <2>2. machine' \in Machine /\ StampTurn(machine, type) \in Nat
    BY <1>t, <1>1, <2>1, MachineTyping DEF EmitEvent, TypeOK
  <2>3. pc' \in [Emitters -> Stages] /\ call' \in [Emitters -> Envelope]
    BY <1>t, <1>1, <2>1, <2>2 DEF EmitEvent, TypeOK, Envelope, Stages
  <2>4. QED
    BY <1>t, <1>1, <1>b, <2>2, <2>3 DEF EmitEvent, TypeInv, TypeOK, history
<1>2. ASSUME NEW e \in Emitters, EmitRaw(e)
      PROVE  TypeInv'
  <2>1. pc' \in [Emitters -> Stages] /\ call' \in [Emitters -> Envelope]
    BY <1>t, <1>2 DEF EmitRaw, TypeOK, Envelope, Stages, Types
  <2>2. QED
    BY <1>t, <1>2, <1>b, <2>1 DEF EmitRaw, TypeInv, TypeOK, history
<1>3. ASSUME NEW e \in Emitters, TakeSeq(e)
      PROVE  TypeInv'
  <2>1. pc' \in [Emitters -> Stages] /\ call' \in [Emitters -> Envelope] /\ seqCounter' \in Nat
    <3>1. [seq |-> seqCounter, type |-> call[e].type, turn |-> call[e].turn] \in Envelope
      BY <1>t DEF TypeOK, Envelope
    <3>2. QED
      BY <1>t, <1>3, <3>1 DEF TakeSeq, TypeOK, Stages
  <2>2. overlapped' \in BOOLEAN
    BY <1>3 DEF TakeSeq
  <2>3. QED
    BY <1>t, <1>3, <1>b, <2>1, <2>2 DEF TakeSeq, TypeInv, TypeOK, history
<1>4. ASSUME NEW e \in Emitters, AppendBatch(e)
      PROVE  TypeInv'
  <2>1. CASE call[e].seq = NextStored /\ store' = Append(store, call[e]) /\ Goto(e, "load")
    <3>1. pc' \in [Emitters -> Stages] /\ call' \in [Emitters -> Envelope]
      BY <1>t, <2>1, GotoTyping DEF Stages
    <3>2. call[e] \in Envelope
      BY <1>t DEF TypeOK
    <3>3. store' \in Seq(Envelope) /\ Rows' = Rows \cup {call[e]}
      BY <1>s, <2>1, <3>2, AppendRange DEF Rows
    <3>4. TurnsBounded'
      <4>1. PICK b \in Nat : \A r \in Rows : r.turn <= b
        BY <1>t DEF TurnsBounded
      <4>2. call[e].turn \in Nat /\ \A r \in Rows : r.turn \in Nat
        BY <1>s, <3>2 DEF Envelope
      <4>3. \A r \in Rows' : r.turn <= b + call[e].turn
        BY <3>3, <4>1, <4>2
      <4>4. QED
        BY <4>2, <4>3 DEF TurnsBounded
    <3>5. QED
      BY <1>t, <1>4, <3>1, <3>3, <3>4 DEF AppendBatch, TypeInv, TypeOK, history
  <2>2. CASE store' = store /\ Return(e)
    <3>1. pc' \in [Emitters -> Stages] /\ call' \in [Emitters -> Envelope]
      BY <1>t, <2>2, ReturnTyping
    <3>2. QED
      BY <1>t, <1>4, <1>b, <2>2, <3>1 DEF AppendBatch, TypeInv, TypeOK, history
  <2>3. QED
    BY <1>4, <2>1, <2>2 DEF AppendBatch
<1>5. ASSUME NEW e \in Emitters, PersistFault(e)
      PROVE  TypeInv'
  <2>1. pc' \in [Emitters -> Stages] /\ call' \in [Emitters -> Envelope]
    BY <1>t, <1>5, ReturnTyping DEF PersistFault
  <2>2. QED
    BY <1>t, <1>5, <1>b, <2>1 DEF PersistFault, TypeInv, TypeOK
<1>6a. ASSUME NEW e \in Emitters, PushLoad(e)
       PROVE  TypeInv'
  <2>1. pc' \in [Emitters -> Stages] /\ call' \in [Emitters -> Envelope]
    BY <1>t, <1>6a, GotoTyping DEF PushLoad, Stages
  <2>2. RingOK'
    <3>1. ring' = [head |-> ring.head, tail |-> ring.tail,
                   slots |-> ring.slots,
                   read |-> [ring.read EXCEPT ![e] = ring.tail]]
      BY <1>f, <1>6a DEF PushLoad, Ring
    <3>2. QED
      BY <1>f, <1>t, <3>1 DEF TypeOK, RingOK, Ring
  <2>3. QED
    BY <1>t, <1>6a, <1>b, <2>1, <2>2 DEF PushLoad, TypeInv, TypeOK, RingOK, history
<1>6b. ASSUME NEW e \in Emitters, PushSlot(e)
       PROVE  TypeInv'
  <2>1. pc' \in [Emitters -> Stages] /\ call' \in [Emitters -> Envelope]
    BY <1>t, <1>6b, GotoTyping DEF PushSlot, Stages
  <2>2. RingOK'
    <3>1. ring' = [head |-> ring.head, tail |-> ring.tail,
                   slots |-> [ring.slots EXCEPT ![ring.read[e] % RingCap] = call[e]],
                   read |-> [ring.read EXCEPT ![e] = 0]]
      BY <1>f, <1>6b DEF PushSlot, Ring
    <3>2. call[e] \in Envelope
      BY <1>t DEF TypeOK
    <3>3. ring'.slots \in [0 .. RingCap - 1 -> Envelope]
      BY <1>f, <3>1, <3>2
    <3>4. ring'.read \in [Emitters -> Nat] /\ \A f \in Emitters : ring'.read[f] <= ring'.tail
      BY <1>f, <1>t, <3>1 DEF TypeOK
    <3>5. ring'.head = ring.head /\ ring'.tail = ring.tail /\ ring.head <= ring.tail
      BY <1>t, <3>1 DEF TypeOK
    <3>6. ring' \in Ring
      BY <1>f, <3>1, <3>3, <3>4 DEF Ring
    <3>7. QED
      BY <3>4, <3>5, <3>6 DEF RingOK
  <2>3. QED
    BY <1>t, <1>6b, <1>b, <2>1, <2>2 DEF PushSlot, TypeInv, TypeOK, RingOK, history
<1>6c. ASSUME NEW e \in Emitters, PushTail(e)
       PROVE  TypeInv'
  <2>1. pc' \in [Emitters -> Stages] /\ call' \in [Emitters -> Envelope]
    BY <1>t, <1>6c, GotoTyping DEF PushTail, Stages
  <2>2. RingOK'
    <3>1. ring' = [head |-> ring.head, tail |-> ring.tail + 1,
                   slots |-> ring.slots,
                   read |-> ring.read]
      BY <1>f, <1>6c DEF PushTail, Ring
    <3>2. QED
      BY <1>f, <1>t, <3>1 DEF TypeOK, RingOK, Ring
  <2>3. QED
    BY <1>t, <1>6c, <1>b, <2>1, <2>2 DEF PushTail, TypeInv, TypeOK, RingOK, history
<1>6d. ASSUME NEW e \in Emitters, PushMeasure(e)
       PROVE  TypeInv'
  <2>1. pc' \in [Emitters -> Stages] /\ call' \in [Emitters -> Envelope]
    BY <1>t, <1>6d, GotoTyping DEF PushMeasure, Stages
  <2>2. RingOK'
    <3>1. CASE UNCHANGED ring
      BY <1>t, <3>1 DEF TypeOK, RingOK
    <3>2. CASE /\ ring.tail - ring.head > RingCap
               /\ ring' = [ring EXCEPT !.read[e] = ring.tail - RingCap]
      <4>1. ring' = [head |-> ring.head, tail |-> ring.tail, slots |-> ring.slots,
                     read |-> [ring.read EXCEPT ![e] = ring.tail - RingCap]]
        BY <1>f, <3>2 DEF Ring
      <4>2. ring.tail - RingCap \in Nat /\ ring.tail - RingCap <= ring.tail
        BY <1>f, <3>2, CapAssumption
      <4>3. QED
        BY <1>f, <1>t, <4>1, <4>2 DEF TypeOK, RingOK, Ring
    <3>3. QED
      BY <1>6d, <3>1, <3>2 DEF PushMeasure
  <2>3. QED
    BY <1>t, <1>6d, <1>b, <2>1, <2>2 DEF PushMeasure, TypeInv, TypeOK, RingOK, history
<1>6e. ASSUME NEW e \in Emitters, PushEvict(e)
       PROVE  TypeInv'
  <2>1. pc' \in [Emitters -> Stages] /\ call' \in [Emitters -> Envelope]
    BY <1>t, <1>6e, GotoTyping DEF PushEvict, Stages
  <2>2. RingOK'
    <3>1. ring' = [head |-> ring.read[e], tail |-> ring.tail,
                   slots |-> ring.slots,
                   read |-> [ring.read EXCEPT ![e] = 0]]
      BY <1>f, <1>6e DEF PushEvict, Ring
    <3>2. QED
      BY <1>f, <1>t, <3>1 DEF TypeOK, RingOK, Ring
  <2>3. QED
    BY <1>t, <1>6e, <1>b, <2>1, <2>2 DEF PushEvict, TypeInv, TypeOK, RingOK, history
<1>8. ASSUME NEW e \in Emitters, AppendSegment(e)
      PROVE  TypeInv'
  <2>1. pc' \in [Emitters -> Stages] /\ call' \in [Emitters -> Envelope]
    BY <1>t, <1>8, GotoTyping DEF AppendSegment, Stages
  <2>2. segment' \subseteq Envelope /\ faults' \in Nat
    BY <1>t, <1>8 DEF AppendSegment, TypeOK
  <2>3. QED
    BY <1>t, <1>8, <1>b, <2>1, <2>2 DEF AppendSegment, TypeInv, TypeOK
<1>9. ASSUME NEW e \in Emitters, FanOut(e)
      PROVE  TypeInv'
  <2>1. pc' \in [Emitters -> Stages] /\ call' \in [Emitters -> Envelope]
    BY <1>t, <1>9, GotoTyping, ReturnTyping DEF FanOut, Stages
  <2>2. call[e] \in Envelope /\ DOMAIN channels' = DOMAIN channels
    BY <1>t, <1>9 DEF FanOut, TypeOK
  <2>3. ASSUME NEW s \in DOMAIN channels
        PROVE  channels'[s] \in Seq(Envelope) /\ Len(channels'[s]) <= SubCap
    <3>1. channels[s] \in Seq(Envelope) /\ Len(channels[s]) <= SubCap
      BY <1>t DEF TypeOK
    <3>2. CASE Len(channels[s]) < SubCap
      <4>1. channels'[s] = Append(channels[s], call[e])
        BY <1>9, <3>2 DEF FanOut
      <4>2. QED
        BY <2>2, <3>1, <3>2, <4>1, AppendRange, CapAssumption
    <3>3. CASE ~(Len(channels[s]) < SubCap)
      BY <1>9, <3>1, <3>3 DEF FanOut
    <3>4. QED
      BY <3>2, <3>3
  <2>4. QED
    BY <1>t, <1>9, <1>b, <2>1, <2>2, <2>3 DEF FanOut, TypeInv, TypeOK, history
<1>10. ASSUME NEW e \in Emitters, CacheAppend(e)
       PROVE  TypeInv'
  <2>1. pc' \in [Emitters -> Stages] /\ call' \in [Emitters -> Envelope]
    BY <1>t, <1>10, ReturnTyping DEF CacheAppend
  <2>2. call[e] \in Envelope /\ call[e].seq \in Int
    BY <1>t DEF TypeOK, Envelope
  <2>3. cache' \in [warm : BOOLEAN, last : Int, log : SUBSET Envelope]
    BY <1>t, <1>10, <2>2 DEF CacheAppend, TypeOK
  <2>4. QED
    BY <1>t, <1>10, <1>b, <2>1, <2>3 DEF CacheAppend, TypeInv, TypeOK, history
<1>11. CASE LoadSessionLog
  BY <1>t, <1>11, <1>b, CacheTyping DEF LoadSessionLog, TypeInv, TypeOK, history
<1>12. CASE CompactBegin
  BY <1>t, <1>12, <1>b, CacheTyping DEF CompactBegin, TypeInv, TypeOK, history
<1>13. CASE CompactEnd
  <2>1. cache' \in [warm : BOOLEAN, last : Int, log : SUBSET Envelope]
    BY <1>13 DEF CompactEnd, ColdCache
  <2>2. QED
    BY <1>t, <1>13, <1>b, <2>1 DEF CompactEnd, TypeInv, TypeOK, history
<1>14. ASSUME NEW s \in Subscribers, Subscribe(s)
       PROVE  TypeInv'
  <2>1. /\ DOMAIN channels' \subseteq Subscribers
        /\ \A t \in DOMAIN channels' :
              channels'[t] \in Seq(Envelope) /\ Len(channels'[t]) <= SubCap
    BY <1>t, <1>14, CapAssumption DEF Subscribe, TypeOK
  <2>2. QED
    BY <1>t, <1>14, <1>b, <2>1 DEF Subscribe, TypeInv, TypeOK, history
<1>15. ASSUME NEW s \in Subscribers, Unsubscribe(s)
       PROVE  TypeInv'
  <2>1. /\ DOMAIN channels' \subseteq Subscribers
        /\ \A t \in DOMAIN channels' :
              channels'[t] \in Seq(Envelope) /\ Len(channels'[t]) <= SubCap
    BY <1>t, <1>15 DEF Unsubscribe, TypeOK
  <2>2. QED
    BY <1>t, <1>15, <1>b, <2>1 DEF Unsubscribe, TypeInv, TypeOK, history
<1>16. ASSUME NEW s \in Subscribers, Receive(s)
       PROVE  TypeInv'
  <2>1. /\ channels[s] \in Seq(Envelope) /\ channels[s] # <<>>
        /\ Len(channels[s]) <= SubCap
    BY <1>t, <1>16 DEF Receive, TypeOK
  <2>2. Tail(channels[s]) \in Seq(Envelope) /\ Len(Tail(channels[s])) <= SubCap
    BY <2>1, TailRange, CapAssumption
  <2>3. /\ DOMAIN channels' \subseteq Subscribers
        /\ \A t \in DOMAIN channels' :
              channels'[t] \in Seq(Envelope) /\ Len(channels'[t]) <= SubCap
    BY <1>t, <1>16, <2>2 DEF Receive, TypeOK
  <2>4. QED
    BY <1>t, <1>16, <1>b, <2>3 DEF Receive, TypeInv, TypeOK, history
<1>17. ASSUME NEW readOK \in BOOLEAN, Restart(readOK)
       PROVE  TypeInv'
  <2>1. machine' \in Machine
    BY <1>t, <1>s, <1>17, LastStoredTurnTyping DEF Restart, FreshMachine, Machine
  <2>2. pc' \in [Emitters -> Stages] /\ call' \in [Emitters -> Envelope]
    BY <1>n, <1>17 DEF Restart, Stages
  <2>3. RingOK'
    BY <1>n, <1>17 DEF Restart, EmptyRing, Ring, RingOK
  <2>4. cache' \in [warm : BOOLEAN, last : Int, log : SUBSET Envelope]
    BY <1>s, <1>17 DEF Restart, FullLoad, ColdCache
  <2>5. seqCounter' \in Nat /\ base' \in Nat /\ restarts' \in Nat
    BY <1>t, <1>s, <1>17 DEF Restart, TypeOK, SeedSeq, NextStored
  <2>6. /\ DOMAIN channels' \subseteq Subscribers
        /\ \A t \in DOMAIN channels' :
              channels'[t] \in Seq(Envelope) /\ Len(channels'[t]) <= SubCap
    BY <1>17 DEF Restart
  <2>7. /\ compacting' \in BOOLEAN /\ overlapped' \in BOOLEAN
        /\ faulted' \in BOOLEAN /\ seedLost' \in BOOLEAN
    BY <1>17 DEF Restart
  <2>8. store' \in Seq(Envelope) /\ segment' \subseteq Envelope /\ faults' \in Nat
    BY <1>t, <1>17 DEF Restart, TypeOK
  <2>9. TurnsBounded'
    BY <1>b, <1>17 DEF Restart
  <2>10. QED
    BY <2>1, <2>2, <2>3, <2>4, <2>5, <2>6, <2>7, <2>8, <2>9, Zenon DEF TypeInv, TypeOK, RingOK
<1>18. CASE UNCHANGED vars
  BY <1>t, <1>18, <1>b DEF vars, TypeInv, TypeOK
<1>19. QED
  BY <1>1, <1>2, <1>3, <1>4, <1>5, <1>6a, <1>6b, <1>6c, <1>6d, <1>6e, <1>8, <1>9,
     <1>10, <1>11, <1>12, <1>13, <1>14, <1>15, <1>16, <1>17, <1>18 DEF Next

(* EmitEvent's pipeline is type correct: the ring's head stays behind its   *)
(* tail and the subscriber buffers within their capacity, for every number  *)
(* of emitters racing in RingBuffer.Push.                                   *)
THEOREM TypeCorrect == Spec => []TypeOK
<1>1. Spec => []TypeInv
  BY TypeInit, TypeStep, PTL DEF Spec
<1>2. QED
  BY <1>1, PTL DEF TypeInv

-----------------------------------------------------------------------------
(* The durable log is contiguous and every view shows a part of it. *)

(* A call past its append carries an envelope the store holds: this is what *)
(* makes ViewsDurable inductive.                                            *)
InFlightDurable == \A e \in Emitters : pc[e] \in PersistedStages => call[e] \in Rows

(* ViewsDurable for every slot of the ring, inside the window or not.       *)
ViewsInv ==
    /\ \A i \in 0 .. RingCap - 1 : ring.slots[i] \in Rows \cup {NoEnvelope}
    /\ segment \subseteq Rows
    /\ \A s \in DOMAIN channels : Range(channels[s]) \subseteq Rows
    /\ cache.log \subseteq Rows

DurableInv == StoreContiguous /\ InFlightDurable /\ ViewsInv

(* An empty log has no views to disagree with.                              *)
LEMMA DurableInit == Init => DurableInv
<1> SUFFICES ASSUME Init PROVE DurableInv
  OBVIOUS
<1>1. StoreContiguous
  BY DEF Init, StoreContiguous
<1>2. InFlightDurable
  BY DEF Init, InFlightDurable, PersistedStages
<1>3. ViewsInv
  BY DEF Init, ViewsInv, EmptyRing, ColdCache
<1>4. QED
  BY <1>1, <1>2, <1>3 DEF DurableInv

(* The stored next sequence number of a contiguous log is its length.       *)
LEMMA NextStoredIsLen ==
    ASSUME store \in Seq(Envelope), StoreContiguous
    PROVE  NextStored = Len(store)
<1>1. CASE store = <<>>
  BY <1>1 DEF NextStored
<1>2. CASE store # <<>>
  <2>1. Len(store) \in 1 .. Len(store)
    BY <1>2
  <2>2. store[Len(store)].seq = Len(store) - 1
    BY <2>1 DEF StoreContiguous
  <2>3. QED
    BY <1>2, <2>1, <2>2 DEF NextStored
<1>3. QED
  BY <1>1, <1>2

(* The pipeline keeps the log contiguous and the views durable: only        *)
(* AppendBatch changes the store, every other stage copies an envelope      *)
(* InFlightDurable places in it.                                            *)
LEMMA DurableStep == TypeOK /\ DurableInv /\ [Next]_vars => DurableInv'
<1> SUFFICES ASSUME TypeOK, DurableInv, [Next]_vars PROVE DurableInv'
  OBVIOUS
<1>d. StoreContiguous /\ InFlightDurable /\ ViewsInv
  BY DEF DurableInv
<1>s. ASSUME store' = store PROVE Rows' = Rows /\ StoreContiguous'
  BY <1>s, <1>d DEF Rows, StoreContiguous
<1>v. ASSUME Rows' = Rows, UNCHANGED <<ring, segment, channels, cache>> PROVE ViewsInv'
  BY <1>v, <1>d DEF ViewsInv
<1>g. ASSUME NEW e \in Emitters, NEW stage, Goto(e, stage), Rows' = Rows,
             pc[e] \in PersistedStages
      PROVE  InFlightDurable'
  BY <1>g, <1>d DEF Goto, InFlightDurable, TypeOK
<1>r. ASSUME NEW e \in Emitters, Return(e), Rows' = Rows
      PROVE  InFlightDurable'
  BY <1>r, <1>d DEF Return, InFlightDurable, TypeOK, PersistedStages
<1>1. ASSUME NEW e \in Emitters, NEW type \in Boundaries \cup {Other}, EmitEvent(e, type)
      PROVE  DurableInv'
  <2>1. Rows' = Rows /\ StoreContiguous' /\ ViewsInv'
    BY <1>1, <1>s, <1>v DEF EmitEvent
  <2>2. InFlightDurable'
    BY <1>1, <1>d, <2>1 DEF EmitEvent, InFlightDurable, TypeOK, PersistedStages
  <2>3. QED
    BY <2>1, <2>2 DEF DurableInv
<1>2. ASSUME NEW e \in Emitters, EmitRaw(e)
      PROVE  DurableInv'
  <2>1. Rows' = Rows /\ StoreContiguous' /\ ViewsInv'
    BY <1>2, <1>s, <1>v DEF EmitRaw
  <2>2. InFlightDurable'
    BY <1>2, <1>d, <2>1 DEF EmitRaw, InFlightDurable, TypeOK, PersistedStages
  <2>3. QED
    BY <2>1, <2>2 DEF DurableInv
<1>3. ASSUME NEW e \in Emitters, TakeSeq(e)
      PROVE  DurableInv'
  <2>1. Rows' = Rows /\ StoreContiguous' /\ ViewsInv'
    BY <1>3, <1>s, <1>v DEF TakeSeq
  <2>2. InFlightDurable'
    BY <1>3, <1>d, <2>1 DEF TakeSeq, InFlightDurable, TypeOK, PersistedStages
  <2>3. QED
    BY <2>1, <2>2 DEF DurableInv
<1>4. ASSUME NEW e \in Emitters, AppendBatch(e)
      PROVE  DurableInv'
  <2>1. CASE call[e].seq = NextStored /\ store' = Append(store, call[e]) /\ Goto(e, "load")
    <3>1. store \in Seq(Envelope) /\ call[e] \in Envelope
      BY DEF TypeOK
    <3>2. Rows' = Rows \cup {call[e]} /\ Len(store') = Len(store) + 1
      BY <2>1, <3>1, AppendRange DEF Rows
    <3>3. call[e].seq = Len(store)
      BY <1>d, <2>1, <3>1, NextStoredIsLen
    <3>4. \A i \in 1 .. Len(store) + 1 :
             store'[i] = IF i <= Len(store) THEN store[i] ELSE call[e]
      BY <2>1, <3>1
    <3>5. StoreContiguous'
      BY <1>d, <3>1, <3>2, <3>3, <3>4 DEF StoreContiguous
    <3>6. InFlightDurable'
      BY <1>d, <2>1, <3>2 DEF Goto, InFlightDurable, TypeOK
    <3>7. ViewsInv'
      BY <1>4, <1>d, <3>2 DEF AppendBatch, ViewsInv
    <3>8. QED
      BY <3>5, <3>6, <3>7 DEF DurableInv
  <2>2. CASE store' = store /\ Return(e)
    BY <1>4, <1>s, <1>v, <1>r, <2>2 DEF AppendBatch, DurableInv
  <2>3. QED
    BY <1>4, <2>1, <2>2 DEF AppendBatch
<1>5. ASSUME NEW e \in Emitters, PersistFault(e)
      PROVE  DurableInv'
  BY <1>5, <1>s, <1>v, <1>r DEF PersistFault, DurableInv
<1>6a. ASSUME NEW e \in Emitters, PushLoad(e)
       PROVE  DurableInv'
  <2>1. Rows' = Rows /\ StoreContiguous' /\ ring'.slots = ring.slots
    BY <1>6a, <1>s DEF PushLoad, TypeOK, Ring
  <2>2. InFlightDurable'
    BY <1>6a, <1>g, <2>1 DEF PushLoad, PersistedStages
  <2>3. ViewsInv'
    BY <1>6a, <1>d, <2>1 DEF PushLoad, ViewsInv
  <2>4. QED
    BY <2>1, <2>2, <2>3 DEF DurableInv
<1>6b. ASSUME NEW e \in Emitters, PushSlot(e)
       PROVE  DurableInv'
  <2>1. Rows' = Rows /\ StoreContiguous'
    BY <1>6b, <1>s DEF PushSlot
  <2>2. InFlightDurable'
    BY <1>6b, <1>g, <2>1 DEF PushSlot, PersistedStages
  <2>3. call[e] \in Rows
    BY <1>6b, <1>d DEF PushSlot, InFlightDurable, PersistedStages
  <2>4. \A i \in 0 .. RingCap - 1 : ring'.slots[i] \in Rows \cup {NoEnvelope}
    BY <1>6b, <1>d, <2>3 DEF PushSlot, ViewsInv, TypeOK, Ring
  <2>5. ViewsInv'
    BY <1>6b, <1>d, <2>1, <2>4 DEF PushSlot, ViewsInv
  <2>6. QED
    BY <2>1, <2>2, <2>5 DEF DurableInv
<1>6c. ASSUME NEW e \in Emitters, PushTail(e)
       PROVE  DurableInv'
  <2>1. Rows' = Rows /\ StoreContiguous' /\ ring'.slots = ring.slots
    BY <1>6c, <1>s DEF PushTail, TypeOK, Ring
  <2>2. InFlightDurable'
    BY <1>6c, <1>g, <2>1 DEF PushTail, PersistedStages
  <2>3. ViewsInv'
    BY <1>6c, <1>d, <2>1 DEF PushTail, ViewsInv
  <2>4. QED
    BY <2>1, <2>2, <2>3 DEF DurableInv
<1>6d. ASSUME NEW e \in Emitters, PushMeasure(e)
       PROVE  DurableInv'
  <2>1. Rows' = Rows /\ StoreContiguous' /\ ring'.slots = ring.slots
    BY <1>6d, <1>s DEF PushMeasure, TypeOK, Ring
  <2>2. InFlightDurable'
    BY <1>6d, <1>g, <2>1 DEF PushMeasure, PersistedStages
  <2>3. ViewsInv'
    BY <1>6d, <1>d, <2>1 DEF PushMeasure, ViewsInv
  <2>4. QED
    BY <2>1, <2>2, <2>3 DEF DurableInv
<1>6e. ASSUME NEW e \in Emitters, PushEvict(e)
       PROVE  DurableInv'
  <2>1. Rows' = Rows /\ StoreContiguous' /\ ring'.slots = ring.slots
    BY <1>6e, <1>s DEF PushEvict, TypeOK, Ring
  <2>2. InFlightDurable'
    BY <1>6e, <1>g, <2>1 DEF PushEvict, PersistedStages
  <2>3. ViewsInv'
    BY <1>6e, <1>d, <2>1 DEF PushEvict, ViewsInv
  <2>4. QED
    BY <2>1, <2>2, <2>3 DEF DurableInv
<1>8. ASSUME NEW e \in Emitters, AppendSegment(e)
      PROVE  DurableInv'
  <2>1. Rows' = Rows /\ StoreContiguous'
    BY <1>8, <1>s DEF AppendSegment
  <2>2. InFlightDurable'
    BY <1>8, <1>g, <2>1 DEF AppendSegment, PersistedStages
  <2>3. call[e] \in Rows
    BY <1>8, <1>d DEF AppendSegment, InFlightDurable, PersistedStages
  <2>4. ViewsInv'
    BY <1>8, <1>d, <2>1, <2>3 DEF AppendSegment, ViewsInv
  <2>5. QED
    BY <2>1, <2>2, <2>4 DEF DurableInv
<1>9. ASSUME NEW e \in Emitters, FanOut(e)
      PROVE  DurableInv'
  <2>1. Rows' = Rows /\ StoreContiguous'
    BY <1>9, <1>s DEF FanOut
  <2>2. InFlightDurable'
    BY <1>9, <1>g, <1>r, <2>1 DEF FanOut, PersistedStages
  <2>3. call[e] \in Rows /\ call[e] \in Envelope
    BY <1>9, <1>d DEF FanOut, InFlightDurable, PersistedStages, TypeOK
  <2>4. ASSUME NEW s \in DOMAIN channels
        PROVE  Range(channels'[s]) \subseteq Rows
    <3>1. channels[s] \in Seq(Envelope) /\ Range(channels[s]) \subseteq Rows
      BY <1>d DEF ViewsInv, TypeOK
    <3>2. Range(Append(channels[s], call[e])) \subseteq Rows
      BY <2>3, <3>1, AppendRange
    <3>3. channels'[s] \in {channels[s], Append(channels[s], call[e])}
      BY <1>9 DEF FanOut
    <3>4. QED
      BY <3>1, <3>2, <3>3
  <2>5. ViewsInv'
    BY <1>9, <1>d, <2>1, <2>4 DEF FanOut, ViewsInv
  <2>6. QED
    BY <2>1, <2>2, <2>5 DEF DurableInv
<1>10. ASSUME NEW e \in Emitters, CacheAppend(e)
       PROVE  DurableInv'
  <2>1. Rows' = Rows /\ StoreContiguous'
    BY <1>10, <1>s DEF CacheAppend
  <2>2. InFlightDurable'
    BY <1>10, <1>r, <2>1 DEF CacheAppend
  <2>3. call[e] \in Rows
    BY <1>10, <1>d DEF CacheAppend, InFlightDurable, PersistedStages
  <2>4. ViewsInv'
    BY <1>10, <1>d, <2>1, <2>3 DEF CacheAppend, ViewsInv
  <2>5. QED
    BY <2>1, <2>2, <2>4 DEF DurableInv
<1>c. ASSUME CachedSessionEvents PROVE cache'.log \subseteq Rows
  BY <1>c, <1>d DEF CachedSessionEvents, TopUp, FullLoad, GetEvents, ViewsInv
<1>11. CASE LoadSessionLog
  BY <1>11, <1>d, <1>s, <1>c DEF LoadSessionLog, DurableInv, InFlightDurable, ViewsInv
<1>12. CASE CompactBegin
  BY <1>12, <1>d, <1>s, <1>c DEF CompactBegin, DurableInv, InFlightDurable, ViewsInv
<1>13. CASE CompactEnd
  BY <1>13, <1>d, <1>s DEF CompactEnd, ColdCache, DurableInv, InFlightDurable, ViewsInv
<1>14. ASSUME NEW s \in Subscribers, Subscribe(s)
       PROVE  DurableInv'
  <2>1. \A t \in DOMAIN channels' : Range(channels'[t]) \subseteq Rows
    BY <1>14, <1>d DEF Subscribe, ViewsInv, Range
  <2>2. QED
    BY <1>14, <1>d, <1>s, <2>1 DEF Subscribe, DurableInv, InFlightDurable, ViewsInv
<1>15. ASSUME NEW s \in Subscribers, Unsubscribe(s)
       PROVE  DurableInv'
  BY <1>15, <1>d, <1>s DEF Unsubscribe, DurableInv, InFlightDurable, ViewsInv
<1>16. ASSUME NEW s \in Subscribers, Receive(s)
       PROVE  DurableInv'
  <2>1. Range(Tail(channels[s])) \subseteq Range(channels[s])
    BY <1>16, TailRange DEF Receive, TypeOK
  <2>2. \A t \in DOMAIN channels' : Range(channels'[t]) \subseteq Rows
    BY <1>16, <1>d, <2>1 DEF Receive, ViewsInv
  <2>3. QED
    BY <1>16, <1>d, <1>s, <2>2 DEF Receive, DurableInv, InFlightDurable, ViewsInv
<1>17. ASSUME NEW readOK \in BOOLEAN, Restart(readOK)
       PROVE  DurableInv'
  <2>1. Rows' = Rows /\ StoreContiguous'
    BY <1>17, <1>s DEF Restart
  <2>2. InFlightDurable'
    BY <1>17 DEF Restart, InFlightDurable, PersistedStages
  <2>3. ViewsInv'
    BY <1>17, <1>d, <2>1 DEF Restart, ViewsInv, EmptyRing, FullLoad, ColdCache
  <2>4. QED
    BY <2>1, <2>2, <2>3 DEF DurableInv
<1>18. CASE UNCHANGED vars
  BY <1>18, <1>d, <1>s, <1>v DEF vars, DurableInv, InFlightDurable
<1>19. QED
  BY <1>1, <1>2, <1>3, <1>4, <1>5, <1>6a, <1>6b, <1>6c, <1>6d, <1>6e, <1>8, <1>9,
     <1>10, <1>11, <1>12, <1>13, <1>14, <1>15, <1>16, <1>17, <1>18 DEF Next

(* ViewsInv covers the ring's window.                                       *)
LEMMA ViewsCovered == TypeOK /\ ViewsInv => ViewsDurable
<1> SUFFICES ASSUME TypeOK, ViewsInv PROVE ViewsDurable
  OBVIOUS
<1>1. \A i \in ring.head .. ring.tail - 1 : i % RingCap \in 0 .. RingCap - 1
  BY CapAssumption DEF TypeOK
<1>2. QED
  BY <1>1 DEF ViewsInv, ViewsDurable

(* The durable log of a session is contiguous whatever the emitters         *)
(* interleave, fail or restart: SqliteStore.appendBatch and EmitEvent.      *)
THEOREM LogContiguous == Spec => []StoreContiguous
<1>1. TypeOK /\ DurableInv /\ [Next]_vars => DurableInv'
  BY DurableStep
<1>2. Spec => []DurableInv
  BY DurableInit, <1>1, TypeCorrect, PTL DEF Spec
<1>3. QED
  BY <1>2, PTL DEF DurableInv

(* Persist before publish: whatever EmitEvent lets a reader see is in the   *)
(* durable log.                                                             *)
THEOREM NothingSeenIsLost == Spec => []ViewsDurable
<1>1. Spec => []DurableInv
  BY DurableInit, DurableStep, TypeCorrect, PTL DEF Spec
<1>2. DurableInv => ViewsInv
  BY DEF DurableInv
<1>3. QED
  BY <1>1, <1>2, ViewsCovered, TypeCorrect, PTL

-----------------------------------------------------------------------------
(* Turn numbers increase along the log, across restarts. *)

TurnMarkers == {TurnStart, TurnEnd}

(* Boundaries are emitted by the actor only.                                *)
ActorEmitsBoundaries == \A e \in Emitters : call[e].type \in Boundaries => e = Actor

(* turnNumber bounds every turn the log or a call in progress mentions.     *)
TurnNumberBounds ==
    /\ machine.activeTurn <= machine.turnNumber
    /\ \A r \in Rows : r.type \in TurnMarkers => r.turn <= machine.turnNumber
    /\ \A e \in Emitters : call[e].type \in TurnMarkers => call[e].turn <= machine.turnNumber

(* A turn/start on its way to the store is past every turn stored so far.   *)
PendingTurnFresh ==
    pc[Actor] \in {"seq", "persist"} /\ call[Actor].type = TurnStart =>
        \A r \in Rows : r.type = TurnStart => r.turn < call[Actor].turn

TurnInv ==
    /\ ActorEmitsBoundaries
    /\ TurnMonotone
    /\ ~seedLost => TurnNumberBounds /\ PendingTurnFresh

(* No turn has been numbered yet.                                           *)
LEMMA TurnInit == Init => TurnInv
<1> SUFFICES ASSUME Init PROVE TurnInv
  OBVIOUS
<1>1. Rows = {} /\ TurnMonotone
  BY DEF Init, Rows, Range, TurnMonotone
<1>2. ActorEmitsBoundaries
  BY DEF Init, ActorEmitsBoundaries, NoEnvelope, Other, Boundaries, TurnStart, TurnEnd,
     StepStart, StepEnd
<1>3. TurnNumberBounds
  BY <1>1 DEF Init, TurnNumberBounds, FreshMachine, NoEnvelope, Other, TurnMarkers,
     TurnStart, TurnEnd
<1>4. PendingTurnFresh
  BY <1>1 DEF PendingTurnFresh
<1>5. QED
  BY <1>1, <1>2, <1>3, <1>4 DEF TurnInv

(* The machine never opens a turn it has not numbered, numbers a new turn   *)
(* past all earlier ones, and stamps a turn/end with a turn it numbered.    *)
LEMMA MachineTurns ==
    ASSUME NEW m \in Machine, NEW type \in Types, m.activeTurn <= m.turnNumber
    PROVE  /\ Transit(m, type).activeTurn <= Transit(m, type).turnNumber
           /\ m.turnNumber <= Transit(m, type).turnNumber
           /\ type \in TurnMarkers => StampTurn(m, type) <= Transit(m, type).turnNumber
           /\ type = TurnStart => StampTurn(m, type) = m.turnNumber + 1
<1> USE DEF Transit, StampTurn, Machine, TurnMarkers
<1>1. CASE type = TurnStart
  <2>1. Transit(m, type) = [activeTurn |-> m.turnNumber + 1, activeStep |-> 0,
                            turnNumber |-> m.turnNumber + 1, stepNumber |-> m.stepNumber]
    BY <1>1 DEF TurnStart, TurnEnd, StepStart, StepEnd
  <2>2. StampTurn(m, type) = m.turnNumber + 1
    BY <1>1, <2>1
  <2>3. m.turnNumber \in Nat
    OBVIOUS
  <2>4. QED
    BY <2>1, <2>2, <2>3
<1>2. CASE type = TurnEnd
  <2>1. Transit(m, type) = [m EXCEPT !.activeTurn = 0]
    BY <1>2 DEF TurnStart, TurnEnd, StepStart, StepEnd
  <2>2. StampTurn(m, type) = m.activeTurn
    BY <1>2 DEF TurnStart, TurnEnd, StepStart
  <2>3. m.turnNumber \in Nat
    OBVIOUS
  <2>4. QED
    BY <1>2, <2>1, <2>2, <2>3 DEF TurnStart, TurnEnd
<1>3. CASE type = StepStart
  BY <1>3 DEF TurnStart, TurnEnd, StepStart
<1>4. CASE type = StepEnd
  BY <1>4 DEF TurnStart, TurnEnd, StepStart, StepEnd
<1>5. CASE type \notin Boundaries
  <2>1. Transit(m, type) = m
    BY <1>5 DEF Boundaries
  <2>2. QED
    BY <1>5, <2>1 DEF Boundaries
<1>6. QED
  BY <1>1, <1>2, <1>3, <1>4, <1>5 DEF Boundaries

(* Every step keeps turn numbers increasing.  Only EmitEvent, AppendBatch   *)
(* and Restart touch the machine or the store.                              *)
LEMMA TurnStep == TypeInv /\ TurnInv /\ [Next]_vars => TurnInv'
<1> SUFFICES ASSUME TypeInv, TurnInv, [Next]_vars PROVE TurnInv'
  OBVIOUS
<1>t. TypeOK /\ TurnsBounded
  BY DEF TypeInv
<1>i. /\ ActorEmitsBoundaries /\ TurnMonotone
      /\ ~seedLost => TurnNumberBounds /\ PendingTurnFresh
  BY DEF TurnInv
<1>m. ASSUME UNCHANGED <<store, seedLost>> PROVE TurnMonotone' /\ Rows' = Rows
  BY <1>m, <1>i DEF TurnMonotone, Rows
<1>0. NoEnvelope.type \notin Boundaries /\ TurnMarkers \subseteq Boundaries
  BY DEF NoEnvelope, Other, Boundaries, TurnMarkers, TurnStart, TurnEnd, StepStart, StepEnd
<1>u. ASSUME UNCHANGED <<store, seedLost, machine, pc, call>> PROVE TurnInv'
  BY <1>u, <1>m, <1>i DEF TurnInv, ActorEmitsBoundaries, TurnNumberBounds, PendingTurnFresh
<1>g. ASSUME NEW e \in Emitters, NEW stage, Goto(e, stage), stage \notin {"seq", "persist"},
             UNCHANGED <<store, seedLost, machine>>
      PROVE  TurnInv'
  <2>1. ActorEmitsBoundaries'
    BY <1>g, <1>i DEF Goto, ActorEmitsBoundaries
  <2>2. TurnNumberBounds => TurnNumberBounds'
    BY <1>g, <1>m DEF Goto, TurnNumberBounds
  <2>3. PendingTurnFresh => PendingTurnFresh'
    BY <1>g, <1>m, <1>t DEF Goto, PendingTurnFresh, TypeOK
  <2>4. QED
    BY <1>g, <1>i, <1>m, <2>1, <2>2, <2>3 DEF TurnInv
<1>r. ASSUME NEW e \in Emitters, Return(e), UNCHANGED <<store, seedLost, machine>>
      PROVE  TurnInv'
  <2>1. \A f \in Emitters : call'[f] = IF f = e THEN NoEnvelope ELSE call[f]
    BY <1>r, <1>t DEF Return, TypeOK
  <2>2. ActorEmitsBoundaries'
    BY <1>i, <1>0, <2>1 DEF ActorEmitsBoundaries
  <2>3. TurnNumberBounds => TurnNumberBounds'
    BY <1>r, <1>m, <1>0, <2>1 DEF TurnNumberBounds
  <2>4. PendingTurnFresh => PendingTurnFresh'
    BY <1>r, <1>m, <1>t DEF Return, PendingTurnFresh, TypeOK
  <2>5. QED
    BY <1>r, <1>i, <1>m, <2>2, <2>3, <2>4 DEF TurnInv
<1>1. ASSUME NEW e \in Emitters, NEW type \in Boundaries \cup {Other}, EmitEvent(e, type)
      PROVE  TurnInv'
  <2> DEFINE env == [seq |-> 0, type |-> type,
                     turn |-> IF type \in Boundaries THEN StampTurn(machine, type) ELSE 0]
  <2>1. \A f \in Emitters : call'[f] = IF f = e THEN env ELSE call[f]
    BY <1>1, <1>t DEF EmitEvent, TypeOK
  <2>2. UNCHANGED <<store, seedLost>> /\ machine' = Transit(machine, type)
    BY <1>1 DEF EmitEvent, history
  <2>3. TurnMonotone' /\ Rows' = Rows
    BY <1>m, <2>2
  <2>4. ActorEmitsBoundaries'
    BY <1>1, <1>i, <2>1 DEF EmitEvent, ActorEmitsBoundaries
  <2>5. ASSUME ~seedLost PROVE TurnNumberBounds' /\ PendingTurnFresh'
    <3>1. machine \in Machine /\ type \in Types
      BY <1>t DEF TypeOK, Types
    <3>2. TurnNumberBounds /\ PendingTurnFresh
      BY <1>i, <2>5
    <3>3. /\ machine'.activeTurn <= machine'.turnNumber
          /\ machine.turnNumber <= machine'.turnNumber
          /\ type \in TurnMarkers => StampTurn(machine, type) <= machine'.turnNumber
          /\ type = TurnStart => StampTurn(machine, type) = machine.turnNumber + 1
      BY <2>2, <3>1, <3>2, MachineTurns DEF TurnNumberBounds
    <3>4. machine.turnNumber \in Nat /\ machine'.turnNumber \in Nat
      BY <2>2, <3>1, MachineTyping DEF Machine
    <3>5. \A r \in Rows : r.turn \in Nat
      <4>1. Rows \subseteq Envelope
        BY <1>t DEF TypeOK, Rows, Range
      <4>2. QED
        BY <4>1 DEF Envelope
    <3>6. \A f \in Emitters : call[f].turn \in Nat
      BY <1>t DEF TypeOK, Envelope
    <3>7. \A r \in Rows : r.type \in TurnMarkers => r.turn <= machine'.turnNumber
      BY <3>2, <3>3, <3>4, <3>5 DEF TurnNumberBounds
    <3>8. \A f \in Emitters \ {e} :
             call'[f].type \in TurnMarkers => call'[f].turn <= machine'.turnNumber
      BY <2>1, <3>2, <3>3, <3>4, <3>6 DEF TurnNumberBounds
    <3>9. call'[e].type \in TurnMarkers => call'[e].turn <= machine'.turnNumber
      BY <1>0, <2>1, <3>3
    <3>10. TurnNumberBounds'
      BY <2>3, <3>3, <3>7, <3>8, <3>9 DEF TurnNumberBounds
    <3>11. PendingTurnFresh'
      <4>1. CASE type = TurnStart
        <5>1. e = Actor /\ call'[Actor].turn = machine.turnNumber + 1
          BY <1>1, <2>1, <3>3, <4>1 DEF EmitEvent, Boundaries
        <5>2. \A r \in Rows : r.type = TurnStart => r.turn < machine.turnNumber + 1
          BY <3>2, <3>4, <3>5 DEF TurnNumberBounds, TurnMarkers
        <5>3. QED
          BY <2>3, <5>1, <5>2 DEF PendingTurnFresh
      <4>2. CASE type # TurnStart /\ e = Actor
        BY <2>1, <4>2 DEF PendingTurnFresh
      <4>3. CASE e # Actor
        <5>1. call'[Actor] = call[Actor] /\ pc'[Actor] = pc[Actor]
          BY <1>1, <1>t, <2>1, <4>3, EmittersAssumption DEF EmitEvent, TypeOK
        <5>2. QED
          BY <2>3, <3>2, <5>1 DEF PendingTurnFresh
      <4>4. QED
        BY <4>1, <4>2, <4>3
    <3>12. QED
      BY <3>10, <3>11
  <2>6. QED
    BY <2>2, <2>3, <2>4, <2>5 DEF TurnInv
<1>2. ASSUME NEW e \in Emitters, EmitRaw(e)
      PROVE  TurnInv'
  <2>1. \A f \in Emitters :
           call'[f] = IF f = e THEN [seq |-> 0, type |-> Compaction, turn |-> 0] ELSE call[f]
    BY <1>2, <1>t DEF EmitRaw, TypeOK
  <2>2. Compaction \notin Boundaries
    BY DEF Compaction, Boundaries, TurnStart, TurnEnd, StepStart, StepEnd
  <2>3. TurnMonotone' /\ Rows' = Rows /\ UNCHANGED <<machine, seedLost>> /\ e = Actor
    BY <1>2, <1>m DEF EmitRaw, history
  <2>4. ActorEmitsBoundaries'
    BY <1>i, <2>1, <2>2 DEF ActorEmitsBoundaries
  <2>5. TurnNumberBounds => TurnNumberBounds'
    BY <1>0, <2>1, <2>2, <2>3 DEF TurnNumberBounds
  <2>6. PendingTurnFresh'
    BY <2>1, <2>2, <2>3 DEF PendingTurnFresh, Boundaries
  <2>7. QED
    BY <1>i, <2>3, <2>4, <2>5, <2>6 DEF TurnInv
<1>3. ASSUME NEW e \in Emitters, TakeSeq(e)
      PROVE  TurnInv'
  <2>1. \A f \in Emitters : call'[f].type = call[f].type /\ call'[f].turn = call[f].turn
    BY <1>3, <1>t DEF TakeSeq, TypeOK
  <2>2. pc'[Actor] \in {"seq", "persist"} => pc[Actor] \in {"seq", "persist"}
    BY <1>3, <1>t, EmittersAssumption DEF TakeSeq, TypeOK
  <2>3. TurnMonotone' /\ Rows' = Rows /\ UNCHANGED <<machine, seedLost>>
    BY <1>3, <1>m DEF TakeSeq, history
  <2>4. ActorEmitsBoundaries'
    BY <1>i, <2>1 DEF ActorEmitsBoundaries
  <2>5. TurnNumberBounds => TurnNumberBounds'
    BY <2>1, <2>3 DEF TurnNumberBounds
  <2>6. PendingTurnFresh => PendingTurnFresh'
    BY <2>1, <2>2, <2>3, EmittersAssumption DEF PendingTurnFresh
  <2>7. QED
    BY <1>i, <2>3, <2>4, <2>5, <2>6 DEF TurnInv
<1>4. ASSUME NEW e \in Emitters, AppendBatch(e)
      PROVE  TurnInv'
  <2>1. CASE call[e].seq = NextStored /\ store' = Append(store, call[e]) /\ Goto(e, "load")
    <3>1. store \in Seq(Envelope) /\ call[e] \in Envelope
      BY <1>t DEF TypeOK
    <3>2. Rows' = Rows \cup {call[e]} /\ Len(store') = Len(store) + 1
      BY <2>1, <3>1, AppendRange DEF Rows
    <3>3. \A i \in 1 .. Len(store) + 1 :
             store'[i] = IF i <= Len(store) THEN store[i] ELSE call[e]
      BY <2>1, <3>1
    <3>4. UNCHANGED <<machine, seedLost, call>> /\ pc[e] = "persist"
      BY <1>4, <2>1 DEF AppendBatch, Goto, history
    <3>5. ActorEmitsBoundaries'
      BY <1>i, <3>4 DEF ActorEmitsBoundaries
    <3>6. ASSUME ~seedLost
          PROVE  \A i \in 1 .. Len(store) :
                    store[i].type = TurnStart /\ call[e].type = TurnStart =>
                        store[i].turn < call[e].turn
      <4>1. \A i \in 1 .. Len(store) : store[i] \in Rows
        BY <3>1 DEF Rows, Range
      <4>2. call[e].type = TurnStart => e = Actor
        BY <1>i DEF ActorEmitsBoundaries, Boundaries
      <4>3. QED
        BY <1>i, <3>4, <3>6, <4>1, <4>2 DEF PendingTurnFresh
    <3>7. TurnMonotone'
      BY <1>i, <3>1, <3>2, <3>3, <3>4, <3>6 DEF TurnMonotone
    <3>8. TurnNumberBounds => TurnNumberBounds'
      BY <3>2, <3>4 DEF TurnNumberBounds
    <3>9. ASSUME ~seedLost PROVE PendingTurnFresh'
      <4>1. CASE e = Actor
        BY <1>t, <2>1, <4>1 DEF Goto, TypeOK, PendingTurnFresh
      <4>2. CASE e # Actor
        <5>1. call[e].type # TurnStart /\ pc'[Actor] = pc[Actor]
          BY <1>i, <1>t, <2>1, <4>2, EmittersAssumption
             DEF ActorEmitsBoundaries, Boundaries, Goto, TypeOK
        <5>2. QED
          BY <1>i, <3>2, <3>4, <3>9, <5>1 DEF PendingTurnFresh
      <4>3. QED
        BY <4>1, <4>2
    <3>10. QED
      BY <1>i, <3>4, <3>5, <3>7, <3>8, <3>9 DEF TurnInv
  <2>2. CASE store' = store /\ Return(e)
    BY <1>4, <1>r, <2>2 DEF AppendBatch, history
  <2>3. QED
    BY <1>4, <2>1, <2>2 DEF AppendBatch
<1>5. ASSUME NEW e \in Emitters, PersistFault(e)
      PROVE  TurnInv'
  BY <1>5, <1>r DEF PersistFault
<1>6. ASSUME NEW e \in Emitters,
             PushLoad(e) \/ PushSlot(e) \/ PushTail(e) \/ PushMeasure(e) \/ PushEvict(e)
      PROVE  TurnInv'
  BY <1>6, <1>g DEF PushLoad, PushSlot, PushTail, PushMeasure, PushEvict, history
<1>8. ASSUME NEW e \in Emitters, AppendSegment(e)
      PROVE  TurnInv'
  BY <1>8, <1>g DEF AppendSegment
<1>9. ASSUME NEW e \in Emitters, FanOut(e)
      PROVE  TurnInv'
  BY <1>9, <1>g, <1>r DEF FanOut, history
<1>10. ASSUME NEW e \in Emitters, CacheAppend(e)
       PROVE  TurnInv'
  BY <1>10, <1>r DEF CacheAppend, history
<1>11. CASE LoadSessionLog \/ CompactBegin \/ CompactEnd
  BY <1>11, <1>u DEF LoadSessionLog, CompactBegin, CompactEnd, history
<1>12. ASSUME NEW s \in Subscribers, Subscribe(s) \/ Unsubscribe(s) \/ Receive(s)
       PROVE  TurnInv'
  BY <1>12, <1>u DEF Subscribe, Unsubscribe, Receive, history
<1>13. ASSUME NEW readOK \in BOOLEAN, Restart(readOK)
       PROVE  TurnInv'
  <2>1. \A f \in Emitters : call'[f] = NoEnvelope /\ pc'[f] = "idle"
    BY <1>13 DEF Restart
  <2>2. store' = store /\ Rows' = Rows
    BY <1>13 DEF Restart, Rows
  <2>3. ~seedLost' => ~seedLost /\ (readOK \/ store = <<>>)
    BY <1>13 DEF Restart
  <2>4. TurnMonotone'
    BY <1>i, <2>2, <2>3 DEF TurnMonotone
  <2>5. ActorEmitsBoundaries'
    BY <1>0, <2>1 DEF ActorEmitsBoundaries
  <2>6. PendingTurnFresh'
    BY <2>1, EmittersAssumption DEF PendingTurnFresh
  <2>7. ASSUME ~seedLost' PROVE TurnNumberBounds'
    <3>1. LastStoredTurn \in Nat /\ \A n \in StoredTurns : n <= LastStoredTurn
      BY <1>t, LastStoredTurnTyping DEF TypeOK
    <3>2. \A r \in Rows : r.type \in TurnMarkers => r.turn <= machine'.turnNumber
      <4>1. CASE store = <<>>
        BY <4>1 DEF Rows, Range
      <4>2. CASE readOK
        BY <1>13, <3>1, <4>2 DEF Restart, FreshMachine, StoredTurns, TurnMarkers
      <4>3. QED
        BY <2>3, <2>7, <4>1, <4>2
    <3>3. machine'.activeTurn <= machine'.turnNumber
      BY <1>13, <3>1 DEF Restart, FreshMachine
    <3>4. QED
      BY <1>0, <2>1, <2>2, <3>2, <3>3 DEF TurnNumberBounds
  <2>8. QED
    BY <2>4, <2>5, <2>6, <2>7 DEF TurnInv
<1>14. CASE UNCHANGED vars
  BY <1>14, <1>u DEF vars
<1>15. QED
  BY <1>1, <1>2, <1>3, <1>4, <1>5, <1>6, <1>8, <1>9, <1>10, <1>11, <1>12, <1>13, <1>14
  DEF Next

(* seedSeqFrom's restart monotonicity: turn numbers increase strictly along *)
(* the durable log for any number of restarts, as long as every reopening   *)
(* could read the log.                                                      *)
THEOREM TurnsIncrease == Spec => []TurnMonotone
<1>1. Spec => []TypeInv
  BY TypeInit, TypeStep, PTL DEF Spec
<1>2. Spec => []TurnInv
  BY <1>1, TurnInit, TurnStep, PTL DEF Spec
<1>3. QED
  BY <1>2, PTL DEF TurnInv

-----------------------------------------------------------------------------
(* What holds on top of the durable log while the calls of a process never  *)
(* overlap: no wedge, an exact log cache and an exact ring window.          *)

-----------------------------------------------------------------------------
(* A session whose calls never overlap: the call in progress. *)

(* At most one call is past its seqCounter.Add, and once its append went    *)
(* through its envelope is the last row of the log.                         *)
OneInFlight ==
    ~overlapped =>
        \A e, f \in Emitters : pc[e] \notin {"idle", "seq"} /\ pc[f] \notin {"idle", "seq"} => e = f
InFlightLast ==
    ~overlapped => \A e \in Emitters : pc[e] \in PersistedStages => call[e].seq = NextStored - 1

FlightInv == OneInFlight /\ InFlightLast

(* No call is in progress.                                                  *)
LEMMA FlightInit == Init => FlightInv
  BY DEF Init, FlightInv, OneInFlight, InFlightLast, PersistedStages

(* Moving the call of e on, or returning from it, moves no other call.      *)
LEMMA CallMoves ==
    ASSUME TypeOK, NEW e \in Emitters
    PROVE  /\ \A stage : Goto(e, stage) =>
                  /\ \A f \in Emitters : pc'[f] = IF f = e THEN stage ELSE pc[f]
                  /\ \A f \in Emitters : call'[f] = call[f]
           /\ Return(e) =>
                  /\ \A f \in Emitters : pc'[f] = IF f = e THEN "idle" ELSE pc[f]
                  /\ \A f \in Emitters : call'[f] = IF f = e THEN NoEnvelope ELSE call[f]
  BY DEF TypeOK, Goto, Return

(* Every stage after the append either moves its own call on or returns.    *)
LEMMA LaterStages ==
    ASSUME TypeOK, NEW e \in Emitters,
           \/ PushLoad(e) \/ PushSlot(e) \/ PushTail(e) \/ PushMeasure(e) \/ PushEvict(e)
           \/ AppendSegment(e) \/ FanOut(e) \/ CacheAppend(e)
    PROVE  /\ UNCHANGED <<store, overlapped, seqCounter, faulted, base, compacting, machine>>
           /\ pc[e] \in PersistedStages
           /\ \A f \in Emitters \ {e} : pc'[f] = pc[f] /\ call'[f] = call[f]
           /\ \/ pc'[e] \in PersistedStages /\ call'[e] = call[e]
              \/ pc'[e] = "idle" /\ call'[e] = NoEnvelope
<1> USE DEF history, PersistedStages
<1>1. CASE PushLoad(e) \/ PushSlot(e) \/ PushTail(e) \/ PushMeasure(e) \/ PushEvict(e)
  <2>1. PICK stage \in PersistedStages : Goto(e, stage)
    BY <1>1 DEF PushLoad, PushSlot, PushTail, PushMeasure, PushEvict
  <2>2. pc[e] \in PersistedStages
        /\ UNCHANGED <<store, overlapped, seqCounter, faulted, base, compacting, machine>>
    BY <1>1 DEF PushLoad, PushSlot, PushTail, PushMeasure, PushEvict
  <2>3. QED
    BY <2>1, <2>2, CallMoves
<1>2. CASE AppendSegment(e) \/ FanOut(e) \/ CacheAppend(e)
  <2>1. Goto(e, "fanout") \/ Goto(e, "cache") \/ Return(e)
    BY <1>2 DEF AppendSegment, FanOut, CacheAppend
  <2>2. pc[e] \in PersistedStages
        /\ UNCHANGED <<store, overlapped, seqCounter, faulted, base, compacting, machine>>
    BY <1>2 DEF AppendSegment, FanOut, CacheAppend
  <2>3. QED
    BY <2>1, <2>2, CallMoves
<1>3. QED
  BY <1>1, <1>2

(* A call that begins takes no number and writes nothing yet.               *)
LEMMA CallBegins ==
    ASSUME TypeOK, NEW e \in Emitters,
           EmitRaw(e) \/ \E type \in Boundaries \cup {Other} : EmitEvent(e, type)
    PROVE  /\ UNCHANGED <<store, overlapped, seqCounter, faulted, base, compacting, ring, cache>>
           /\ pc[e] = "idle" /\ pc'[e] = "seq"
           /\ \A f \in Emitters \ {e} : pc'[f] = pc[f] /\ call'[f] = call[f]
           /\ call'[e].type = Compaction => e = Actor /\ compacting
<1>1. CASE EmitRaw(e)
  BY <1>1 DEF EmitRaw, history, TypeOK
<1>2. ASSUME NEW type \in Boundaries \cup {Other}, EmitEvent(e, type)
      PROVE  /\ UNCHANGED <<store, overlapped, seqCounter, faulted, base, compacting, ring, cache>>
             /\ pc[e] = "idle" /\ pc'[e] = "seq"
             /\ \A f \in Emitters \ {e} : pc'[f] = pc[f] /\ call'[f] = call[f]
             /\ call'[e].type # Compaction
  BY <1>2 DEF EmitEvent, history, TypeOK, Boundaries, TurnStart, TurnEnd, StepStart, StepEnd,
     Other, Compaction
<1>3. QED
  BY <1>1, <1>2

(* A refused or failed append ends its call and writes nothing.             *)
LEMMA CallRefused ==
    ASSUME TypeOK, NEW e \in Emitters,
           PersistFault(e) \/ (AppendBatch(e) /\ call[e].seq # NextStored)
    PROVE  /\ UNCHANGED <<store, overlapped, seqCounter, base, compacting, ring, cache>>
           /\ pc[e] = "persist" /\ pc'[e] = "idle" /\ call'[e] = NoEnvelope
           /\ \A f \in Emitters \ {e} : pc'[f] = pc[f] /\ call'[f] = call[f]
           /\ PersistFault(e) \/ faulted' = faulted
           /\ PersistFault(e) => faulted'
<1>1. Return(e) /\ pc[e] = "persist"
  BY DEF PersistFault, AppendBatch
<1>2. QED
  BY <1>1, CallMoves DEF PersistFault, AppendBatch, history

(* An accepted append adds the call's envelope as the last row.             *)
LEMMA CallStored ==
    ASSUME TypeOK, StoreContiguous, NEW e \in Emitters, AppendBatch(e), call[e].seq = NextStored
    PROVE  /\ UNCHANGED <<overlapped, seqCounter, faulted, base, compacting, ring, cache>>
           /\ pc[e] = "persist" /\ pc'[e] = "load"
           /\ \A f \in Emitters : call'[f] = call[f]
           /\ \A f \in Emitters \ {e} : pc'[f] = pc[f]
           /\ Len(store') = Len(store) + 1 /\ Rows' = Rows \cup {call[e]}
           /\ \A i \in 1 .. Len(store) : store'[i] = store[i]
           /\ store'[Len(store) + 1] = call[e]
           /\ NextStored' = NextStored + 1 /\ NextStored = Len(store)
<1>1. store' = Append(store, call[e]) /\ Goto(e, "load") /\ pc[e] = "persist"
  BY DEF AppendBatch
<1>2. store \in Seq(Envelope) /\ call[e] \in Envelope
  BY DEF TypeOK
<1>3. /\ Len(store') = Len(store) + 1 /\ store'[Len(store) + 1] = call[e] /\ store' # <<>>
      /\ \A i \in 1 .. Len(store) : store'[i] = store[i]
  BY <1>1, <1>2
<1>4. Rows' = Rows \cup {call[e]}
  BY <1>1, <1>2, AppendRange DEF Rows
<1>5. NextStored = Len(store)
  BY <1>2, NextStoredIsLen
<1>6. NextStored' = NextStored + 1
  BY <1>3, <1>5 DEF NextStored
<1>7. QED
  BY <1>1, <1>3, <1>4, <1>5, <1>6, CallMoves DEF AppendBatch, history

(* Reads, the compaction bracket and the subscribers leave the calls, the   *)
(* store and the ring alone.                                                *)
LEMMA Bystanders ==
    ASSUME \/ LoadSessionLog \/ CompactBegin \/ CompactEnd \/ UNCHANGED vars
           \/ \E s \in Subscribers : Subscribe(s) \/ Unsubscribe(s) \/ Receive(s)
    PROVE  UNCHANGED <<pc, call, store, overlapped, seqCounter, faulted, base, ring, machine>>
  BY DEF LoadSessionLog, CompactBegin, CompactEnd, vars, Subscribe, Unsubscribe, Receive, history

(* The steps of a session, by what they do to the calls in progress.        *)
LEMMA StepKinds ==
    ASSUME [Next]_vars
    PROVE  \/ \E e \in Emitters :
                 \/ EmitRaw(e) \/ \E type \in Boundaries \cup {Other} : EmitEvent(e, type)
           \/ \E e \in Emitters : TakeSeq(e)
           \/ \E e \in Emitters : PersistFault(e) \/ (AppendBatch(e) /\ call[e].seq # NextStored)
           \/ \E e \in Emitters : AppendBatch(e) /\ call[e].seq = NextStored
           \/ \E e \in Emitters :
                 \/ PushLoad(e) \/ PushSlot(e) \/ PushTail(e) \/ PushMeasure(e) \/ PushEvict(e)
                 \/ AppendSegment(e) \/ FanOut(e) \/ CacheAppend(e)
           \/ LoadSessionLog \/ CompactBegin \/ CompactEnd \/ UNCHANGED vars
           \/ \E s \in Subscribers : Subscribe(s) \/ Unsubscribe(s) \/ Receive(s)
           \/ \E readOK \in BOOLEAN : Restart(readOK)
  BY DEF Next

(* While nothing overlaps, one call at a time goes through the stages.      *)
LEMMA FlightStep ==
    ASSUME TypeOK, DurableInv, FlightInv, [Next]_vars
    PROVE  FlightInv'
<1>c. StoreContiguous
  BY DEF DurableInv
<1>1. ASSUME NEW e \in Emitters,
             EmitRaw(e) \/ \E type \in Boundaries \cup {Other} : EmitEvent(e, type)
      PROVE  FlightInv'
  BY <1>1, CallBegins DEF FlightInv, OneInFlight, InFlightLast, PersistedStages, NextStored
<1>2. ASSUME NEW e \in Emitters, TakeSeq(e) PROVE FlightInv'
  <2>1. /\ \A f \in Emitters \ {e} : pc'[f] = pc[f] /\ call'[f] = call[f]
        /\ pc'[e] = "persist" /\ store' = store
        /\ ~overlapped' => ~overlapped /\ \A f \in Emitters \ {e} : pc[f] \in {"idle", "seq"}
    BY <1>2 DEF TakeSeq, TypeOK
  <2>2. QED
    BY <2>1 DEF FlightInv, OneInFlight, InFlightLast, PersistedStages, NextStored
<1>3. ASSUME NEW e \in Emitters, PersistFault(e) \/ (AppendBatch(e) /\ call[e].seq # NextStored)
      PROVE  FlightInv'
  BY <1>3, CallRefused DEF FlightInv, OneInFlight, InFlightLast, PersistedStages, NextStored
<1>4. ASSUME NEW e \in Emitters, AppendBatch(e), call[e].seq = NextStored PROVE FlightInv'
  <2>1. /\ overlapped' = overlapped /\ pc[e] = "persist" /\ pc'[e] = "load"
        /\ \A f \in Emitters : call'[f] = call[f]
        /\ \A f \in Emitters \ {e} : pc'[f] = pc[f]
        /\ NextStored' = call[e].seq + 1 /\ call[e].seq \in Nat
    BY <1>c, <1>4, CallStored DEF TypeOK, Envelope
  <2>2. OneInFlight'
    BY <2>1 DEF FlightInv, OneInFlight
  <2>3. ~overlapped => \A f \in Emitters \ {e} : pc[f] \in {"idle", "seq"}
    BY <2>1 DEF FlightInv, OneInFlight
  <2>4. InFlightLast'
    BY <2>1, <2>3 DEF InFlightLast, PersistedStages
  <2>5. QED
    BY <2>2, <2>4 DEF FlightInv
<1>5. ASSUME NEW e \in Emitters,
             \/ PushLoad(e) \/ PushSlot(e) \/ PushTail(e) \/ PushMeasure(e) \/ PushEvict(e)
             \/ AppendSegment(e) \/ FanOut(e) \/ CacheAppend(e)
      PROVE  FlightInv'
  BY <1>5, LaterStages DEF FlightInv, OneInFlight, InFlightLast, PersistedStages, NextStored
<1>6. ASSUME \/ LoadSessionLog \/ CompactBegin \/ CompactEnd \/ UNCHANGED vars
             \/ \E s \in Subscribers : Subscribe(s) \/ Unsubscribe(s) \/ Receive(s)
      PROVE  FlightInv'
  BY <1>6, Bystanders DEF FlightInv, OneInFlight, InFlightLast, NextStored
<1>7. ASSUME NEW readOK \in BOOLEAN, Restart(readOK) PROVE FlightInv'
  BY <1>7 DEF Restart, FlightInv, OneInFlight, InFlightLast, PersistedStages
<1>8. QED
  BY <1>1, <1>2, <1>3, <1>4, <1>5, <1>6, <1>7, StepKinds

-----------------------------------------------------------------------------
(* Only a fault or an overlap wedges a session. *)

(* The call that took the last number is the next one the store accepts.    *)
WedgeInv ==
    ~faulted /\ ~overlapped =>
        /\ \A e \in Emitters : pc[e] = "persist" =>
              call[e].seq = NextStored /\ seqCounter = NextStored + 1
        /\ (\A e \in Emitters : pc[e] # "persist") => seqCounter = NextStored

(* An empty log and a fresh counter agree.                                  *)
LEMMA WedgeInit == Init => WedgeInv
  BY DEF Init, WedgeInv, NextStored

(* Every step of a serial, fault-free session keeps counter and store       *)
(* together, reopening included.                                            *)
LEMMA WedgeStep ==
    ASSUME TypeOK, DurableInv, FlightInv, WedgeInv, [Next]_vars
    PROVE  WedgeInv'
<1>c. StoreContiguous /\ store \in Seq(Envelope)
  BY DEF DurableInv, TypeOK
<1>n. NextStored = Len(store) /\ NextStored \in Nat
  BY <1>c, NextStoredIsLen
<1>1. ASSUME NEW e \in Emitters,
             EmitRaw(e) \/ \E type \in Boundaries \cup {Other} : EmitEvent(e, type)
      PROVE  WedgeInv'
  BY <1>1, CallBegins DEF WedgeInv, NextStored
<1>2. ASSUME NEW e \in Emitters, TakeSeq(e) PROVE WedgeInv'
  <2>1. /\ \A f \in Emitters \ {e} : pc'[f] = pc[f] /\ call'[f] = call[f]
        /\ pc[e] = "seq" /\ pc'[e] = "persist" /\ store' = store /\ faulted' = faulted
        /\ seqCounter' = seqCounter + 1 /\ call'[e].seq = seqCounter
        /\ ~overlapped' => ~overlapped /\ \A f \in Emitters \ {e} : pc[f] \in {"idle", "seq"}
    BY <1>2 DEF TakeSeq, TypeOK
  <2>2. SUFFICES ASSUME ~faulted', ~overlapped'
                 PROVE  /\ \A f \in Emitters : pc'[f] = "persist" =>
                              call'[f].seq = NextStored' /\ seqCounter' = NextStored' + 1
                        /\ (\A f \in Emitters : pc'[f] # "persist") => seqCounter' = NextStored'
    BY DEF WedgeInv
  <2>3. seqCounter = NextStored /\ NextStored' = NextStored
    BY <2>1, <2>2 DEF WedgeInv, NextStored
  <2>4. QED
    BY <2>1, <2>2, <2>3
<1>3. ASSUME NEW e \in Emitters, PersistFault(e) PROVE WedgeInv'
  BY <1>3 DEF PersistFault, WedgeInv
<1>4. ASSUME NEW e \in Emitters, AppendBatch(e), call[e].seq # NextStored PROVE WedgeInv'
  <2>1. UNCHANGED <<faulted, overlapped>> /\ pc[e] = "persist"
    BY <1>4 DEF AppendBatch
  <2>2. QED
    BY <1>4, <2>1 DEF WedgeInv
<1>5. ASSUME NEW e \in Emitters, AppendBatch(e), call[e].seq = NextStored PROVE WedgeInv'
  <2>1. /\ UNCHANGED <<overlapped, faulted, seqCounter>> /\ pc[e] = "persist" /\ pc'[e] = "load"
        /\ \A f \in Emitters \ {e} : pc'[f] = pc[f]
        /\ NextStored' = NextStored + 1
    BY <1>c, <1>5, CallStored
  <2>2. SUFFICES ASSUME ~faulted, ~overlapped
                 PROVE  /\ \A f \in Emitters : pc'[f] # "persist"
                        /\ seqCounter' = NextStored'
    BY <2>1 DEF WedgeInv
  <2>3. \A f \in Emitters \ {e} : pc[f] \in {"idle", "seq"}
    BY <2>1, <2>2 DEF FlightInv, OneInFlight
  <2>4. QED
    BY <2>1, <2>2, <2>3 DEF WedgeInv
<1>6. ASSUME NEW e \in Emitters,
             \/ PushLoad(e) \/ PushSlot(e) \/ PushTail(e) \/ PushMeasure(e) \/ PushEvict(e)
             \/ AppendSegment(e) \/ FanOut(e) \/ CacheAppend(e)
      PROVE  WedgeInv'
  BY <1>6, LaterStages DEF WedgeInv, PersistedStages, NextStored
<1>7. ASSUME \/ LoadSessionLog \/ CompactBegin \/ CompactEnd \/ UNCHANGED vars
             \/ \E s \in Subscribers : Subscribe(s) \/ Unsubscribe(s) \/ Receive(s)
      PROVE  WedgeInv'
  BY <1>7, Bystanders DEF WedgeInv, NextStored
<1>8. ASSUME NEW readOK \in BOOLEAN, Restart(readOK) PROVE WedgeInv'
  <2>1. /\ store' = store /\ \A e \in Emitters : pc'[e] = "idle"
        /\ ~faulted' => seqCounter' = NextStored
    BY <1>8 DEF Restart, SeedSeq, NextStored
  <2>2. QED
    BY <2>1 DEF WedgeInv, NextStored
<1>9. QED
  BY <1>1, <1>2, <1>3, <1>4, <1>5, <1>6, <1>7, <1>8, StepKinds

(* What every behaviour of the pipeline satisfies so far.                   *)
LEMMA PipelineInv == Spec => [](TypeOK /\ DurableInv /\ FlightInv)
<1>1. Spec => [](TypeOK /\ DurableInv)
  BY DurableInit, DurableStep, TypeCorrect, PTL DEF Spec
<1>2. TypeOK /\ DurableInv /\ FlightInv /\ [Next]_vars => FlightInv'
  BY FlightStep
<1>3. QED
  BY <1>1, <1>2, FlightInit, PTL DEF Spec

(* A serial session that suffered no fault never wedges: whenever no call   *)
(* is on its way to the store, the store accepts the next number the        *)
(* counter hands out (EmitEvent, appendBatch, seedSeqFrom).                 *)
THEOREM OnlyFaultsWedge == Spec => []WedgeCause
<1>1. TypeOK /\ DurableInv /\ FlightInv /\ WedgeInv /\ [Next]_vars => WedgeInv'
  BY WedgeStep
<1>2. Spec => []WedgeInv
  BY <1>1, WedgeInit, PipelineInv, PTL DEF Spec
<1>3. WedgeInv => WedgeCause
  BY DEF WedgeInv, WedgeCause
<1>4. QED
  BY <1>2, <1>3, PTL


-----------------------------------------------------------------------------
(* The log cache of a serial session. *)

(* Only the actor inside its transaction emits compaction events; the cache *)
(* is never ahead of the store; and outside the transaction a warm cache    *)
(* lacks at most the row of the call in progress.                           *)
CompactionOnly ==
    \A e \in Emitters : call[e].type = Compaction => e = Actor /\ pc[e] # "idle" /\ compacting
CachePrefix ==
    ~overlapped /\ cache.warm /\ ~compacting =>
        /\ cache.log = {r \in Rows : r.seq <= cache.last}
        /\ (\A e \in Emitters : pc[e] \notin PersistedStages) => cache.last = NextStored - 1
        /\ cache.last >= NextStored - 2
CacheInv ==
    /\ CompactionOnly
    /\ -1 <= cache.last /\ cache.last < NextStored
    /\ CachePrefix

(* A row is found by its sequence number.                                   *)
LEMMA RowBySeq ==
    ASSUME TypeOK, StoreContiguous
    PROVE  /\ NextStored = Len(store) /\ NextStored \in Nat
           /\ \A r \in Rows : r.seq \in Nat /\ r.seq < NextStored
           /\ \A r, s \in Rows : r.seq = s.seq => r = s
<1>1. store \in Seq(Envelope)
  BY DEF TypeOK
<1>2. NextStored = Len(store) /\ NextStored \in Nat
  BY <1>1, NextStoredIsLen
<1>3. \A r \in Rows : \E i \in 1 .. Len(store) : r = store[i] /\ r.seq = i - 1
  BY <1>1 DEF Rows, Range, StoreContiguous
<1>4. \A r \in Rows : r.seq \in Nat /\ r.seq < NextStored
  BY <1>2, <1>3
<1>5. ASSUME NEW r \in Rows, NEW s \in Rows, r.seq = s.seq PROVE r = s
  <2>1. PICK i \in 1 .. Len(store) : r = store[i] /\ r.seq = i - 1
    BY <1>3
  <2>2. PICK j \in 1 .. Len(store) : s = store[j] /\ s.seq = j - 1
    BY <1>3
  <2>3. i = j
    BY <1>5, <2>1, <2>2
  <2>4. QED
    BY <2>1, <2>2, <2>3
<1>6. QED
  BY <1>2, <1>4, <1>5

(* Nothing is cached and no transaction is open.                            *)
LEMMA CacheInit == Init => CacheInv
  BY DEF Init, CacheInv, CompactionOnly, CachePrefix, ColdCache, NoEnvelope, Other, Compaction,
     NextStored

(* Whatever a read of the log finds, the cache it leaves is a prefix.       *)
LEMMA CacheRead ==
    ASSUME TypeOK, StoreContiguous, CacheInv, CachedSessionEvents
    PROVE  /\ -1 <= cache'.last /\ cache'.last < NextStored
           /\ ~overlapped /\ ~compacting /\ cache'.warm =>
                \/ cache'.log = Rows /\ cache'.last = NextStored - 1
                \/ cache' = cache
<1>1. /\ NextStored \in Nat
      /\ \A r \in Rows : r.seq \in Nat /\ r.seq < NextStored
  BY RowBySeq
<1>2. cache.last \in Int /\ -1 <= cache.last /\ cache.last < NextStored
  BY DEF TypeOK, CacheInv
<1>3. CASE cache' = FullLoad
  BY <1>1, <1>3 DEF FullLoad
<1>4. CASE cache.warm /\ cache' = TopUp
  <2>1. cache'.last = NextStored - 1 /\ cache'.log = cache.log \cup GetEvents(cache.last + 1)
    BY <1>1, <1>2, <1>4 DEF TopUp
  <2>2. ASSUME ~overlapped, ~compacting PROVE cache'.log = Rows
    <3>1. cache.log = {r \in Rows : r.seq <= cache.last}
      BY <1>4, <2>2 DEF CacheInv, CachePrefix
    <3>2. QED
      BY <1>1, <1>2, <2>1, <3>1 DEF GetEvents
  <2>3. QED
    BY <1>1, <2>1, <2>2
<1>5. CASE cache' = cache
  BY <1>2, <1>5
<1>6. QED
  BY <1>3, <1>4, <1>5 DEF CachedSessionEvents

(* A call entering the pipeline, or refused by the store, keeps the cache.  *)
LEMMA CacheUntouched ==
    ASSUME CacheInv, UNCHANGED <<store, overlapped, compacting, cache>>, NEW e \in Emitters,
           pc[e] \notin PersistedStages \/ pc'[e] \in PersistedStages,
           \A f \in Emitters \ {e} : pc'[f] = pc[f] /\ call'[f] = call[f],
           call'[e].type = Compaction => e = Actor /\ pc'[e] # "idle" /\ compacting
    PROVE  CacheInv'
<1>1. Rows' = Rows /\ NextStored' = NextStored
  BY DEF Rows, NextStored
<1>2. CompactionOnly'
  BY DEF CacheInv, CompactionOnly
<1>3. CachePrefix'
  <2>1. (\A f \in Emitters : pc'[f] \notin PersistedStages) =>
           \A f \in Emitters : pc[f] \notin PersistedStages
    OBVIOUS
  <2>2. QED
    BY <1>1, <2>1 DEF CacheInv, CachePrefix
<1>4. QED
  BY <1>1, <1>2, <1>3 DEF CacheInv

(* The cache of a serial session follows the log through every step.        *)
LEMMA CacheStep ==
    ASSUME TypeOK, DurableInv, FlightInv, CacheInv, [Next]_vars
    PROVE  CacheInv'
<1>c. StoreContiguous /\ store \in Seq(Envelope)
  BY DEF DurableInv, TypeOK
<1>n. /\ NextStored = Len(store) /\ NextStored \in Nat
      /\ \A r \in Rows : r.seq \in Nat /\ r.seq < NextStored
      /\ \A r, s \in Rows : r.seq = s.seq => r = s
  BY <1>c, RowBySeq
<1>l. /\ cache.last \in Int /\ -1 <= cache.last /\ cache.last < NextStored
      /\ CompactionOnly /\ CachePrefix
  BY DEF TypeOK, CacheInv
<1>p. "idle" \notin PersistedStages /\ "seq" \notin PersistedStages /\ "persist" \notin PersistedStages
  BY DEF PersistedStages
<1>t. NoEnvelope.type # Compaction
  BY DEF NoEnvelope, Other, Compaction
<1>1. ASSUME NEW e \in Emitters,
             EmitRaw(e) \/ \E type \in Boundaries \cup {Other} : EmitEvent(e, type)
      PROVE  CacheInv'
  BY <1>1, <1>p, CallBegins, CacheUntouched
<1>2. ASSUME NEW e \in Emitters, TakeSeq(e) PROVE CacheInv'
  <2>1. /\ \A f \in Emitters \ {e} : pc'[f] = pc[f] /\ call'[f] = call[f]
        /\ pc[e] = "seq" /\ pc'[e] = "persist" /\ call'[e].type = call[e].type
        /\ UNCHANGED <<store, compacting, cache>>
        /\ ~overlapped' => ~overlapped
    BY <1>2 DEF TakeSeq, TypeOK
  <2>2. Rows' = Rows /\ NextStored' = NextStored
    BY <2>1 DEF Rows, NextStored
  <2>3. CompactionOnly'
    BY <1>l, <2>1 DEF CompactionOnly
  <2>4. CachePrefix'
    BY <1>l, <1>p, <2>1, <2>2 DEF CachePrefix
  <2>5. QED
    BY <1>l, <2>1, <2>2, <2>3, <2>4 DEF CacheInv
<1>3. ASSUME NEW e \in Emitters, PersistFault(e) \/ (AppendBatch(e) /\ call[e].seq # NextStored)
      PROVE  CacheInv'
  BY <1>3, <1>p, <1>t, CallRefused, CacheUntouched
<1>4. ASSUME NEW e \in Emitters, AppendBatch(e), call[e].seq = NextStored PROVE CacheInv'
  <2>1. /\ UNCHANGED <<overlapped, compacting, cache>> /\ pc[e] = "persist" /\ pc'[e] = "load"
        /\ \A f \in Emitters : call'[f] = call[f]
        /\ \A f \in Emitters \ {e} : pc'[f] = pc[f]
        /\ Rows' = Rows \cup {call[e]} /\ NextStored' = NextStored + 1
    BY <1>c, <1>4, CallStored
  <2>2. CompactionOnly'
    BY <1>l, <2>1 DEF CompactionOnly
  <2>3. ASSUME ~overlapped, cache.warm, ~compacting
        PROVE  /\ cache.log = {r \in Rows' : r.seq <= cache.last}
               /\ cache.last = NextStored - 1
    <3>1. \A f \in Emitters : pc[f] \notin PersistedStages
      BY <2>1, <2>3 DEF FlightInv, OneInFlight, PersistedStages
    <3>2. cache.last = NextStored - 1 /\ cache.log = {r \in Rows : r.seq <= cache.last}
      BY <1>l, <2>3, <3>1 DEF CachePrefix
    <3>3. QED
      BY <1>4, <1>n, <2>1, <3>2
  <2>4. pc'[e] \in PersistedStages
    BY <2>1 DEF PersistedStages
  <2>5. CachePrefix'
    BY <1>n, <2>1, <2>3, <2>4 DEF CachePrefix
  <2>6. QED
    BY <1>l, <1>n, <2>1, <2>2, <2>5 DEF CacheInv
<1>5. ASSUME NEW e \in Emitters,
             \/ PushLoad(e) \/ PushSlot(e) \/ PushTail(e) \/ PushMeasure(e) \/ PushEvict(e)
             \/ AppendSegment(e) \/ FanOut(e)
      PROVE  CacheInv'
  <2>1. /\ UNCHANGED <<store, overlapped, compacting>> /\ pc[e] \in PersistedStages
        /\ \A f \in Emitters \ {e} : pc'[f] = pc[f] /\ call'[f] = call[f]
        /\ \/ pc'[e] \in PersistedStages /\ call'[e] = call[e]
           \/ pc'[e] = "idle" /\ call'[e] = NoEnvelope
    BY <1>5, LaterStages
  <2>2. cache' = cache
    BY <1>5 DEF PushLoad, PushSlot, PushTail, PushMeasure, PushEvict, AppendSegment, FanOut
  <2>3. CASE pc'[e] \in PersistedStages /\ call'[e] = call[e]
    BY <1>l, <1>p, <2>1, <2>2, <2>3, CacheUntouched DEF CompactionOnly
  <2>4. CASE pc'[e] = "idle" /\ call'[e] = NoEnvelope
    <3>1. FanOut(e) /\ call[e].type = Compaction
      BY <1>5, <2>4 DEF PushLoad, PushSlot, PushTail, PushMeasure, PushEvict, AppendSegment, FanOut,
         Goto, TypeOK
    <3>2. compacting'
      BY <1>l, <2>1, <3>1 DEF CompactionOnly
    <3>3. CompactionOnly'
      BY <1>l, <1>t, <2>1, <2>4 DEF CompactionOnly
    <3>4. QED
      BY <1>l, <2>1, <2>2, <3>2, <3>3 DEF CacheInv, CachePrefix, NextStored
  <2>5. QED
    BY <2>1, <2>3, <2>4
<1>6. ASSUME NEW e \in Emitters, CacheAppend(e) PROVE CacheInv'
  <2>1. /\ UNCHANGED <<store, overlapped, compacting>> /\ pc[e] = "cache"
        /\ \A f \in Emitters \ {e} : pc'[f] = pc[f] /\ call'[f] = call[f]
        /\ pc'[e] = "idle" /\ call'[e] = NoEnvelope
        /\ cache' = IF cache.warm /\ call[e].seq > cache.last
                    THEN [warm |-> TRUE, last |-> call[e].seq, log |-> cache.log \cup {call[e]}]
                    ELSE cache
    BY <1>6 DEF CacheAppend, Return, TypeOK
  <2>2. Rows' = Rows /\ NextStored' = NextStored
    BY <2>1 DEF Rows, NextStored
  <2>3. call[e] \in Rows
    BY <2>1 DEF DurableInv, InFlightDurable, PersistedStages
  <2>4. call[e].seq \in Nat /\ call[e].seq < NextStored
    BY <1>n, <2>3
  <2>5. CompactionOnly'
    BY <1>l, <1>t, <2>1 DEF CompactionOnly
  <2>6. ASSUME ~overlapped, cache.warm, ~compacting
        PROVE  /\ cache'.log = {r \in Rows : r.seq <= cache'.last}
               /\ cache'.last = NextStored - 1
    <3>1. call[e].seq = NextStored - 1
      BY <2>1, <2>6 DEF FlightInv, InFlightLast, PersistedStages
    <3>2. cache.log = {r \in Rows : r.seq <= cache.last} /\ cache.last >= NextStored - 2
      BY <1>l, <2>6 DEF CachePrefix
    <3>3. CASE call[e].seq > cache.last
      <4>1. cache'.last = NextStored - 1 /\ cache'.log = cache.log \cup {call[e]}
        BY <2>1, <2>6, <3>1, <3>3
      <4>2. cache.last = NextStored - 2
        BY <1>l, <1>n, <3>1, <3>2, <3>3
      <4>3. \A r \in Rows : r.seq <= NextStored - 1 /\ (r.seq <= NextStored - 2 \/ r = call[e])
        BY <1>n, <2>3, <3>1
      <4>4. QED
        BY <1>n, <2>3, <3>2, <4>1, <4>2, <4>3
    <3>4. CASE ~(call[e].seq > cache.last)
      BY <1>l, <1>n, <2>1, <3>1, <3>2, <3>4
    <3>5. QED
      BY <3>3, <3>4
  <2>7. CachePrefix'
    <3>1. cache'.warm => cache.warm
      BY <2>1
    <3>2. QED
      BY <1>n, <2>1, <2>2, <2>6, <3>1 DEF CachePrefix
  <2>8. -1 <= cache'.last /\ cache'.last < NextStored
    BY <1>l, <2>1, <2>4
  <2>9. QED
    BY <2>2, <2>5, <2>7, <2>8 DEF CacheInv
<1>7. ASSUME LoadSessionLog \/ CompactBegin PROVE CacheInv'
  <2>1. /\ CachedSessionEvents /\ pc[Actor] = "idle" /\ ~compacting
        /\ UNCHANGED <<pc, call, store, overlapped>>
    BY <1>7 DEF LoadSessionLog, CompactBegin
  <2>2. Rows' = Rows /\ NextStored' = NextStored
    BY <2>1 DEF Rows, NextStored
  <2>3. /\ -1 <= cache'.last /\ cache'.last < NextStored
        /\ ~overlapped /\ ~compacting /\ cache'.warm =>
              \/ cache'.log = Rows /\ cache'.last = NextStored - 1
              \/ cache' = cache
    BY <1>c, <2>1, CacheRead
  <2>4. CompactionOnly'
    BY <1>l, <2>1 DEF CompactionOnly
  <2>5. CachePrefix'
    <3>1. SUFFICES ASSUME ~overlapped, cache'.warm
                   PROVE  /\ cache'.log = {r \in Rows : r.seq <= cache'.last}
                          /\ (\A e \in Emitters : pc[e] \notin PersistedStages) =>
                                cache'.last = NextStored - 1
                          /\ cache'.last >= NextStored - 2
      BY <2>1, <2>2 DEF CachePrefix
    <3>2. CASE cache'.log = Rows /\ cache'.last = NextStored - 1
      BY <1>n, <3>2
    <3>3. CASE cache' = cache
      BY <1>l, <2>1, <3>1, <3>3 DEF CachePrefix
    <3>4. QED
      BY <2>1, <2>3, <3>1, <3>2, <3>3
  <2>6. QED
    BY <2>2, <2>3, <2>4, <2>5 DEF CacheInv
<1>8. ASSUME CompactEnd PROVE CacheInv'
  <2>1. /\ pc[Actor] = "idle" /\ UNCHANGED <<pc, call, store>> /\ cache' = ColdCache
    BY <1>8 DEF CompactEnd
  <2>2. CompactionOnly'
    BY <1>l, <2>1 DEF CompactionOnly
  <2>3. QED
    BY <1>n, <2>1, <2>2 DEF CacheInv, CachePrefix, ColdCache, NextStored
<1>9. ASSUME \/ UNCHANGED vars
             \/ \E s \in Subscribers : Subscribe(s) \/ Unsubscribe(s) \/ Receive(s)
      PROVE  CacheInv'
  <2>1. UNCHANGED <<pc, call, store, overlapped, compacting, cache>>
    BY <1>9 DEF vars, Subscribe, Unsubscribe, Receive
  <2>2. QED
    BY <1>l, <2>1 DEF CacheInv, CachePrefix, CompactionOnly, Rows, NextStored
<1>10. ASSUME NEW readOK \in BOOLEAN, Restart(readOK) PROVE CacheInv'
  <2>1. /\ store' = store /\ \A e \in Emitters : call'[e] = NoEnvelope
        /\ cache' = FullLoad \/ cache' = ColdCache
    BY <1>10 DEF Restart
  <2>2. Rows' = Rows /\ NextStored' = NextStored
    BY <2>1 DEF Rows, NextStored
  <2>3. CompactionOnly'
    BY <1>t, <2>1 DEF CompactionOnly
  <2>4. CASE cache' = FullLoad
    BY <1>n, <2>2, <2>3, <2>4 DEF CacheInv, CachePrefix, FullLoad
  <2>5. CASE cache' = ColdCache
    BY <1>n, <2>2, <2>3, <2>5 DEF CacheInv, CachePrefix, ColdCache
  <2>6. QED
    BY <2>1, <2>4, <2>5
<1>11. QED
  BY <1>1, <1>2, <1>3, <1>4, <1>5, <1>6, <1>7, <1>8, <1>9, <1>10, StepKinds

(* While the calls of a process never overlapped, the log cache the model   *)
(* requests are derived from is a hole-free prefix of the durable log,      *)
(* through every mix of cacheAppend, top-ups, failed reads, compactions and *)
(* reopenings.                                                              *)
THEOREM CacheIsLogPrefix == Spec => []CacheExact
<1>1. TypeOK /\ DurableInv /\ FlightInv /\ CacheInv /\ [Next]_vars => CacheInv'
  BY CacheStep
<1>2. Spec => []CacheInv
  BY <1>1, CacheInit, PipelineInv, PTL DEF Spec
<1>3. CacheInv => CacheExact
  BY DEF CacheInv, CachePrefix, CacheExact
<1>4. QED
  BY <1>2, <1>3, PTL

-----------------------------------------------------------------------------
(* The ring window of a serial session. *)

(* Two indices less than n apart fall into different slots of n.            *)
LEMMA MultipleBounds ==
    ASSUME NEW n \in Int, n >= 1, NEW d \in Int
    PROVE  (d >= 1 => n * d >= n) /\ (d <= 0 => n * d <= 0)
  OBVIOUS

(* Two numbers less than n apart fall into different slots of a ring of n.  *)
LEMMA ModDistinct ==
    ASSUME NEW n \in Nat \ {0}, NEW a \in Nat, NEW b \in Nat, a < b, b < a + n
    PROVE  a % n # b % n
<1>1. PICK q \in Int : a = n * q + (a % n)
  <2>1. a \div n \in Int /\ a = n * (a \div n) + (a % n)
    OBVIOUS
  <2>2. QED
    BY <2>1
<1>2. PICK p \in Int : b = n * p + (b % n)
  <2>1. b \div n \in Int /\ b = n * (b \div n) + (b % n)
    OBVIOUS
  <2>2. QED
    BY <2>1
<1>3. SUFFICES ASSUME a % n = b % n PROVE FALSE
  OBVIOUS
<1> DEFINE r == a % n
           x == n * q
           y == n * p
           d == p - q
<1>4. x \in Int /\ y \in Int /\ d \in Int /\ r \in Int /\ b % n = r
  BY <1>3
<1>5. y - x = n * d
  OBVIOUS
<1>6. a = x + r /\ b = y + r
  BY <1>1, <1>2, <1>4
<1> HIDE DEF x, y, d, r
<1>7. n * d > 0 /\ n * d < n
  BY <1>4, <1>5, <1>6
<1>8. QED
  BY <1>4, <1>7, MultipleBounds

(* The rows this process appended, the head a full window of n events has,  *)
(* and: the slots hold the latest of the first n events of this process.    *)
Pushed == Len(store) - base
Window(n) == IF n <= RingCap THEN 0 ELSE n - RingCap
Latest(n) ==
    \A i \in 0 .. n - 1 : i >= n - RingCap => ring.slots[i % RingCap] = store[base + i + 1]

(* The ring as a Push leaves it before the given stage of its call.         *)
RingAs(stage) ==
    /\ ring.tail = IF stage \in {"load", "slot", "tail"} THEN Pushed - 1 ELSE Pushed
    /\ ring.head = IF stage \in {"measure", "evict"} THEN Window(ring.tail - 1) ELSE Window(ring.tail)
    /\ Latest(IF stage = "tail" THEN ring.tail + 1 ELSE ring.tail)

RingInv ==
    /\ base <= Len(store)
    /\ ~overlapped =>
          /\ \A e \in Emitters : pc[e] \in PersistedStages => RingAs(pc[e])
          /\ (\A e \in Emitters : pc[e] \notin PersistedStages) => RingAs("idle")
          /\ \A e \in Emitters : pc[e] = "slot" => ring.read[e] = ring.tail
          /\ \A e \in Emitters : pc[e] = "evict" =>
                ring.tail > RingCap /\ ring.read[e] = ring.tail - RingCap

(* The ring and the log are empty.                                          *)
LEMMA RingInit == Init => RingInv
<1> SUFFICES ASSUME Init PROVE RingInv
  OBVIOUS
<1>1. /\ store = <<>> /\ base = 0 /\ \A e \in Emitters : pc[e] = "idle"
      /\ ring.tail = 0 /\ ring.head = 0
  BY DEF Init, EmptyRing
<1>2. Pushed = 0 /\ Window(0) = 0 /\ Latest(0)
  BY <1>1, CapAssumption DEF Pushed, Window, Latest
<1>3. RingAs("idle")
  BY <1>1, <1>2 DEF RingAs
<1>4. QED
  BY <1>1, <1>3 DEF RingInv, PersistedStages

(* The ring, the log and this process's share of it are what they were.     *)
LEMMA RingSame ==
    ASSUME UNCHANGED <<store, ring, base>>
    PROVE  \A stage : RingAs(stage)' = RingAs(stage)
  BY DEF RingAs, Pushed, Window, Latest

(* A call on its way to the store, or refused by it, keeps the window.      *)
LEMMA RingUntouched ==
    ASSUME RingInv, UNCHANGED <<store, ring, base>>, ~overlapped' => ~overlapped,
           NEW e \in Emitters, pc[e] \notin PersistedStages, pc'[e] \notin PersistedStages,
           \A f \in Emitters \ {e} : pc'[f] = pc[f]
    PROVE  RingInv'
<1>1. \A stage : RingAs(stage)' = RingAs(stage)
  BY RingSame
<1>2. base' <= Len(store')
  BY DEF RingInv
<1>3. SUFFICES ASSUME ~overlapped'
               PROVE  /\ \A f \in Emitters : pc'[f] \in PersistedStages => RingAs(pc[f])
                      /\ (\A f \in Emitters : pc'[f] \notin PersistedStages) => RingAs("idle")
                      /\ \A f \in Emitters : pc'[f] = "slot" => ring.read[f] = ring.tail
                      /\ \A f \in Emitters : pc'[f] = "evict" =>
                            ring.tail > RingCap /\ ring.read[f] = ring.tail - RingCap
  BY <1>1, <1>2 DEF RingInv
<1>4. QED
  BY <1>3 DEF RingInv, PersistedStages

(* The stages of one Push carry the window from one row to the next.        *)
LEMMA RingMoves ==
    ASSUME RingInv, FlightInv, UNCHANGED <<store, base, overlapped>>,
           NEW e \in Emitters, pc[e] \in PersistedStages,
           NEW stage \in PersistedStages \cup {"idle"}, pc'[e] = stage,
           \A f \in Emitters \ {e} : pc'[f] = pc[f],
           ~overlapped => /\ RingAs(stage)'
                          /\ stage = "slot" => ring'.read[e] = ring'.tail
                          /\ stage = "evict" =>
                                ring'.tail > RingCap /\ ring'.read[e] = ring'.tail - RingCap
    PROVE  RingInv'
<1>1. base' <= Len(store')
  BY DEF RingInv
<1>2. CASE overlapped
  BY <1>1, <1>2 DEF RingInv
<1>3. CASE ~overlapped
  <2>1. \A f \in Emitters \ {e} : pc'[f] \in {"idle", "seq"}
    BY <1>3 DEF FlightInv, OneInFlight, PersistedStages
  <2>2. \A f \in Emitters : pc'[f] \in PersistedStages => f = e
    BY <2>1 DEF PersistedStages
  <2>3. /\ \A f \in Emitters : pc'[f] \in PersistedStages => RingAs(pc[f])'
        /\ \A f \in Emitters : pc'[f] = "slot" => ring'.read[f] = ring'.tail
        /\ \A f \in Emitters : pc'[f] = "evict" =>
              ring'.tail > RingCap /\ ring'.read[f] = ring'.tail - RingCap
    BY <1>3, <2>2 DEF PersistedStages
  <2>4. (\A f \in Emitters : pc'[f] \notin PersistedStages) => RingAs("idle")'
    BY <1>3
  <2>5. QED
    BY <1>1, <2>3, <2>4 DEF RingInv
<1>4. QED
  BY <1>2, <1>3

(* The call that stores its envelope leaves one row for the ring to take.   *)
LEMMA RingStored ==
    ASSUME TypeOK, StoreContiguous, FlightInv, RingInv,
           NEW e \in Emitters, AppendBatch(e), call[e].seq = NextStored
    PROVE  RingInv'
<1>1. /\ UNCHANGED <<overlapped, base, ring>> /\ pc[e] = "persist" /\ pc'[e] = "load"
      /\ \A f \in Emitters \ {e} : pc'[f] = pc[f]
      /\ Len(store') = Len(store) + 1 /\ \A i \in 1 .. Len(store) : store'[i] = store[i]
  BY CallStored
<1>2. Len(store) \in Nat /\ base \in Nat /\ ring.tail \in Nat /\ RingCap \in Nat
  BY CapAssumption DEF TypeOK, Ring
<1>3. base' <= Len(store')
  BY <1>1, <1>2 DEF RingInv
<1>4. CASE overlapped
  BY <1>1, <1>3, <1>4 DEF RingInv
<1>5. CASE ~overlapped
  <2>1. \A f \in Emitters \ {e} : pc[f] \in {"idle", "seq"}
    BY <1>1, <1>5 DEF FlightInv, OneInFlight
  <2>2. RingAs("idle")
    BY <1>1, <1>5, <2>1 DEF RingInv, PersistedStages
  <2>3. /\ ring.tail = Len(store) - base
        /\ \A i \in 0 .. ring.tail - 1 : base + i + 1 \in 1 .. Len(store)
    BY <1>2, <2>2 DEF RingAs, Pushed
  <2>4. Latest(ring.tail)'
    <3>1. Latest(ring.tail)
      BY <2>2 DEF RingAs
    <3>2. QED
      BY <1>1, <2>3, <3>1 DEF Latest
  <2>5. RingAs("load")'
    BY <1>1, <1>2, <2>2, <2>3, <2>4 DEF RingAs, Pushed, Window
  <2>6. QED
    BY <1>1, <1>3, <2>1, <2>5 DEF RingInv, PersistedStages
<1>6. QED
  BY <1>4, <1>5

(* Storing the row of the call in its slot overwrites only the row the      *)
(* window is about to lose.                                                 *)
LEMMA RingWritten ==
    ASSUME TypeOK, DurableInv, FlightInv, RingInv, ~overlapped,
           NEW e \in Emitters, PushSlot(e)
    PROVE  RingAs("tail")'
<1>1. /\ UNCHANGED <<store, base>> /\ pc[e] = "slot"
      /\ ring' = [ring EXCEPT !.slots[ring.read[e] % RingCap] = call[e], !.read[e] = 0]
  BY DEF PushSlot, history
<1>2. /\ Len(store) \in Nat /\ base \in Nat /\ RingCap \in Nat \ {0} /\ ring.tail \in Nat
      /\ ring.slots \in [0 .. RingCap - 1 -> Envelope]
      /\ ring \in Ring
  BY CapAssumption DEF TypeOK, Ring
<1>3. RingAs("slot") /\ ring.read[e] = ring.tail
  BY <1>1 DEF RingInv, PersistedStages
<1>4. ring.tail = Len(store) - base - 1 /\ Latest(ring.tail) /\ ring.head = Window(ring.tail)
  BY <1>2, <1>3 DEF RingAs, Pushed
<1>5. /\ ring'.tail = ring.tail /\ ring'.head = ring.head
      /\ ring'.slots = [ring.slots EXCEPT ![ring.tail % RingCap] = call[e]]
  BY <1>1, <1>2, <1>3 DEF Ring
<1>6. call[e] = store[base + ring.tail + 1]
  <2>1. call[e] \in Rows /\ call[e].seq = NextStored - 1
    BY <1>1 DEF DurableInv, InFlightDurable, FlightInv, InFlightLast, PersistedStages
  <2>2. NextStored = Len(store) /\ \A r, s \in Rows : r.seq = s.seq => r = s
    BY RowBySeq DEF DurableInv
  <2>3. Len(store) >= 1 /\ store[Len(store)] \in Rows /\ store[Len(store)].seq = Len(store) - 1
    BY <1>2, <1>4 DEF Rows, Range, DurableInv, StoreContiguous, TypeOK
  <2>4. store[Len(store)] = call[e]
    BY <2>1, <2>2, <2>3
  <2>5. QED
    BY <1>2, <1>4, <2>4
<1>7. Latest(ring.tail + 1)'
  <2>1. SUFFICES ASSUME NEW i \in 0 .. ring.tail, i >= ring.tail + 1 - RingCap
                 PROVE  ring'.slots[i % RingCap] = store[base + i + 1]
    BY <1>1, <1>2, <1>5 DEF Latest
  <2>2. i % RingCap \in 0 .. RingCap - 1 /\ ring.tail % RingCap \in 0 .. RingCap - 1
    BY <1>2
  <2>3. CASE i = ring.tail
    BY <1>2, <1>5, <1>6, <2>2, <2>3
  <2>4. CASE i # ring.tail
    <3>1. /\ i \in Nat /\ i < ring.tail /\ ring.tail < i + RingCap
          /\ i \in 0 .. ring.tail - 1 /\ i >= ring.tail - RingCap
      BY <1>2, <2>1, <2>4
    <3>2. i % RingCap # ring.tail % RingCap
      BY <1>2, <3>1, ModDistinct
    <3>3. ring.slots[i % RingCap] = store[base + i + 1]
      BY <1>4, <3>1 DEF Latest
    <3>4. QED
      BY <1>2, <1>5, <2>2, <3>2, <3>3
  <2>5. QED
    BY <2>3, <2>4
<1>8. QED
  BY <1>1, <1>2, <1>4, <1>5, <1>7 DEF RingAs, Pushed, Window

(* Advancing the tail, measuring and evicting move the window by one row.   *)
LEMMA RingPushed ==
    ASSUME TypeOK, FlightInv, RingInv, NEW e \in Emitters,
           PushLoad(e) \/ PushTail(e) \/ PushMeasure(e) \/ PushEvict(e)
    PROVE  RingInv'
<1>1. /\ UNCHANGED <<store, base, overlapped>> /\ pc[e] \in PersistedStages
      /\ \A f \in Emitters \ {e} : pc'[f] = pc[f]
  BY LaterStages
<1>2. /\ Len(store) \in Nat /\ base \in Nat /\ RingCap \in Nat \ {0} /\ ring.tail \in Nat
      /\ ring.head \in Nat /\ ring \in Ring /\ ring.read \in [Emitters -> Nat]
  BY CapAssumption DEF TypeOK, Ring
<1>3. ~overlapped => /\ RingAs(pc[e])
                     /\ pc[e] = "evict" => ring.tail > RingCap /\ ring.read[e] = ring.tail - RingCap
  BY <1>1 DEF RingInv
<1>4. CASE PushLoad(e)
  <2>1. /\ pc[e] = "load" /\ pc'[e] = "slot"
        /\ ring' = [ring EXCEPT !.read[e] = ring.tail]
    BY <1>4 DEF PushLoad, Goto, TypeOK
  <2>2. ring'.tail = ring.tail /\ ring'.head = ring.head /\ ring'.slots = ring.slots
        /\ ring'.read[e] = ring.tail
    BY <1>2, <2>1 DEF Ring
  <2>3. ~overlapped => RingAs("slot")'
    BY <1>1, <1>3, <2>1, <2>2 DEF RingAs, Pushed, Window, Latest
  <2>4. QED
    BY <1>1, <2>1, <2>2, <2>3, RingMoves DEF PersistedStages
<1>5. CASE PushTail(e)
  <2>1. /\ pc[e] = "tail" /\ pc'[e] = "measure"
        /\ ring' = [ring EXCEPT !.tail = ring.tail + 1]
    BY <1>5 DEF PushTail, Goto, TypeOK
  <2>2. ring'.tail = ring.tail + 1 /\ ring'.head = ring.head /\ ring'.slots = ring.slots
    BY <1>2, <2>1 DEF Ring
  <2>3. ASSUME ~overlapped PROVE RingAs("measure")'
    <3>1. ring.tail = Pushed - 1 /\ ring.head = Window(ring.tail) /\ Latest(ring.tail + 1)
      BY <1>3, <2>1, <2>3 DEF RingAs
    <3>2. Pushed' = Pushed /\ Pushed \in Int
      BY <1>1, <1>2 DEF Pushed
    <3>3. ring'.tail = Pushed /\ ring'.tail - 1 = ring.tail
      BY <1>2, <2>2, <3>1, <3>2
    <3>4. ring'.head = Window(ring'.tail - 1)
      BY <2>2, <3>1, <3>3
    <3>5. Latest(ring.tail)'
      <4>1. PICK n \in Nat : n = ring.tail + 1
        BY <1>2
      <4>2. Latest(n) /\ ring'.tail = n
        BY <2>2, <3>1, <4>1
      <4>3. Latest(n)'
        BY <1>1, <2>2, <4>2 DEF Latest
      <4>4. QED
        BY <4>2, <4>3 DEF Latest
    <3>6. QED
      BY <1>2, <2>2, <3>2, <3>3, <3>4, <3>5 DEF RingAs, Window
  <2>4. QED
    BY <1>1, <2>1, <2>3, RingMoves DEF PersistedStages
<1>6. CASE PushMeasure(e)
  <2>1. pc[e] = "measure"
    BY <1>6 DEF PushMeasure
  <2>2. ~overlapped => ring.head = Window(ring.tail - 1) /\ ring.tail = Pushed /\ Latest(ring.tail)
    BY <1>3, <2>1 DEF RingAs
  <2>3. CASE ring.tail - ring.head > RingCap
    <3>1. pc'[e] = "evict" /\ ring' = [ring EXCEPT !.read[e] = ring.tail - RingCap]
      BY <1>6, <2>3 DEF PushMeasure, Goto, TypeOK
    <3>2. ring'.tail = ring.tail /\ ring'.head = ring.head /\ ring'.slots = ring.slots
          /\ ring'.read[e] = ring.tail - RingCap
      BY <1>2, <3>1 DEF Ring
    <3>3. ~overlapped => RingAs("evict")'
      BY <1>1, <2>2, <3>2 DEF RingAs, Pushed, Window, Latest
    <3>4. ring'.tail > RingCap
      BY <1>2, <2>3, <3>2
    <3>5. QED
      BY <1>1, <3>1, <3>2, <3>3, <3>4, RingMoves DEF PersistedStages
  <2>4. CASE ~(ring.tail - ring.head > RingCap)
    <3>1. pc'[e] = "segment" /\ ring' = ring
      BY <1>6, <2>4 DEF PushMeasure, Goto, TypeOK
    <3>2. ~overlapped => ring.head = Window(ring.tail)
      BY <1>2, <2>2, <2>4 DEF Window
    <3>3. ~overlapped => RingAs("segment")'
      BY <1>1, <2>2, <3>1, <3>2 DEF RingAs, Pushed, Window, Latest
    <3>4. QED
      BY <1>1, <3>1, <3>3, RingMoves DEF PersistedStages
  <2>5. QED
    BY <2>3, <2>4
<1>7. CASE PushEvict(e)
  <2>1. /\ pc[e] = "evict" /\ pc'[e] = "segment"
        /\ ring' = [ring EXCEPT !.head = ring.read[e], !.read[e] = 0]
    BY <1>7 DEF PushEvict, Goto, TypeOK
  <2>2. ring'.tail = ring.tail /\ ring'.head = ring.read[e] /\ ring'.slots = ring.slots
    BY <1>2, <2>1 DEF Ring
  <2>3. ~overlapped => RingAs("segment")'
    BY <1>1, <1>2, <1>3, <2>1, <2>2 DEF RingAs, Pushed, Window, Latest
  <2>4. QED
    BY <1>1, <2>1, <2>3, RingMoves DEF PersistedStages
<1>8. QED
  BY <1>4, <1>5, <1>6, <1>7

(* Every step of a serial session keeps the window exact.                   *)
LEMMA RingStep ==
    ASSUME TypeOK, DurableInv, FlightInv, RingInv, [Next]_vars
    PROVE  RingInv'
<1>c. StoreContiguous
  BY DEF DurableInv
<1>1. ASSUME NEW e \in Emitters,
             EmitRaw(e) \/ \E type \in Boundaries \cup {Other} : EmitEvent(e, type)
      PROVE  RingInv'
  BY <1>1, CallBegins, RingUntouched DEF PersistedStages
<1>2. ASSUME NEW e \in Emitters, TakeSeq(e) PROVE RingInv'
  <2>1. /\ \A f \in Emitters \ {e} : pc'[f] = pc[f]
        /\ pc[e] = "seq" /\ pc'[e] = "persist" /\ UNCHANGED <<store, ring, base>>
        /\ ~overlapped' => ~overlapped
    BY <1>2 DEF TakeSeq, TypeOK, history
  <2>2. QED
    BY <2>1, RingUntouched DEF PersistedStages
<1>3. ASSUME NEW e \in Emitters, PersistFault(e) \/ (AppendBatch(e) /\ call[e].seq # NextStored)
      PROVE  RingInv'
  BY <1>3, CallRefused, RingUntouched DEF PersistedStages
<1>4. ASSUME NEW e \in Emitters, AppendBatch(e), call[e].seq = NextStored PROVE RingInv'
  BY <1>c, <1>4, RingStored
<1>5. ASSUME NEW e \in Emitters, PushSlot(e) PROVE RingInv'
  <2>1. /\ UNCHANGED <<store, base, overlapped>> /\ pc[e] = "slot" /\ pc'[e] = "tail"
        /\ \A f \in Emitters \ {e} : pc'[f] = pc[f]
    BY <1>5, LaterStages DEF PushSlot, Goto, TypeOK
  <2>2. ~overlapped => RingAs("tail")'
    BY <1>5, RingWritten
  <2>3. QED
    BY <2>1, <2>2, RingMoves DEF PersistedStages
<1>6. ASSUME NEW e \in Emitters, PushLoad(e) \/ PushTail(e) \/ PushMeasure(e) \/ PushEvict(e)
      PROVE  RingInv'
  BY <1>6, RingPushed
<1>7. ASSUME NEW e \in Emitters, AppendSegment(e) \/ FanOut(e) \/ CacheAppend(e) PROVE RingInv'
  <2>1. /\ UNCHANGED <<store, base, overlapped>> /\ pc[e] \in PersistedStages
        /\ \A f \in Emitters \ {e} : pc'[f] = pc[f]
    BY <1>7, LaterStages
  <2>2. ring' = ring /\ pc[e] \in {"segment", "fanout", "cache"}
        /\ pc'[e] \in {"fanout", "cache", "idle"}
    BY <1>7 DEF AppendSegment, FanOut, CacheAppend, Goto, Return, TypeOK
  <2>3. PICK stage \in {"fanout", "cache", "idle"} : pc'[e] = stage
    BY <2>2
  <2>4. ~overlapped => RingAs(stage)'
    <3>1. ~overlapped => RingAs(pc[e])
      BY <2>1 DEF RingInv
    <3>2. RingAs(stage)' = RingAs(stage)
      BY <2>1, <2>2, RingSame
    <3>3. QED
      BY <2>2, <2>3, <3>1, <3>2 DEF RingAs
  <2>5. QED
    BY <2>1, <2>3, <2>4, RingMoves DEF PersistedStages
<1>8. ASSUME \/ LoadSessionLog \/ CompactBegin \/ CompactEnd \/ UNCHANGED vars
             \/ \E s \in Subscribers : Subscribe(s) \/ Unsubscribe(s) \/ Receive(s)
      PROVE  RingInv'
  <2>1. UNCHANGED <<pc, store, overlapped, base, ring>>
    BY <1>8, Bystanders
  <2>2. QED
    BY <2>1 DEF RingInv, RingAs, Pushed, Window, Latest
<1>9. ASSUME NEW readOK \in BOOLEAN, Restart(readOK) PROVE RingInv'
  <2>1. /\ base' = Len(store') /\ \A e \in Emitters : pc'[e] = "idle"
        /\ ring'.tail = 0 /\ ring'.head = 0 /\ Len(store') \in Nat
    BY <1>9 DEF Restart, EmptyRing, TypeOK
  <2>2. RingAs("idle")'
    BY <2>1, CapAssumption DEF RingAs, Pushed, Window, Latest
  <2>3. QED
    BY <2>1, <2>2 DEF RingInv, PersistedStages
<1>10. QED
  BY <1>1, <1>2, <1>3, <1>4, <1>5, <1>6, <1>7, <1>8, <1>9, StepKinds

(* While the calls of a process never overlapped, the ring's window is      *)
(* exactly the latest RingCap events of this process, in order: what        *)
(* RingBuffer.Push's single-writer protocol promises a reader.              *)
THEOREM RingIsLatestWindow == Spec => []RingExact
<1>1. TypeOK /\ DurableInv /\ FlightInv /\ RingInv /\ [Next]_vars => RingInv'
  BY RingStep
<1>2. Spec => []RingInv
  BY <1>1, RingInit, PipelineInv, PTL DEF Spec
<1>3. TypeOK /\ RingInv => RingExact
  <2>1. SUFFICES ASSUME TypeOK, RingInv, ~overlapped, NEW i \in ring.head .. ring.tail - 1,
                        \A e \in Emitters : pc[e] \notin {"tail", "measure", "evict"}
                 PROVE  /\ ring.slots[i % RingCap] = store[base + i + 1]
                        /\ ring.tail >= RingCap => ring.tail - ring.head = RingCap
    BY DEF RingExact
  <2>2. PICK stage : stage \notin {"tail", "measure", "evict"} /\ RingAs(stage)
    BY <2>1 DEF RingInv
  <2>3. ring.head = Window(ring.tail) /\ Latest(ring.tail)
    BY <2>2 DEF RingAs
  <2>4. ring.tail \in Nat /\ ring.head \in Nat /\ RingCap \in Nat \ {0}
    BY CapAssumption, <2>1 DEF TypeOK, Ring
  <2>5. QED
    BY <2>1, <2>3, <2>4 DEF Window, Latest
<1>4. QED
  BY <1>2, <1>3, PipelineInv, PTL
==============================================================================
