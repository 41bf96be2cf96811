---------------------------- MODULE Sessions_proofs ----------------------------
(***************************************************************************)
(* What sessions keep, for any constants: the team board folds, reminders  *)
(* are kept, children and workflows are accounted for, and compaction      *)
(* leaves no tool result without its call.                                 *)
(***************************************************************************)
EXTENDS Services, SequenceTheorems, FiniteSetTheorems, WellFoundedInduction, TLAPS

-----------------------------------------------------------------------------
(* Loops and sequences. *)

(* The loops of the code are recursive functions over 0 .. n, and their     *)
(* facts need induction: over the naturals, from the well-foundedness of < .*)
LEMMA SetInduction ==
    ASSUME NEW A \in SUBSET Nat, 0 \in A, \A n \in A : n + 1 \in A
    PROVE  A = Nat
<1> SUFFICES ASSUME Nat \ A # {} PROVE FALSE
  OBVIOUS
<1>1. PICK m \in Nat \ A : \A k \in Nat \ A : ~(<<k, m>> \in OpToRel(<, Nat))
  BY WFMin, NatLessThanWellFounded, Zenon
<1>2. \A k \in Nat \ A : ~(k < m)
  BY <1>1, Zenon DEF OpToRel
<1> HIDE DEF OpToRel
<1>3. m # 0 /\ m - 1 \in Nat
  BY <1>2
<1>4. m - 1 \in A
  BY <1>2, <1>3
<1>5. QED
  BY <1>3, <1>4

(* A loop of n rounds: it starts with base, and round i turns t into        *)
(* step[i][t].                                                              *)
IsLoop(F, base, step, n) ==
    /\ F = [i \in 0 .. n |-> F[i]]
    /\ F[0] = base /\ \A i \in 1 .. n : F[i] = step[i][F[i - 1]]

LEMMA LoopRuns ==
    ASSUME NEW T, NEW base \in T, NEW step \in [Nat -> [T -> T]]
    PROVE  \A n \in Nat : \E F : IsLoop(F, base, step, n) /\ \A i \in 0 .. n : F[i] \in T
<1> DEFINE A == {n \in Nat : \E F : IsLoop(F, base, step, n) /\ \A i \in 0 .. n : F[i] \in T}
<1>1. 0 \in A
  <2> DEFINE F == [i \in 0 .. 0 |-> base]
  <2>1. IsLoop(F, base, step, 0) /\ \A i \in 0 .. 0 : F[i] \in T
    BY DEF IsLoop
  <2>2. QED
    BY <2>1
<1>2. ASSUME NEW n \in A PROVE n + 1 \in A
  <2>1. PICK F : IsLoop(F, base, step, n) /\ \A i \in 0 .. n : F[i] \in T
    OBVIOUS
  <2> DEFINE last == step[n + 1][F[n]]
             G == [i \in 0 .. n + 1 |-> IF i = n + 1 THEN last ELSE F[i]]
  <2>2. n \in Nat /\ F[n] \in T /\ last \in T
    BY <2>1
  <2> HIDE DEF last
  <2>3. G[0] = base /\ \A i \in 0 .. n + 1 : G[i] \in T
    BY <2>1, <2>2 DEF IsLoop
  <2>4. ASSUME NEW i \in 1 .. n + 1 PROVE G[i] = step[i][G[i - 1]]
    <3>1. CASE i = n + 1
      BY <2>2, <3>1 DEF last
    <3>2. CASE i # n + 1
      <4>1. i \in 1 .. n /\ i - 1 \in 0 .. n + 1 /\ i - 1 # n + 1 /\ i \in 0 .. n + 1
        BY <2>2, <3>2
      <4>2. G[i] = F[i] /\ G[i - 1] = F[i - 1]
        BY <3>2, <4>1
      <4>3. QED
        BY <2>1, <4>1, <4>2 DEF IsLoop
    <3>3. QED
      BY <3>1, <3>2
  <2>5. G = [i \in 0 .. n + 1 |-> G[i]]
    OBVIOUS
  <2> HIDE DEF G
  <2>6. IsLoop(G, base, step, n + 1)
    <3>1. G[0] = base
      BY <2>3
    <3>2. QED
      BY <2>4, <2>5, <3>1, Zenon DEF IsLoop
  <2>7. QED
    BY <2>2, <2>3, <2>6
<1>3. A = Nat
  <2> HIDE DEF A
  <2>1. A \in SUBSET Nat
    BY DEF A
  <2>2. QED
    BY <1>1, <1>2, <2>1, SetInduction
<1>4. QED
  BY <1>3, Zenon

LEMMA NatMin ==
    ASSUME NEW S \in SUBSET Nat, S # {}
    PROVE  \E m \in S : \A k \in S : m <= k
<1>1. PICK m \in S : \A k \in S : ~(<<k, m>> \in OpToRel(<, Nat))
  BY WFMin, NatLessThanWellFounded, Zenon
<1>2. \A k \in S : ~(k < m)
  <2>1. SUFFICES ASSUME NEW k \in S, k < m PROVE FALSE
    OBVIOUS
  <2>2. k \in Nat /\ m \in Nat
    OBVIOUS
  <2>3. <<k, m>> \in OpToRel(<, Nat)
    BY <2>1, <2>2, Zenon DEF OpToRel
  <2>4. QED
    BY <1>1, <2>3, Zenon
<1>3. QED
  BY <1>2

(* A sequence is one over any set that has its elements.                    *)
LEMMA InSeq ==
    ASSUME NEW S, NEW T, NEW q \in Seq(S), \A i \in DOMAIN q : q[i] \in T
    PROVE  q \in Seq(T)
  OBVIOUS

LEMMA TailOf ==
    ASSUME NEW S, NEW q \in Seq(S), q # <<>>
    PROVE  /\ Tail(q) \in Seq(S) /\ Len(q) \in Nat \ {0} /\ Len(Tail(q)) = Len(q) - 1
           /\ DOMAIN q = 1 .. Len(q) /\ DOMAIN Tail(q) = 1 .. Len(q) - 1
           /\ \A i \in 1 .. Len(q) - 1 : Tail(q)[i] = q[i + 1] /\ i + 1 \in 1 .. Len(q)
           /\ Head(q) = q[1] /\ q[1] \in S /\ 1 \in DOMAIN q
OBVIOUS

LEMMA AppendOf ==
    ASSUME NEW S, NEW q \in Seq(S), NEW e \in S
    PROVE  /\ Append(q, e) \in Seq(S) /\ Len(q) \in Nat /\ Len(Append(q, e)) = Len(q) + 1
           /\ DOMAIN q = 1 .. Len(q) /\ DOMAIN Append(q, e) = 1 .. Len(q) + 1
           /\ \A i \in 1 .. Len(q) : Append(q, e)[i] = q[i]
           /\ Append(q, e)[Len(q) + 1] = e /\ Append(q, e) # <<>>
OBVIOUS

-----------------------------------------------------------------------------
(* TeamBoard: the fold of the log.                                          *)

TaskType ==
    [rev : Nat, status : {"pending", "in_progress", "completed", "deleted"}, owner : {0}, blockedBy : SUBSET Nat]

NoneWaitsFor(id) ==
    \A u \in DOMAIN board.tasks \ {id} : Team!Task(u).status # "deleted" => id \notin Team!Task(u).blockedBy

AgentType == [name : TeamNames, alive : BOOLEAN]

(* The log folds; task numbers and members are as the services handed them  *)
(* out; and a spawn between its two records finds the name free, then its   *)
(* own provisional record.                                                  *)
BoardInv ==
    /\ board.ok
    /\ board = [ok |-> board.ok, members |-> board.members, tasks |-> board.tasks, nextTaskID |-> board.nextTaskID]
    /\ board.nextTaskID \in Nat
    /\ \A id \in DOMAIN board.tasks : id \in Nat /\ id < board.nextTaskID /\ Team!Task(id) \in TaskType
    /\ \A id \in DOMAIN board.tasks : Team!Task(id).status # "deleted" =>
         \A b \in Team!Task(id).blockedBy : b \in DOMAIN board.tasks /\ Team!Task(b).status # "deleted"
    /\ child \in Seq(AgentType)
    /\ teamCall = [at |-> teamCall.at, name |-> teamCall.name, id |-> teamCall.id, rt |-> teamCall.rt]
    /\ DOMAIN board.members \subseteq 1 .. Len(child)
    /\ teamCall.at \in {"provision", "activate"} => teamCall.id \in 1 .. Len(child)
    /\ teamCall.at = "provision" =>
             /\ teamCall.id \notin DOMAIN board.members
             /\ \A m \in DOMAIN board.members : board.members[m].name # teamCall.name
    /\ teamCall.at = "activate" =>
             /\ teamCall.id \in DOMAIN board.members
             /\ board.members[teamCall.id] = [name |-> teamCall.name, phase |-> "provisioning"]
             /\ \A m \in DOMAIN board.members : board.members[m].name = teamCall.name => m = teamCall.id

(* An event of a task that the rules allow is folded in.                    *)
LEMMA TaskFolded ==
    ASSUME BoardInv, NEW id \in Nat, NEW t \in TaskType,
           IF id \in DOMAIN board.tasks THEN t.rev = Team!Task(id).rev + 1 ELSE t.rev = 1 /\ id = board.nextTaskID,
           Team!GraphValid(board.tasks, id, t), t.status = "deleted" => NoneWaitsFor(id),
           Team!Emit(Team!TaskEvent(id, t)), UNCHANGED <<child, teamCall>>
    PROVE  BoardInv'
<1> DEFINE e == Team!TaskEvent(id, t)
           tasks == Team!Put(board.tasks, id, t)
<1>1. e.type = "task" /\ e.id = id /\ e.task = t
  BY DEF Team!TaskEvent, Team!Event
<1>2. board.ok = TRUE /\ board' = Team!FoldOne(board, e)
  BY DEF BoardInv, Team!Emit
<1>3. board' = Team!ApplyTask(board, e)
  BY <1>1, <1>2 DEF Team!FoldOne
<1> HIDE DEF e
<1> DEFINE next == IF id >= board.nextTaskID THEN id + 1 ELSE board.nextTaskID
<1>4. board' = [board EXCEPT !.tasks = tasks, !.nextTaskID = next]
  BY <1>1, <1>3 DEF Team!ApplyTask, Team!Task
<1>5. /\ DOMAIN tasks = DOMAIN board.tasks \cup {id} /\ tasks[id] = t
      /\ \A x \in DOMAIN board.tasks : x # id => tasks[x] = board.tasks[x]
  BY DEF Team!Put
<1>6. next \in Nat /\ id < next /\ board.nextTaskID <= next
  BY DEF BoardInv
<1> HIDE DEF tasks, next
<1>7. /\ board'.ok
      /\ board' = [ok |-> board'.ok, members |-> board'.members, tasks |-> board'.tasks, nextTaskID |-> board'.nextTaskID]
      /\ board'.tasks = tasks /\ board'.nextTaskID = next /\ board'.members = board.members
  <2>1. board.ok
        /\ board = [ok |-> board.ok, members |-> board.members, tasks |-> board.tasks, nextTaskID |-> board.nextTaskID]
    BY DEF BoardInv
  <2> HIDE DEF BoardInv
  <2>2. QED
    BY <1>4, <2>1
<1>8. \A x \in DOMAIN board'.tasks : x \in Nat /\ x < board'.nextTaskID /\ board'.tasks[x] \in TaskType
  BY <1>5, <1>6, <1>7 DEF BoardInv, Team!Task
<1>9. ASSUME NEW x \in DOMAIN board'.tasks, board'.tasks[x].status # "deleted", NEW b \in board'.tasks[x].blockedBy
      PROVE  b \in DOMAIN board'.tasks /\ board'.tasks[b].status # "deleted"
  <2>1. CASE x = id
    <3>1. b \in DOMAIN board.tasks /\ board.tasks[b].status # "deleted" /\ b # id
      BY <1>5, <1>7, <1>9, <2>1 DEF Team!GraphValid
    <3>2. QED
      BY <1>5, <1>7, <3>1
  <2>2. CASE x # id
    <3>1. /\ x \in DOMAIN board.tasks /\ board'.tasks[x] = Team!Task(x)
      BY <1>5, <1>7, <2>2 DEF Team!Task
    <3>2. b \in DOMAIN board.tasks /\ Team!Task(b).status # "deleted"
      BY <1>9, <3>1 DEF BoardInv
    <3>3. CASE b = id
      BY <1>5, <1>7, <1>9, <2>2, <3>1, <3>3 DEF NoneWaitsFor
    <3>4. CASE b # id
      BY <1>5, <1>7, <3>2, <3>4 DEF Team!Task
    <3>5. QED
      BY <3>3, <3>4
  <2>3. QED
    BY <2>1, <2>2
<1>10. \A x \in DOMAIN board'.tasks : board'.tasks[x].status # "deleted" =>
        \A b \in board'.tasks[x].blockedBy : b \in DOMAIN board'.tasks /\ board'.tasks[b].status # "deleted"
  BY <1>9
<1>11. board'.nextTaskID \in Nat
  BY <1>6, <1>7
<1>12. QED
  BY <1>7, <1>8, <1>10, <1>11 DEF BoardInv, Team!Task

(* The revision is no part of the graph.                                    *)
LEMMA RevisionKeepsGraph ==
    ASSUME BoardInv, NEW id \in DOMAIN board.tasks, NEW t \in TaskType, Team!GraphValid(board.tasks, id, t)
    PROVE  Team!GraphValid(board.tasks, id, [t EXCEPT !.rev = @ + 1])
<1> DEFINE r == [t EXCEPT !.rev = @ + 1]
           all == Team!Put(board.tasks, id, t)
           new == Team!Put(board.tasks, id, r)
<1>1. r.blockedBy = t.blockedBy
  BY DEF TaskType
<1> HIDE DEF r
<1>2. Team!Blockers(all) = Team!Blockers(new) /\ DOMAIN all = DOMAIN new
  BY <1>1 DEF Team!Blockers, Team!Put
<1>3. QED
  BY <1>1, <1>2 DEF Team!GraphValid, r

LEMMA UpdateStep ==
    ASSUME BoardInv, NEW id \in DOMAIN board.tasks, NEW next \in TaskType, next.rev = Team!Task(id).rev,
           next.status = "deleted" => NoneWaitsFor(id), Team!Update(id, next)
    PROVE  BoardInv'
<1> DEFINE t == [next EXCEPT !.rev = @ + 1]
<1>1. t \in TaskType /\ t.rev = Team!Task(id).rev + 1 /\ t.status = next.status
  BY DEF TaskType
<1>2. Team!GraphValid(board.tasks, id, t) /\ Team!Emit(Team!TaskEvent(id, t)) /\ UNCHANGED <<child, teamCall>>
  BY RevisionKeepsGraph DEF Team!Update, Team!agents
<1>3. id \in Nat
  BY DEF BoardInv
<1> HIDE DEF t
<1>4. QED
  BY <1>1, <1>2, <1>3, TaskFolded

(* What the actions of team_task_update write.                              *)
LEMMA TaskTyped ==
    ASSUME BoardInv, NEW id \in DOMAIN board.tasks
    PROVE  /\ id \in Nat /\ Team!Task(id) \in TaskType
           /\ Team!Task(id).status = "deleted" => NoneWaitsFor(id)
<1>1. id \in Nat /\ Team!Task(id) \in TaskType
  BY DEF BoardInv
<1>2. Team!Task(id).status = "deleted" => NoneWaitsFor(id)
  BY DEF BoardInv, NoneWaitsFor
<1>3. QED
  BY <1>1, <1>2

LEMMA StatusStep ==
    ASSUME BoardInv, NEW id \in DOMAIN board.tasks, NEW s \in {"pending", "in_progress", "completed", "deleted"},
           s = "deleted" => NoneWaitsFor(id),
           \/ Team!Update(id, [Team!Task(id) EXCEPT !.status = s])
           \/ Team!Update(id, [Team!Task(id) EXCEPT !.status = s, !.owner = 0])
    PROVE  BoardInv'
<1>1. Team!Task(id) \in TaskType
  BY TaskTyped
<1>2. CASE Team!Update(id, [Team!Task(id) EXCEPT !.status = s])
  <2> DEFINE next == [Team!Task(id) EXCEPT !.status = s]
  <2>1. next \in TaskType /\ next.rev = Team!Task(id).rev /\ next.status = s
    BY <1>1 DEF TaskType
  <2>2. Team!Update(id, next)
    BY <1>2
  <2> HIDE DEF next
  <2>3. QED
    BY <2>1, <2>2, UpdateStep
<1>3. CASE Team!Update(id, [Team!Task(id) EXCEPT !.status = s, !.owner = 0])
  <2> DEFINE next == [Team!Task(id) EXCEPT !.status = s, !.owner = 0]
  <2>1. next \in TaskType /\ next.rev = Team!Task(id).rev /\ next.status = s
    BY <1>1 DEF TaskType
  <2>2. Team!Update(id, next)
    BY <1>3
  <2> HIDE DEF next
  <2>3. QED
    BY <2>1, <2>2, UpdateStep
<1>4. QED
  BY <1>2, <1>3

LEMMA TaskStep ==
    ASSUME BoardInv, NEW id \in DOMAIN board.tasks,
           \/ Team!Claim(id) \/ Team!Release(id) \/ Team!Edit(id) \/ Team!Complete(id) \/ Team!Reopen(id)
              \/ Team!Delete(id)
           \/ \E deps \in SUBSET (DOMAIN board.tasks) : Team!SetDependencies(id, deps)
           \/ \E s \in {"pending", "in_progress"} : Team!Reassign(id, s)
    PROVE  BoardInv'
<1>1. CASE Team!Claim(id)
  BY <1>1, StatusStep DEF Team!Claim
<1>2. CASE Team!Release(id)
  BY <1>2, StatusStep DEF Team!Release
<1>3. CASE Team!Edit(id)
  BY <1>3, UpdateStep, TaskTyped DEF Team!Edit
<1>4. CASE Team!Complete(id)
  BY <1>4, StatusStep DEF Team!Complete
<1>5. CASE Team!Reopen(id)
  BY <1>5, StatusStep DEF Team!Reopen
<1>6. CASE Team!Delete(id)
  BY <1>6, StatusStep DEF Team!Delete, NoneWaitsFor
<1>7. ASSUME NEW deps \in SUBSET (DOMAIN board.tasks), Team!SetDependencies(id, deps)
      PROVE  BoardInv'
  <2> DEFINE next == [Team!Task(id) EXCEPT !.blockedBy = deps]
  <2>1. deps \in SUBSET Nat
    BY DEF BoardInv
  <2>2. next \in TaskType /\ next.rev = Team!Task(id).rev /\ next.status = Team!Task(id).status
    BY <2>1, TaskTyped DEF TaskType
  <2>3. Team!Update(id, next)
    BY <1>7 DEF Team!SetDependencies
  <2> HIDE DEF next
  <2>4. QED
    BY <2>2, <2>3, UpdateStep, TaskTyped
<1>8. ASSUME NEW s \in {"pending", "in_progress"}, Team!Reassign(id, s)
      PROVE  BoardInv'
  BY <1>8, StatusStep DEF Team!Reassign
<1>9. QED
  BY <1>1, <1>2, <1>3, <1>4, <1>5, <1>6, <1>7, <1>8

LEMMA TaskCreateStep ==
    ASSUME BoardInv, NEW deps \in SUBSET (DOMAIN board.tasks), Team!TaskCreate(deps)
    PROVE  BoardInv'
<1> DEFINE id == board.nextTaskID
           t == [rev |-> 1, status |-> "pending", owner |-> 0, blockedBy |-> deps]
<1>1. id \in Nat /\ id \notin DOMAIN board.tasks /\ deps \in SUBSET Nat
  BY DEF BoardInv
<1>2. t \in TaskType /\ t.rev = 1 /\ t.status = "pending"
  BY <1>1 DEF TaskType
<1>3. Team!GraphValid(board.tasks, id, t) /\ Team!Emit(Team!TaskEvent(id, t)) /\ UNCHANGED <<child, teamCall>>
  BY DEF Team!TaskCreate, Team!agents
<1> HIDE DEF t
<1>4. QED
  BY <1>1, <1>2, <1>3, TaskFolded

(* The two records of a spawn.                                              *)
LEMMA MemberFolded ==
    ASSUME BoardInv, NEW phase, teamCall.at \in {"provision", "activate"},
           phase = IF teamCall.at = "provision" THEN "provisioning" ELSE "active",
           Team!Emit(Team!MemberEvent(teamCall.id, teamCall.name, phase))
    PROVE  /\ board' = [board EXCEPT !.members = Team!Put(board.members, teamCall.id, [name |-> teamCall.name, phase |-> phase])]
<1> DEFINE e == Team!MemberEvent(teamCall.id, teamCall.name, phase)
<1>1. e.type = "member" /\ e.id = teamCall.id /\ e.name = teamCall.name /\ e.phase = phase
  BY DEF Team!MemberEvent, Team!Event
<1>2. board.ok = TRUE /\ board' = Team!FoldOne(board, e)
  BY DEF BoardInv, Team!Emit
<1> HIDE DEF e
<1>3. board' = Team!ApplyMember(board, e)
  BY <1>1, <1>2 DEF Team!FoldOne
<1>4. ~ \E m \in DOMAIN board.members : board.members[m].name = e.name /\ m # e.id
  BY <1>1 DEF BoardInv
<1>5. IF e.id \in DOMAIN board.members
      THEN board.members[e.id].name = e.name /\ board.members[e.id].phase = "provisioning"
      /\ e.phase # "provisioning"
      ELSE e.phase = "provisioning"
  BY <1>1 DEF BoardInv
<1>6. QED
  BY <1>1, <1>3, <1>4, <1>5 DEF Team!ApplyMember

LEMMA MemberStep ==
    ASSUME BoardInv, Team!Provision \/ Team!Activate
    PROVE  BoardInv'
<1> DEFINE phase == IF teamCall.at = "provision" THEN "provisioning" ELSE "active"
           member == [name |-> teamCall.name, phase |-> phase]
           members == Team!Put(board.members, teamCall.id, member)
<1>1. teamCall.at \in {"provision", "activate"}
      /\ Team!Emit(Team!MemberEvent(teamCall.id, teamCall.name, phase)) /\ child' = child
  BY DEF Team!Provision, Team!Activate, Team!agents
<1>2. board' = [board EXCEPT !.members = members]
  BY <1>1, MemberFolded
<1>3. /\ DOMAIN members = DOMAIN board.members \cup {teamCall.id} /\ members[teamCall.id] = member
      /\ \A m \in DOMAIN board.members : m # teamCall.id => members[m] = board.members[m]
  BY DEF Team!Put
<1>4. teamCall.at = "provision" => member = [name |-> teamCall.name, phase |-> "provisioning"]
  OBVIOUS
<1> HIDE DEF members, member, phase
<1>5. /\ board'.ok
      /\ board' = [ok |-> board'.ok, members |-> board'.members, tasks |-> board'.tasks, nextTaskID |-> board'.nextTaskID]
      /\ board'.members = members /\ board'.tasks = board.tasks /\ board'.nextTaskID = board.nextTaskID
  <2>1. board.ok
        /\ board = [ok |-> board.ok, members |-> board.members, tasks |-> board.tasks, nextTaskID |-> board.nextTaskID]
    BY DEF BoardInv
  <2>2. QED
    BY <1>2, <2>1
<1>6. /\ teamCall'.at = IF teamCall.at = "provision" THEN "activate" ELSE "register"
      /\ teamCall.at = "provision" => teamCall'.id = teamCall.id /\ teamCall'.name = teamCall.name
      /\ teamCall' = [at |-> teamCall'.at, name |-> teamCall'.name, id |-> teamCall'.id, rt |-> teamCall'.rt]
  <2>1. teamCall = [at |-> teamCall.at, name |-> teamCall.name, id |-> teamCall.id, rt |-> teamCall.rt]
    BY DEF BoardInv
  <2>2. CASE Team!Provision
    BY <2>1, <2>2 DEF Team!Provision
  <2>3. CASE Team!Activate
    BY <2>1, <2>3 DEF Team!Activate
  <2>4. QED
    BY <2>2, <2>3
<1>7. DOMAIN board'.members \subseteq 1 .. Len(child)
  BY <1>1, <1>3, <1>5 DEF BoardInv
<1>8. teamCall'.at = "activate" =>
             /\ teamCall'.id \in DOMAIN board'.members
             /\ board'.members[teamCall'.id] = [name |-> teamCall'.name, phase |-> "provisioning"]
             /\ \A m \in DOMAIN board'.members : board'.members[m].name = teamCall'.name => m = teamCall'.id
  <2> SUFFICES ASSUME teamCall'.at = "activate"
               PROVE  /\ teamCall'.id \in DOMAIN board'.members
                      /\ board'.members[teamCall'.id] = [name |-> teamCall'.name, phase |-> "provisioning"]
                      /\ \A m \in DOMAIN board'.members : board'.members[m].name = teamCall'.name
                         => m = teamCall'.id
    OBVIOUS
  <2>1. teamCall.at = "provision" /\ teamCall'.id = teamCall.id /\ teamCall'.name = teamCall.name
    BY <1>1, <1>6
  <2>2. \A m \in DOMAIN board.members : m # teamCall.id /\ board.members[m].name # teamCall.name
    BY <2>1 DEF BoardInv
  <2>3. QED
    BY <1>3, <1>4, <1>5, <2>1, <2>2
<1>9. QED
  BY <1>1, <1>5, <1>6, <1>7, <1>8 DEF BoardInv, Team!Task

LEMMA OthersStep ==
    ASSUME BoardInv, board' = board \/ board' = Team!EmptyFold, Len(child') \in Nat, Len(child) <= Len(child'),
           child' \in Seq(AgentType),
           teamCall' \in {teamCall, Team!NoCall, [Team!NoCall EXCEPT !.at = "wait"]},
           \/ teamCall'.at \notin {"provision", "activate"}
           \/ board' = board /\ teamCall' = teamCall
    PROVE  BoardInv'
<1>0. Len(child) \in Nat /\ 1 .. Len(child) \subseteq 1 .. Len(child')
  <2>1. Len(child) \in Nat
    BY DEF BoardInv
  <2>2. QED
    BY <2>1
<1>a. teamCall' = [at |-> teamCall'.at, name |-> teamCall'.name, id |-> teamCall'.id, rt |-> teamCall'.rt]
  BY DEF BoardInv, Team!NoCall
<1>1. CASE board' = board
  BY <1>0, <1>a, <1>1 DEF BoardInv, Team!Task
<1>2. CASE board' = Team!EmptyFold /\ board' # board
  <2>1. /\ board'.ok
        /\ board' = [ok |-> board'.ok, members |-> board'.members, tasks |-> board'.tasks, nextTaskID |-> board'.nextTaskID]
        /\ DOMAIN board'.members = {} /\ DOMAIN board'.tasks = {} /\ board'.nextTaskID = 1
    BY <1>2 DEF Team!EmptyFold
  <2>2. QED
    BY <1>a, <1>2, <2>1 DEF BoardInv, Team!Task
<1>3. QED
  BY <1>1, <1>2

LEMMA TeamSpawnStep ==
    ASSUME BoardInv, NEW name \in TeamNames, Team!SpawnTeammate(name)
    PROVE  BoardInv'
<1> DEFINE a == [name |-> name, alive |-> TRUE]
<1>1. a \in AgentType
  BY DEF AgentType
<1> HIDE DEF a
<1>2. child \in Seq(AgentType) /\ child' = Append(child, a)
  BY DEF BoardInv, Team!SpawnTeammate, a
<1>3. child' \in Seq(AgentType) /\ Len(child) \in Nat /\ Len(child') = Len(child) + 1
  BY <1>1, <1>2
<1>4. /\ board' = board
         /\ teamCall' = [at |-> teamCall'.at, name |-> teamCall'.name, id |-> teamCall'.id, rt |-> teamCall'.rt]
      /\ teamCall'.at = "provision" /\ teamCall'.name = name /\ teamCall'.id = Len(child) + 1
      /\ \A m \in DOMAIN board.members : board.members[m].name # name
  BY DEF Team!SpawnTeammate
<1>5. teamCall'.id \in 1 .. Len(child') /\ teamCall'.id \notin 1 .. Len(child)
      /\ 1 .. Len(child) \subseteq 1 .. Len(child')
  BY <1>3, <1>4
<1> HIDE DEF Team!SpawnTeammate
<1>6. QED
  BY <1>3, <1>4, <1>5 DEF BoardInv, Team!Task

LEMMA Stopped ==
    ASSUME BoardInv, NEW S,
           child' = [c \in DOMAIN child |-> IF c \in S THEN [child[c] EXCEPT !.alive = FALSE] ELSE child[c]]
    PROVE  child' \in Seq(AgentType) /\ Len(child') = Len(child) /\ Len(child) \in Nat
<1>1. child \in Seq(AgentType) /\ Len(child) \in Nat /\ DOMAIN child = 1 .. Len(child)
      /\ \A c \in 1 .. Len(child) : child[c] \in AgentType
  BY DEF BoardInv
<1>2. \A c \in 1 .. Len(child) : [child[c] EXCEPT !.alive = FALSE] \in AgentType
  BY <1>1 DEF AgentType
<1>3. child' \in [1 .. Len(child) -> AgentType]
  BY <1>1, <1>2
<1>4. child' \in Seq(AgentType) /\ DOMAIN child' = 1 .. Len(child)
  BY <1>1, <1>3
<1>5. Len(child') = Len(child)
  BY <1>1, <1>4
<1>6. QED
  BY <1>1, <1>4, <1>5

LEMMA BoardInductive ==
    ASSUME BoardInv, [Team!Next]_Team!vars
    PROVE  BoardInv'
<1>0. child \in Seq(AgentType) /\ Len(child) \in Nat
  BY DEF BoardInv
<1>1. ASSUME NEW n \in TeamNames, Team!SpawnTeammate(n) PROVE BoardInv'
  BY <1>1, TeamSpawnStep
<1>2. CASE Team!Provision \/ Team!Activate
  BY <1>2, MemberStep
<1>3. CASE Team!RegisterHandle
  <2>1. board' = board /\ child' = child /\ teamCall'.at = "none" /\ teamCall' = Team!NoCall
    BY <1>3 DEF Team!RegisterHandle, Team!NoCall
  <2>2. QED
    BY <1>0, <2>1, OthersStep
<1>4. ASSUME NEW deps \in SUBSET (DOMAIN board.tasks), Team!TaskCreate(deps) PROVE BoardInv'
  BY <1>4, TaskCreateStep
<1>5. ASSUME NEW id \in DOMAIN board.tasks,
             \/ Team!Claim(id) \/ Team!Release(id) \/ Team!Edit(id) \/ Team!Complete(id) \/ Team!Reopen(id)
                \/ Team!Delete(id)
             \/ \E deps \in SUBSET (DOMAIN board.tasks) : Team!SetDependencies(id, deps)
             \/ \E s \in {"pending", "in_progress"} : Team!Reassign(id, s)
      PROVE  BoardInv'
  BY <1>5, TaskStep
<1>6. CASE Team!MessageSend
  <2>1. board.ok = TRUE /\ board' = Team!FoldOne(board, Team!Event("queued", 0))
    BY <1>6 DEF Team!MessageSend, Team!Emit, BoardInv
  <2>2. board' = board
    BY <2>1 DEF Team!FoldOne, Team!Event
  <2>3. QED
    BY <1>0, <1>6, <2>2, OthersStep DEF Team!MessageSend, Team!agents
<1>7. CASE Team!Wait
  <2>1. board' = board /\ child' = child /\ teamCall'.at = "wait" /\ teamCall' = [Team!NoCall EXCEPT !.at = "wait"]
    BY <1>7 DEF Team!Wait, Team!NoCall, Team!agents
  <2>2. QED
    BY <1>0, <2>1, OthersStep
<1>8. CASE Team!WaitReturns
  <2>1. board' = board /\ child' = child /\ teamCall'.at = "none" /\ teamCall' = Team!NoCall
    BY <1>8 DEF Team!WaitReturns, Team!NoCall, Team!agents
  <2>2. QED
    BY <1>0, <2>1, OthersStep
<1>9. CASE Team!StopLead
  <2>1. child' \in Seq(AgentType) /\ Len(child') = Len(child)
    BY <1>9, Stopped DEF Team!StopLead
  <2>2. board' = board /\ teamCall' = teamCall
    BY <1>9 DEF Team!StopLead
  <2>3. QED
    BY <1>0, <2>1, <2>2, OthersStep
<1>10. CASE Team!StartLead
  BY <1>0, <1>10, OthersStep DEF Team!StartLead
<1>11. CASE Team!Crash
  <2>1. child' = [c \in DOMAIN child |-> IF c \in DOMAIN child THEN [child[c] EXCEPT !.alive = FALSE] ELSE child[c]]
    BY <1>11 DEF Team!Crash
  <2>2. child' \in Seq(AgentType) /\ Len(child') = Len(child)
    BY <2>1, Stopped
  <2>3. board' = board /\ teamCall'.at = "none" /\ teamCall' = Team!NoCall
    BY <1>11 DEF Team!Crash, Team!NoCall
  <2>4. QED
    BY <1>0, <2>2, <2>3, OthersStep
<1>12. CASE Team!Fork
  <2>1. board' = Team!EmptyFold /\ teamCall'.at = "none" /\ child' = child /\ teamCall' = teamCall
    BY <1>12 DEF Team!Fork, Team!FoldInherited, Team!NoCall
  <2>2. QED
    BY <1>0, <2>1, OthersStep
<1>13. CASE UNCHANGED Team!vars
  BY <1>0, <1>13, OthersStep DEF Team!vars
<1>14. QED
  BY <1>1, <1>2, <1>3, <1>4, <1>5, <1>6, <1>7, <1>8, <1>9, <1>10, <1>11, <1>12, <1>13 DEF Team!Next

LEMMA BoardInitially == ASSUME Team!Init PROVE BoardInv
<1>1. /\ board.ok
    /\ board = [ok |-> board.ok, members |-> board.members, tasks |-> board.tasks, nextTaskID |-> board.nextTaskID]
      /\ DOMAIN board.members = {} /\ DOMAIN board.tasks = {} /\ board.nextTaskID = 1
  BY DEF Team!Init, Team!EmptyFold
<1>2. child \in Seq(AgentType)
  BY DEF Team!Init
<1>3. teamCall.at = "none"
      /\ teamCall = [at |-> teamCall.at, name |-> teamCall.name, id |-> teamCall.id, rt |-> teamCall.rt]
  BY DEF Team!Init, Team!NoCall
<1>4. QED
  BY <1>1, <1>2, <1>3 DEF BoardInv

(* The fold of team events (applyTeamMember, applyTeamTask) never fails on  *)
(* what the team tools, a crash between two events or a fork left in the    *)
(* log, and no live task waits for a deleted one, however many there are.   *)
THEOREM BoardAlwaysFolds == Team!Spec => []BoardFolds
<1>1. Team!Init => BoardInv
  BY BoardInitially
<1>2. BoardInv /\ [Team!Next]_Team!vars => BoardInv'
  BY BoardInductive
<1>3. BoardInv => Team!BoardFolds
  <2>1. BoardInv => board.ok = TRUE
    BY DEF BoardInv
  <2>2. QED
    BY <2>1 DEF BoardInv, Team!BoardFolds
<1>4. QED
  BY <1>1, <1>2, <1>3, PTL DEF Team!Spec, BoardFolds

-----------------------------------------------------------------------------
(* Schedules: reminders.                                                    *)

ReminderType == [at : Nat, every : Nat]

(* What the dispatcher decided on is in the log, or deleted, while it       *)
(* posts; once posted it may be logged; and what was accepted lies before   *)
(* the next occurrence.                                                     *)
RemindersInv ==
    /\ now \in Nat /\ disp.accepted \in Nat
    /\ schedule.seen \subseteq 1 .. MaxSchedules
    /\ DOMAIN schedule.active \subseteq schedule.seen
    /\ \A id \in DOMAIN schedule.active : schedule.active[id] \in ReminderType
    /\ schedule = [ok |-> schedule.ok, active |-> schedule.active, seen |-> schedule.seen]
    /\ accepted \in [1 .. MaxSchedules -> Nat]
    /\ disp = [at |-> disp.at, wake |-> disp.wake, due |-> disp.due, accepted |-> disp.accepted]
    /\ \A id \in 1 .. MaxSchedules : accepted[id] # 0 => id \in schedule.seen
    /\ \A id \in schedule.seen : id \in DOMAIN schedule.active \/ id \in deleted \/ id \in posted
    /\ \A id \in DOMAIN schedule.active : accepted[id] # 0 => schedule.active[id].at > accepted[id]
    /\ disp.at \in {"post", "emit"} =>
         /\ disp.due \subseteq schedule.seen
         /\ \A id \in disp.due : id \in DOMAIN schedule.active => schedule.active[id].at <= disp.accepted
    /\ disp.at = "emit" => disp.due \subseteq posted
    /\ disp.at \notin {"post", "emit"} => disp.due = {}

LEMMA PastAcceptance ==
    ASSUME NEW anchor \in Nat, NEW every \in Nat \ {0}, NEW at \in Nat, anchor <= at
    PROVE  Reminders!NextOccurrence(anchor, every, at) \in Nat /\ Reminders!NextOccurrence(anchor, every, at) > at
<1> DEFINE d == at - anchor
<1>1. d \in Nat /\ at = anchor + d
  OBVIOUS
<1> HIDE DEF d
<1>2. (d \div every) * every + every > d /\ d \div every \in Nat
  BY <1>1
<1>3. (d \div every) * every \in Nat
  BY <1>2
<1>4. Reminders!NextOccurrence(anchor, every, at) = anchor + (d \div every) * every + every
  BY DEF Reminders!NextOccurrence, d
<1>5. QED
  BY <1>1, <1>2, <1>3, <1>4

(* The earliest one-shot exists, so what is decided is due.                 *)
LEMMA DecisionDue ==
    ASSUME RemindersInv, NEW due \in Reminders!Decision
    PROVE  due \subseteq Reminders!Due
<1>1. \A id \in DOMAIN schedule.active : schedule.active[id].at \in Nat /\ id \in Nat
  BY SchedulesAssumption DEF RemindersInv, ReminderType
<1>2. CASE Reminders!DueOnce # {}
  <2> DEFINE First(id) == \A o \in Reminders!DueOnce : \/ schedule.active[id].at < schedule.active[o].at
                                                       \/ schedule.active[id].at = schedule.active[o].at /\ id <= o
             times == {schedule.active[id].at : id \in Reminders!DueOnce}
  <2>1. times \in SUBSET Nat /\ times # {} /\ Reminders!DueOnce \subseteq DOMAIN schedule.active
    BY <1>1, <1>2 DEF Reminders!DueOnce, Reminders!Due
  <2>2. PICK t \in times : \A k \in times : t <= k
    <3> HIDE DEF times
    <3>1. QED
      BY <2>1, NatMin
  <2> DEFINE ids == {id \in Reminders!DueOnce : schedule.active[id].at = t}
  <2>3. ids \in SUBSET Nat /\ ids # {}
    BY <1>1, <2>1, <2>2
  <2>4. PICK id \in ids : \A k \in ids : id <= k
    <3> HIDE DEF ids
    <3>1. QED
      BY <2>3, NatMin
  <2>5. First(id)
    <3> SUFFICES ASSUME NEW o \in Reminders!DueOnce
                 PROVE  \/ schedule.active[id].at < schedule.active[o].at
                        \/ schedule.active[id].at = schedule.active[o].at /\ id <= o
      OBVIOUS
    <3>1. t <= schedule.active[o].at /\ schedule.active[id].at = t /\ schedule.active[o].at \in Nat /\ t \in Nat
      BY <1>1, <2>1, <2>2
    <3>2. QED
      BY <2>4, <3>1
  <2>6. due = {CHOOSE i \in Reminders!DueOnce : First(i)}
    BY <1>2 DEF Reminders!Decision
  <2> HIDE DEF First
  <2>7. (CHOOSE i \in Reminders!DueOnce : First(i)) \in Reminders!DueOnce
    BY <2>5, Zenon
  <2>8. QED
    BY <2>6, <2>7 DEF Reminders!DueOnce
<1>3. CASE Reminders!DueOnce = {}
  BY <1>3 DEF Reminders!Decision
<1>4. QED
  BY <1>2, <1>3

LEMMA CreateStep ==
    ASSUME RemindersInv, NEW delay \in Nat, NEW every \in Nat, Reminders!Create(delay, every)
    PROVE  RemindersInv'
<1> DEFINE id == Reminders!AllocateID
           rec == [at |-> now + delay, every |-> every]
           active == [x \in DOMAIN schedule.active \cup {id} |-> IF x = id THEN rec ELSE schedule.active[x]]
<1>1. schedule' = Reminders!FoldCreate(schedule, id, rec) /\ UNCHANGED <<now, deleting, disp, Reminders!history,
      faults, Reminders!tasks>>
      /\ id <= MaxSchedules
  BY DEF Reminders!Create
<1>2. id \in 1 .. MaxSchedules
  <2>1. schedule.seen \subseteq 1 .. MaxSchedules /\ MaxSchedules \in Nat
    BY SchedulesAssumption DEF RemindersInv
  <2>2. Cardinality(schedule.seen) \in Nat
    <3>1. IsFiniteSet(1 .. MaxSchedules)
      BY <2>1, FS_Interval
    <3>2. IsFiniteSet(schedule.seen)
      BY <2>1, <3>1, FS_Subset
    <3>3. QED
      BY <3>2, FS_CardinalityType
  <2>3. Reminders!Cardinality(schedule.seen) = Cardinality(schedule.seen)
    BY DEF Reminders!Cardinality, Cardinality
  <2>4. QED
    BY <1>1, <2>1, <2>2, <2>3 DEF Reminders!AllocateID
<1>3. rec \in ReminderType
  BY DEF ReminderType, RemindersInv
<1> HIDE DEF id, rec
<1>4. CASE id \in schedule.seen
  <2>1. schedule' = [schedule EXCEPT !.ok = FALSE]
    BY <1>1, <1>4 DEF Reminders!FoldCreate
  <2>2. schedule'.active = schedule.active /\ schedule'.seen = schedule.seen
        /\ schedule' = [ok |-> schedule'.ok, active |-> schedule'.active, seen |-> schedule'.seen]
    BY <2>1 DEF RemindersInv
  <2>3. QED
    BY <1>1, <2>2 DEF RemindersInv, Reminders!history
<1>5. CASE id \notin schedule.seen
  <2>1. schedule' = [schedule EXCEPT !.seen = schedule.seen \cup {id}, !.active = active]
    BY <1>1, <1>5 DEF Reminders!FoldCreate
  <2> HIDE DEF active
  <2>2. schedule'.active = active /\ schedule'.seen = schedule.seen \cup {id}
        /\ schedule' = [ok |-> schedule'.ok, active |-> schedule'.active, seen |-> schedule'.seen]
    BY <2>1 DEF RemindersInv
  <2>3. /\ DOMAIN active = DOMAIN schedule.active \cup {id} /\ active[id] = rec
        /\ \A x \in DOMAIN schedule.active : x # id /\ active[x] = schedule.active[x]
    BY <1>5 DEF active, RemindersInv
  <2>4. accepted[id] = 0
    BY <1>2, <1>5 DEF RemindersInv
  <2>5. \A x \in DOMAIN schedule'.active : accepted[x] # 0 => schedule'.active[x].at > accepted[x]
    BY <2>2, <2>3, <2>4 DEF RemindersInv
  <2>6. disp.at \in {"post", "emit"} =>
         /\ disp.due \subseteq schedule'.seen
         /\ \A x \in disp.due : x \in DOMAIN schedule'.active => schedule'.active[x].at <= disp.accepted
    BY <1>5, <2>2, <2>3 DEF RemindersInv
  <2>7. /\ now' \in Nat /\ disp'.accepted \in Nat /\ schedule'.seen \subseteq 1 .. MaxSchedules
        /\ DOMAIN schedule'.active \subseteq schedule'.seen
        /\ \A x \in DOMAIN schedule'.active : schedule'.active[x] \in ReminderType
    BY <1>1, <1>2, <1>3, <2>2, <2>3 DEF RemindersInv
  <2>8. /\ \A x \in 1 .. MaxSchedules : accepted[x] # 0 => x \in schedule'.seen
        /\ \A x \in schedule'.seen : x \in DOMAIN schedule'.active \/ x \in deleted \/ x \in posted
    BY <2>2, <2>3 DEF RemindersInv
  <2>9. QED
    BY <1>1, <2>2, <2>5, <2>6, <2>7, <2>8 DEF RemindersInv, Reminders!history
<1>6. QED
  BY <1>4, <1>5

(* A step that at most drops reminders that were deleted or posted.         *)
LEMMA LogShrinks ==
    ASSUME RemindersInv, UNCHANGED <<now, disp, accepted>>, posted \subseteq posted', deleted \subseteq deleted',
           NEW gone, gone \subseteq deleted' \cup posted',
           schedule' = [ok |-> schedule'.ok, active |-> schedule'.active, seen |-> schedule'.seen],
           schedule'.seen = schedule.seen, DOMAIN schedule'.active = DOMAIN schedule.active \ gone,
           \A x \in DOMAIN schedule'.active : schedule'.active[x] = schedule.active[x]
    PROVE  RemindersInv'
<1>1. \A x \in schedule'.seen : x \in DOMAIN schedule'.active \/ x \in deleted' \/ x \in posted'
  BY DEF RemindersInv
<1>2. /\ \A x \in DOMAIN schedule'.active : schedule'.active[x] \in ReminderType
         /\ (accepted[x] # 0 => schedule'.active[x].at > accepted[x])
      /\ \A x \in DOMAIN schedule'.active : x \in DOMAIN schedule.active
      /\ disp.at \in {"post", "emit"} => \A id \in disp.due : id \in DOMAIN schedule'.active
         => schedule'.active[id].at <= disp.accepted
  BY DEF RemindersInv
<1>3. QED
  BY <1>1, <1>2 DEF RemindersInv

LEMMA DeleteStep ==
    ASSUME RemindersInv, Reminders!DeleteEmits
    PROVE  RemindersInv'
<1> DEFINE active == Reminders!Drop(schedule.active, deleting)
<1>1. schedule' = Reminders!FoldDelete(schedule, deleting) /\ deleted' = deleted \cup {deleting}
      /\ UNCHANGED <<now, disp, accepted>> /\ posted' = posted
  BY DEF Reminders!DeleteEmits
<1>2. CASE deleting \notin DOMAIN schedule.active
  <2>1. schedule' = [schedule EXCEPT !.ok = FALSE]
    BY <1>1, <1>2 DEF Reminders!FoldDelete
  <2>2. schedule'.active = schedule.active /\ schedule'.seen = schedule.seen
        /\ schedule' = [ok |-> schedule'.ok, active |-> schedule'.active, seen |-> schedule'.seen]
    BY <2>1 DEF RemindersInv
  <2>3. posted \subseteq posted' /\ deleted \subseteq deleted'
    BY <1>1
  <2>4. QED
    BY <1>1, <2>2, <2>3 DEF RemindersInv
<1>3. CASE deleting \in DOMAIN schedule.active
  <2>1. schedule' = [schedule EXCEPT !.active = active]
    BY <1>1, <1>3 DEF Reminders!FoldDelete
  <2>2. DOMAIN active = DOMAIN schedule.active \ {deleting}
        /\ \A x \in DOMAIN active : active[x] = schedule.active[x]
    BY DEF Reminders!Drop
  <2> HIDE DEF active
  <2>3. schedule'.active = active /\ schedule'.seen = schedule.seen
        /\ schedule' = [ok |-> schedule'.ok, active |-> schedule'.active, seen |-> schedule'.seen]
    BY <2>1 DEF RemindersInv
  <2>4. /\ {deleting} \subseteq deleted' \cup posted' /\ posted \subseteq posted' /\ deleted \subseteq deleted'
    BY <1>1
  <2>5. /\ DOMAIN schedule'.active = DOMAIN schedule.active \ {deleting}
        /\ \A x \in DOMAIN schedule'.active : schedule'.active[x] = schedule.active[x]
    BY <2>2, <2>3
  <2>6. QED
    BY <1>1, <2>3, <2>4, <2>5, LogShrinks, Zenon
<1>4. QED
  BY <1>2, <1>3

(* The dispatch of a reminder that was due when it was decided on.          *)
LEMMA EmitStep ==
    ASSUME RemindersInv, NEW id \in disp.due, NEW ok \in BOOLEAN, Reminders!DispatchEmit(id, ok)
    PROVE  RemindersInv'
<1> DEFINE rest == disp.due \ {id}
<1>1. /\ disp.at = "emit" /\ UNCHANGED <<now, deleting, posted, deleted>>
      /\ disp' = IF disp.due = {id} THEN [Reminders!Off EXCEPT !.at = "fold"] ELSE [disp EXCEPT !.due = rest]
      /\ IF ok THEN schedule' = Reminders!FoldDispatch(schedule, id, disp.accepted)
         /\ accepted' = [accepted EXCEPT ![id] = disp.accepted]
         ELSE UNCHANGED <<schedule, accepted>>
  BY DEF Reminders!DispatchEmit
<1>2. /\ id \in schedule.seen /\ id \in 1 .. MaxSchedules /\ id \in posted /\ disp.accepted \in Nat
      /\ id \in DOMAIN schedule.active => schedule.active[id].at <= disp.accepted
  BY <1>1 DEF RemindersInv
<1>3. /\ disp'.accepted \in Nat
      /\ disp' = [at |-> disp'.at, wake |-> disp'.wake, due |-> disp'.due, accepted |-> disp'.accepted]
      /\ disp'.due \subseteq rest
      /\ disp'.at \in {"post", "emit"} => disp'.accepted = disp.accepted
      /\ disp'.at \notin {"post", "emit"} => disp'.due = {}
  <2>1. CASE disp.due = {id}
    BY <1>1, <2>1 DEF Reminders!Off
  <2>2. CASE disp.due # {id}
    BY <1>1, <1>2, <2>2 DEF RemindersInv
  <2>3. QED
    BY <2>1, <2>2
<1>4. PICK gone \in SUBSET {id} :
        /\ schedule' = [ok |-> schedule'.ok, active |-> schedule'.active, seen |-> schedule'.seen] /\ schedule'.seen = schedule.seen
        /\ DOMAIN schedule'.active = DOMAIN schedule.active \ gone
        /\ \A x \in DOMAIN schedule'.active : x # id => schedule'.active[x] = schedule.active[x]
        /\ id \in DOMAIN schedule'.active =>
             schedule'.active[id] \in ReminderType /\ (accepted'[id] # 0 => schedule'.active[id].at > accepted'[id])
  <2>1. CASE ~ok
    <3>1. schedule' = schedule /\ accepted' = accepted
      BY <1>1, <2>1
    <3>2. /\ schedule = [ok |-> schedule.ok, active |-> schedule.active, seen |-> schedule.seen]
          /\ id \in DOMAIN schedule.active => schedule.active[id] \in ReminderType
             /\ (accepted[id] # 0 => schedule.active[id].at > accepted[id])
      BY DEF RemindersInv
    <3>3. DOMAIN schedule.active = DOMAIN schedule.active \ {}
      OBVIOUS
    <3>4. QED
      BY <3>1, <3>2, <3>3, {} \in SUBSET {id}
  <2>2. CASE ok /\ id \notin DOMAIN schedule.active
    <3>1. schedule' = [schedule EXCEPT !.ok = FALSE]
      BY <1>1, <2>2 DEF Reminders!FoldDispatch
    <3>2. /\ schedule' = [ok |-> schedule'.ok, active |-> schedule'.active, seen |-> schedule'.seen] /\ schedule'.seen = schedule.seen
          /\ schedule'.active = schedule.active
      BY <3>1 DEF RemindersInv
    <3>3. DOMAIN schedule'.active = DOMAIN schedule.active \ {}
      BY <3>2
    <3>4. QED
      BY <2>2, <3>2, <3>3
  <2>3. CASE ok /\ id \in DOMAIN schedule.active
    <3> DEFINE rec == schedule.active[id]
               next == IF rec.every = 0 THEN MaxTime + 1
               ELSE Reminders!NextOccurrence(rec.at, rec.every, disp.accepted)
    <3>1. accepted'[id] = disp.accepted
      BY <1>1, <1>2, <2>3 DEF RemindersInv
    <3>2. rec \in ReminderType /\ rec.at <= disp.accepted /\ rec.at \in Nat /\ rec.every \in Nat
      BY <1>2, <2>3 DEF RemindersInv, ReminderType
    <3>3. schedule' = IF next > MaxTime THEN [schedule EXCEPT !.active = Reminders!Drop(@, id)]
          ELSE [schedule EXCEPT !.active[id].at = next]
      BY <1>1, <2>3 DEF Reminders!FoldDispatch
    <3>4. CASE next > MaxTime
      <4> DEFINE active == Reminders!Drop(schedule.active, id)
      <4>1. schedule' = [schedule EXCEPT !.active = active]
        BY <3>3, <3>4
      <4>2. DOMAIN active = DOMAIN schedule.active \ {id} /\ \A x \in DOMAIN active : active[x] = schedule.active[x]
        BY DEF Reminders!Drop
      <4> HIDE DEF active
      <4>3. schedule'.active = active /\ schedule'.seen = schedule.seen
            /\ schedule' = [ok |-> schedule'.ok, active |-> schedule'.active, seen |-> schedule'.seen]
        BY <4>1 DEF RemindersInv
      <4>4. QED
        BY <4>2, <4>3
    <3>5. CASE ~(next > MaxTime)
      <4> DEFINE rec2 == [rec EXCEPT !.at = next]
                 active == [schedule.active EXCEPT ![id] = rec2]
      <4>1. rec.every # 0
        <5>1. rec.every = 0 => next = MaxTime + 1
          OBVIOUS
        <5>2. MaxTime + 1 > MaxTime
          BY SchedulesAssumption
        <5>3. QED
          BY <3>5, <5>1, <5>2
      <4>2. next \in Nat /\ next > disp.accepted
        BY <1>2, <3>2, <4>1, PastAcceptance
      <4> HIDE DEF next
      <4>3. rec2 \in ReminderType /\ rec2.at = next
        BY <3>2, <4>2 DEF ReminderType
      <4>4. schedule' = [schedule EXCEPT !.active = active]
        BY <3>3, <3>5
      <4>5. DOMAIN active = DOMAIN schedule.active /\ active[id] = rec2
            /\ \A x \in DOMAIN schedule.active : x # id => active[x] = schedule.active[x]
        BY <2>3
      <4> HIDE DEF active, rec2
      <4>6. schedule'.active = active /\ schedule'.seen = schedule.seen
            /\ schedule' = [ok |-> schedule'.ok, active |-> schedule'.active, seen |-> schedule'.seen]
        BY <4>4 DEF RemindersInv
      <4>7. DOMAIN schedule'.active = DOMAIN schedule.active \ {}
        BY <4>5, <4>6
      <4>8. /\ \A x \in DOMAIN schedule'.active : x # id => schedule'.active[x] = schedule.active[x]
            /\ schedule'.active[id] \in ReminderType /\ schedule'.active[id].at > accepted'[id]
        BY <3>1, <4>2, <4>3, <4>5, <4>6
      <4>9. {} \in SUBSET {id}
        OBVIOUS
      <4>10. QED
        BY <4>6, <4>7, <4>8, <4>9
    <3>6. QED
      BY <3>4, <3>5
  <2>4. QED
    BY <2>1, <2>2, <2>3
<1>5. /\ accepted' \in [1 .. MaxSchedules -> Nat]
      /\ \A x \in 1 .. MaxSchedules : x # id => accepted'[x] = accepted[x]
  BY <1>1, <1>2 DEF RemindersInv
<1>6. \A x \in 1 .. MaxSchedules : accepted'[x] # 0 => x \in schedule'.seen
  BY <1>2, <1>4, <1>5 DEF RemindersInv
<1>7. \A x \in schedule'.seen : x \in DOMAIN schedule'.active \/ x \in deleted' \/ x \in posted'
  BY <1>1, <1>2, <1>4 DEF RemindersInv
<1>8. \A x \in DOMAIN schedule'.active : /\ x \in DOMAIN schedule.active /\ x \in schedule.seen
                                        /\ schedule'.active[x] \in ReminderType
                                        /\ accepted'[x] # 0 => schedule'.active[x].at > accepted'[x]
  BY <1>4, <1>5 DEF RemindersInv
<1>9. disp'.at \in {"post", "emit"} =>
         /\ disp'.due \subseteq schedule'.seen
         /\ \A x \in disp'.due : x \in DOMAIN schedule'.active => schedule'.active[x].at <= disp'.accepted
  BY <1>1, <1>3, <1>4 DEF RemindersInv
<1>10. disp'.due \subseteq posted'
  BY <1>1, <1>3 DEF RemindersInv
<1>11. QED
  BY <1>1, <1>3, <1>4, <1>5, <1>6, <1>7, <1>8, <1>9, <1>10 DEF RemindersInv

(* The dispatcher moves, and the log stays.                                 *)
LEMMA DispatcherChanges ==
    ASSUME RemindersInv, UNCHANGED <<schedule, accepted, deleted>>, now' \in Nat, posted \subseteq posted',
           disp' = [at |-> disp'.at, wake |-> disp'.wake, due |-> disp'.due, accepted |-> disp'.accepted],
           disp'.accepted \in Nat,
           disp'.at \in {"post", "emit"} =>
             /\ disp'.due \subseteq DOMAIN schedule.active \cup disp.due
             /\ \A id \in disp'.due : id \in DOMAIN schedule.active => schedule.active[id].at <= disp'.accepted,
           disp'.at \in {"post", "emit"} /\ disp.at \notin {"post", "emit"}
           => disp'.due \subseteq DOMAIN schedule.active,
           disp'.at = "emit" => disp'.due \subseteq posted',
           disp'.at \notin {"post", "emit"} => disp'.due = {}
    PROVE  RemindersInv'
BY DEF RemindersInv

LEMMA DispatchStep ==
    ASSUME RemindersInv, Reminders!DispatchFold \/ Reminders!DispatchWakes \/ Reminders!DispatchPost
           \/ Reminders!StopAgent \/ Reminders!Crash \/ Reminders!Resume \/ Reminders!Tick
    PROVE  RemindersInv'
<1>1. disp = [at |-> disp.at, wake |-> disp.wake, due |-> disp.due, accepted |-> disp.accepted] /\ now \in Nat
      /\ disp.accepted \in Nat
  BY DEF RemindersInv
<1>2. CASE Reminders!DispatchFold
  <2>1. UNCHANGED <<schedule, accepted, deleted, now, posted>>
    BY <1>2 DEF Reminders!DispatchFold, Reminders!history
  <2>2. CASE ~schedule.ok \/ Reminders!Decision = {}
    <3>1. \E at \in {"faulted", "wait"} : \E w : disp' = [at |-> at, wake |-> w, due |-> {}, accepted |-> 0]
      <4>1. CASE ~schedule.ok
        BY <1>2, <4>1 DEF Reminders!DispatchFold, Reminders!Off
      <4>2. CASE schedule.ok /\ Reminders!Decision = {}
        <5>1. disp' = [Reminders!Off EXCEPT !.at = "wait", !.wake = Reminders!Target]
          BY <1>2, <4>2 DEF Reminders!DispatchFold
        <5>2. disp' = [at |-> "wait", wake |-> Reminders!Target, due |-> {}, accepted |-> 0]
          BY <5>1 DEF Reminders!Off
        <5>3. QED
          BY <5>2
      <4>3. QED
        BY <2>2, <4>1, <4>2
    <3>2. QED
      BY <1>1, <2>1, <3>1, DispatcherChanges
  <2>3. CASE schedule.ok /\ Reminders!Decision # {}
    <3> DEFINE d == CHOOSE x \in Reminders!Decision : TRUE
    <3>1. disp.at = "fold" /\ disp' = [Reminders!Off EXCEPT !.at = "post", !.due = d, !.accepted = now]
      BY <1>2, <2>3 DEF Reminders!DispatchFold
    <3>2. d \in Reminders!Decision
      BY <2>3, Zenon
    <3> HIDE DEF d
    <3>3. d \subseteq Reminders!Due
      BY <3>2, DecisionDue
    <3>4. disp' = [at |-> "post", wake |-> 0, due |-> d, accepted |-> now]
      BY <3>1 DEF Reminders!Off
    <3>5. d \subseteq DOMAIN schedule.active /\ \A id \in d : schedule.active[id].at <= now
      BY <3>3 DEF Reminders!Due
    <3>6. QED
      BY <1>1, <2>1, <3>4, <3>5, DispatcherChanges
  <2>4. QED
    BY <2>2, <2>3
<1>3. CASE Reminders!DispatchPost
  <2>1. UNCHANGED <<schedule, accepted, deleted, now>> /\ posted' = posted \cup disp.due /\ disp.at = "post"
        /\ disp' = [disp EXCEPT !.at = "emit"]
    BY <1>3 DEF Reminders!DispatchPost
  <2>2. disp' = [at |-> "emit", wake |-> disp.wake, due |-> disp.due, accepted |-> disp.accepted]
    BY <1>1, <2>1
  <2>3. \A id \in disp.due : id \in DOMAIN schedule.active => schedule.active[id].at <= disp.accepted
    BY <2>1 DEF RemindersInv
  <2>4. QED
    BY <1>1, <2>1, <2>2, <2>3, DispatcherChanges
<1>4. CASE Reminders!Tick
  <2>1. UNCHANGED <<schedule, accepted, deleted, posted, disp>> /\ now' \in Nat
    BY <1>1, <1>4 DEF Reminders!Tick, Reminders!history
  <2>2. QED
    BY <2>1 DEF RemindersInv
<1>5. CASE Reminders!DispatchWakes \/ Reminders!StopAgent \/ Reminders!Crash \/ Reminders!Resume
  <2>1. UNCHANGED <<schedule, accepted, deleted, posted, now>>
        /\ disp' \in {Reminders!Off, [Reminders!Off EXCEPT !.at = "fold"]}
    BY <1>5 DEF Reminders!DispatchWakes, Reminders!StopAgent, Reminders!Crash, Reminders!Resume, Reminders!history
  <2>2. disp'.at \in {"off", "fold"} /\ disp' = [at |-> disp'.at, wake |-> 0, due |-> {}, accepted |-> 0]
    BY <2>1 DEF Reminders!Off
  <2>3. QED
    BY <1>1, <2>1, <2>2, DispatcherChanges
<1>6. QED
  BY <1>2, <1>3, <1>4, <1>5

LEMMA RemindersInit == Reminders!Init => RemindersInv
<1> SUFFICES ASSUME Reminders!Init PROVE RemindersInv
  OBVIOUS
<1> DEFINE e == <<>>
<1>1. /\ now = 0 /\ schedule = [ok |-> TRUE, active |-> e, seen |-> {}]
      /\ disp = [at |-> "fold", wake |-> 0, due |-> {}, accepted |-> 0]
      /\ accepted = [i \in 1 .. MaxSchedules |-> 0]
  BY DEF Reminders!Init, Reminders!Off
<1>2. DOMAIN e = {}
  OBVIOUS
<1> HIDE DEF e
<1>3. QED
  BY <1>1, <1>2 DEF RemindersInv

(* A reminder that is no longer active was posted or deleted, and a         *)
(* fixed-rate one goes on after the occurrence accepted last (the dispatcher*)
(* of tools/schedule_runtime.go), for any delays, periods and failures.     *)
THEOREM RemindersAreKept == Reminders!Spec => []ReminderKept
<1>1. RemindersInv /\ [Reminders!Next]_Reminders!vars => RemindersInv'
  <2> SUFFICES ASSUME RemindersInv, [Reminders!Next]_Reminders!vars PROVE RemindersInv'
    OBVIOUS
  <2>1. ASSUME NEW d \in Delays, Reminders!Create(d, 0) PROVE RemindersInv'
    BY <2>1, CreateStep, SchedulesAssumption
  <2>2. ASSUME NEW d \in Every, Reminders!Create(d, d) PROVE RemindersInv'
    BY <2>2, CreateStep, SchedulesAssumption
  <2>3. CASE UNCHANGED <<now, schedule, disp, posted, deleted, accepted>>
    BY <2>3 DEF RemindersInv
  <2>4. ASSUME NEW id, Reminders!DeleteLooksUp(id) PROVE RemindersInv'
    BY <2>3, <2>4 DEF Reminders!DeleteLooksUp, Reminders!history
  <2>5. CASE Reminders!CreateGoal \/ Reminders!GoalSet
             \/ (\E p \in {"edit", "paused", "active", "complete", "blocked"} : Reminders!UpdateGoal(p))
             \/ (\E n \in 0 .. 2 : Reminders!TodoWrite(n)) \/ UNCHANGED Reminders!vars
    BY <2>3, <2>5 DEF Reminders!CreateGoal, Reminders!GoalSet, Reminders!UpdateGoal, Reminders!TodoWrite,
       Reminders!vars, Reminders!history
  <2>6. QED
    BY <2>1, <2>2, <2>4, <2>5, DeleteStep, EmitStep, DispatchStep DEF Reminders!Next
<1>2. RemindersInv => Reminders!ReminderKept
  BY DEF RemindersInv, Reminders!ReminderKept
<1>3. QED
  BY <1>1, <1>2, RemindersInit, PTL DEF Reminders!Spec, ReminderKept

-----------------------------------------------------------------------------
(* Subagents: the tree of sessions and the workflow run.                    *)

SessionType == [parent : Nat, depth : Nat, alive : BOOLEAN, turning : BOOLEAN, inbox : Nat, stored : BOOLEAN]
Places == {"register", "post", "collect", "settle", "member", "done", "lost"}
WaitType == [by : Nat, child : Nat, at : Places, end : BOOLEAN, member : Nat]
Outcome == {"cancelled", "failed", "completed"}
RunType == [at : {"none", "running", "done"}, results : Seq(Outcome),
            begun : SUBSET (1 .. Members), spawning : SUBSET (1 .. Members),
            stop : {"", "cancelled", "error", "completed"}]

AgentsTypeInv ==
    /\ sess \in Seq(SessionType) /\ Len(sess) >= 1
    /\ wait \in Seq(WaitType) /\ \A w \in DOMAIN wait : wait[w].child \in DOMAIN sess
    /\ run \in RunType

(* Parents are older than their children, and a session that turns is       *)
(* stored, so its depth can be read back.                                   *)
DepthInv ==
    /\ sess[1].stored
    /\ \A s \in DOMAIN sess : sess[s].turning => sess[s].stored
    /\ sess[1].depth = 0
    /\ \A s \in DOMAIN sess \ {1} :
         /\ sess[s].parent \in 1 .. s - 1
         /\ sess[s].depth = sess[sess[s].parent].depth + 1
         /\ sess[s].depth <= MaxDepth

(* The members whose waits go on; and the reason a run should give.         *)
Active == {w \in DOMAIN wait : wait[w].member # 0 /\ wait[w].at \notin {"done", "lost"}}

Reason(results) ==
    IF \E i \in DOMAIN results : results[i] = "cancelled" THEN "cancelled"
    ELSE IF \E i \in DOMAIN results : results[i] = "failed" THEN "error"
    ELSE "completed"

(* Of the members that have begun each is waited for, is being spawned or   *)
(* has left its result, so a run that has all results waits for nobody.     *)
RunInv ==
    /\ run.spawning \subseteq run.begun
    /\ run.at = "running"
       => Len(run.results) + Cardinality(run.spawning) + Cardinality(Active) = Cardinality(run.begun)
    /\ run.at # "running" => Active = {}
    /\ \A w \in DOMAIN wait : wait[w].at = "member" => wait[w].member # 0
    /\ run.at = "none" => run = Agents!NoRun
    /\ run.at = "done" => run.stop = Reason(run.results)
AgentsInv == AgentsTypeInv /\ DepthInv /\ RunInv

(* A step that creates no session and moves none in the tree.               *)
LEMMA TreeKept ==
    ASSUME AgentsTypeInv, DepthInv, DOMAIN sess' = DOMAIN sess,
           \A s \in DOMAIN sess : /\ sess'[s].parent = sess[s].parent /\ sess'[s].depth = sess[s].depth
                                  /\ sess[s].stored => sess'[s].stored
                                  /\ sess'[s].turning => sess'[s].stored
    PROVE  DepthInv'
<1>1. 1 \in DOMAIN sess /\ \A s \in DOMAIN sess : 1 .. s - 1 \subseteq DOMAIN sess
  BY DEF AgentsTypeInv
<1>2. QED
  BY <1>1 DEF DepthInv

(* A step that begins and ends no wait of a member.                         *)
LEMMA MembersKept ==
    ASSUME RunInv, run' = run, DOMAIN wait' = DOMAIN wait,
           \A w \in DOMAIN wait :
             /\ wait'[w].member = wait[w].member
             /\ wait'[w].at = "member" => wait[w].member # 0
             /\ wait[w].member # 0 => (wait'[w].at \in {"done", "lost"} <=> wait[w].at \in {"done", "lost"})
    PROVE  RunInv'
<1>1. Active' = Active
  BY DEF Active
<1>2. QED
  BY <1>1 DEF RunInv, Reason, Agents!NoRun

(* A wait of no member: a call of the model, a continuation.                *)
LEMMA CallKept ==
    ASSUME AgentsTypeInv, RunInv, run' = run, NEW x \in WaitType, x.member = 0, x.at # "member",
           wait' = Append(wait, x)
    PROVE  RunInv'
<1>1. /\ DOMAIN wait' = DOMAIN wait \cup {Len(wait) + 1} /\ Len(wait) \in Nat /\ DOMAIN wait = 1 .. Len(wait)
      /\ wait'[Len(wait) + 1] = x /\ \A w \in DOMAIN wait : wait'[w] = wait[w]
  BY DEF AgentsTypeInv
<1>2. Active' = Active
  BY <1>1 DEF Active
<1>3. \A w \in DOMAIN wait' : wait'[w].at = "member" => wait'[w].member # 0
  BY <1>1 DEF RunInv
<1>4. QED
  BY <1>2, <1>3 DEF RunInv, Reason, Agents!NoRun

LEMMA SetsFinite ==
    ASSUME AgentsTypeInv
    PROVE  /\ IsFiniteSet(run.begun) /\ IsFiniteSet(run.spawning) /\ IsFiniteSet(Active)
           /\ Cardinality(run.begun) \in 0 .. Members /\ Cardinality(run.spawning) \in Nat
           /\ Cardinality(Active) \in Nat
<1>1. IsFiniteSet(1 .. Members) /\ Cardinality(1 .. Members) = Members
  BY MembersAssumption, FS_Interval
<1>2. IsFiniteSet(DOMAIN wait)
  <2>1. DOMAIN wait = 1 .. Len(wait) /\ Len(wait) \in Nat
    BY DEF AgentsTypeInv
  <2>2. QED
    BY <2>1, FS_Interval
<1>3. Active \subseteq DOMAIN wait
  BY DEF Active
<1>4. run.begun \subseteq 1 .. Members /\ run.spawning \subseteq 1 .. Members
  BY DEF AgentsTypeInv, RunType
<1>5. IsFiniteSet(run.begun) /\ Cardinality(run.begun) <= Members
  BY <1>1, <1>4, FS_Subset
<1>6. IsFiniteSet(run.spawning)
  BY <1>1, <1>4, FS_Subset
<1>7. IsFiniteSet(Active)
  BY <1>2, <1>3, FS_Subset
<1>8. QED
  BY <1>5, <1>6, <1>7, FS_CardinalityType, MembersAssumption

(* Calls of invoke_subagent: what Invoke makes of the tree and the waits.   *)
LEMMA InvokeStep ==
    ASSUME AgentsTypeInv, DepthInv, NEW s \in DOMAIN sess, sess[s].stored, NEW m \in Nat, Agents!Invoke(s, m)
    PROVE  /\ sess' \in Seq(SessionType) /\ Len(sess') >= 1 /\ DepthInv'
           /\ wait' \in Seq(WaitType) /\ \A w \in DOMAIN wait' : wait'[w].child \in DOMAIN sess'
           /\ \E x \in WaitType : x.member = m /\ x.at = "register" /\ wait' = Append(wait, x)
<1>1. Agents!ParentDepth(s) = sess[s].depth
  BY DEF Agents!ParentDepth
<1> DEFINE new == Agents!Child(s)
           x == [by |-> s, child |-> Len(sess) + 1, at |-> "register", end |-> FALSE, member |-> m]
<1>2. s \in Nat /\ sess[s] \in SessionType /\ Len(sess) \in Nat /\ DOMAIN sess = 1 .. Len(sess)
  BY DEF AgentsTypeInv
<1>3. new \in SessionType /\ new.parent = s /\ new.depth = sess[s].depth + 1 /\ ~new.turning
  BY <1>1, <1>2 DEF SessionType, Agents!Child
<1>4. x \in WaitType /\ x.member = m /\ x.at = "register"
  BY <1>2 DEF WaitType, Places
<1>5. sess' = Append(sess, new) /\ wait' = Append(wait, x) /\ sess[s].depth + 1 <= MaxDepth
  BY <1>1 DEF Agents!Invoke, Agents!DepthAllowed
<1> HIDE DEF new
<1>6. /\ sess' \in Seq(SessionType) /\ DOMAIN sess' = 1 .. Len(sess) + 1 /\ Len(sess') = Len(sess) + 1
      /\ \A t \in DOMAIN sess : sess'[t] = sess[t]
      /\ sess'[Len(sess) + 1] = new
  BY <1>2, <1>3, <1>5 DEF AgentsTypeInv
<1>7. DepthInv'
  <2>1. sess'[1] = sess[1] /\ 1 \in DOMAIN sess
    BY <1>2, <1>6 DEF AgentsTypeInv
  <2>2. \A t \in DOMAIN sess' : sess'[t].turning => sess'[t].stored
    BY <1>2, <1>3, <1>6 DEF DepthInv
  <2>3. ASSUME NEW t \in DOMAIN sess' \ {1}
        PROVE  /\ sess'[t].parent \in 1 .. t - 1
               /\ sess'[t].depth = sess'[sess'[t].parent].depth + 1
               /\ sess'[t].depth <= MaxDepth
    <3>1. CASE t \in DOMAIN sess
      <4>1. sess[t].parent \in DOMAIN sess
        BY <1>2, <3>1 DEF DepthInv
      <4>2. QED
        BY <1>6, <3>1, <4>1 DEF DepthInv
    <3>2. CASE t = Len(sess) + 1
      BY <1>2, <1>3, <1>5, <1>6, <3>2
    <3>3. QED
      BY <1>2, <1>6, <3>1, <3>2
  <2>4. QED
    BY <2>1, <2>2, <2>3 DEF DepthInv
<1> HIDE DEF x
<1>8. wait' \in Seq(WaitType) /\ \A w \in DOMAIN wait' : wait'[w].child \in DOMAIN sess'
  <2>1. /\ wait' \in Seq(WaitType) /\ DOMAIN wait' = 1 .. Len(wait) + 1 /\ DOMAIN wait = 1 .. Len(wait)
        /\ Len(wait) \in Nat
        /\ \A w \in DOMAIN wait : wait'[w] = wait[w]
        /\ wait'[Len(wait) + 1] = x
    BY <1>4, <1>5 DEF AgentsTypeInv
  <2>2. x.child \in DOMAIN sess'
    BY <1>2, <1>6 DEF x
  <2>3. QED
    BY <1>2, <1>6, <2>1, <2>2 DEF AgentsTypeInv
<1>9. QED
  BY <1>2, <1>4, <1>5, <1>6, <1>7, <1>8

(* Steps of sessions and of waits that leave the run alone.                 *)
LEMMA SessionStep ==
    ASSUME AgentsInv, NEW s \in Agents!Sessions,
           Agents!CallInvoke(s) \/ Agents!Continue(s) \/ Agents!ChildTurn(s) \/ Agents!ChildTurnEnd(s)
           \/ Agents!ExternalStop(s) \/ Agents!Resume(s)
    PROVE  AgentsInv'
<1>1. /\ AgentsTypeInv /\ DepthInv /\ RunInv /\ s \in Nat
      /\ DOMAIN sess = 1 .. Len(sess) /\ Len(sess) \in Nat /\ sess \in [DOMAIN sess -> SessionType]
      /\ DOMAIN wait = 1 .. Len(wait) /\ Len(wait) \in Nat /\ wait \in [DOMAIN wait -> WaitType]
  BY DEF AgentsInv, AgentsTypeInv, Agents!Sessions
<1>2. CASE Agents!CallInvoke(s)
  <2>1. sess[s].stored /\ Agents!Invoke(s, 0) /\ run' = run
    BY <1>1, <1>2 DEF Agents!CallInvoke, DepthInv, Agents!Sessions
  <2>2. PICK x \in WaitType : x.member = 0 /\ x.at = "register" /\ wait' = Append(wait, x)
    BY <1>1, <2>1, InvokeStep DEF Agents!Sessions
  <2>3. AgentsTypeInv' /\ DepthInv'
    BY <1>1, <2>1, InvokeStep DEF Agents!Sessions, AgentsTypeInv
  <2>4. RunInv'
    BY <1>1, <2>1, <2>2, CallKept
  <2>5. QED
    BY <2>3, <2>4 DEF AgentsInv
<1>3. CASE Agents!Continue(s)
  <2> DEFINE x == [by |-> 0, child |-> s, at |-> "post", end |-> FALSE, member |-> 0]
  <2>1. x \in WaitType /\ x.member = 0 /\ x.at # "member" /\ x.child = s
    BY <1>1 DEF WaitType, Places
  <2>2. wait' = Append(wait, x) /\ sess' = sess /\ run' = run
    BY <1>3 DEF Agents!Continue
  <2> HIDE DEF x
  <2>3. RunInv'
    BY <1>1, <2>1, <2>2, CallKept
  <2>4. AgentsTypeInv'
    <3>1. wait' \in Seq(WaitType) /\ \A w \in DOMAIN wait' : (w \in DOMAIN wait /\ wait'[w] = wait[w])
          \/ wait'[w] = x
      BY <1>1, <2>1, <2>2 DEF AgentsTypeInv
    <3>2. QED
      BY <1>1, <2>1, <2>2, <3>1 DEF AgentsTypeInv, Agents!Sessions
  <2>5. DepthInv'
    BY <1>1, <2>2 DEF DepthInv
  <2>6. QED
    BY <2>3, <2>4, <2>5 DEF AgentsInv
<1>4. CASE Agents!ChildTurn(s) \/ Agents!ExternalStop(s) \/ Agents!Resume(s)
  <2>1. PICK e \in SessionType :
          /\ sess' = [sess EXCEPT ![s] = e] /\ e.parent = sess[s].parent /\ e.depth = sess[s].depth
          /\ sess[s].stored => e.stored
          /\ e.turning => e.stored
    <3>1. CASE Agents!ChildTurn(s)
      <4> DEFINE e == [sess[s] EXCEPT !.turning = TRUE, !.inbox = @ - 1, !.stored = TRUE]
      <4>1. e \in SessionType
        BY <1>1, <3>1 DEF Agents!ChildTurn, SessionType, Agents!Sessions
      <4>2. sess' = [sess EXCEPT ![s] = e]
        BY <1>1, <3>1 DEF Agents!ChildTurn, Agents!Sessions
      <4>3. QED
        BY <1>1, <4>1, <4>2 DEF SessionType, Agents!Sessions
    <3>2. CASE Agents!ExternalStop(s)
      <4> DEFINE e == [sess[s] EXCEPT !.alive = FALSE]
      <4>1. e \in SessionType
        BY <1>1, <3>2 DEF SessionType, Agents!Sessions
      <4>2. sess' = [sess EXCEPT ![s] = e]
        BY <1>1, <3>2 DEF Agents!ExternalStop, Agents!Sessions
      <4>3. QED
        BY <1>1, <4>1, <4>2 DEF SessionType, Agents!Sessions, DepthInv
    <3>3. CASE Agents!Resume(s)
      <4> DEFINE e == [sess[s] EXCEPT !.alive = TRUE, !.turning = TRUE]
      <4>1. e \in SessionType
        BY <1>1, <3>3 DEF SessionType, Agents!Sessions
      <4>2. sess' = [sess EXCEPT ![s] = e] /\ sess[s].stored
        BY <1>1, <3>3 DEF Agents!Resume, Agents!Sessions
      <4>3. QED
        BY <1>1, <4>1, <4>2 DEF SessionType, Agents!Sessions
    <3>4. QED
      BY <1>4, <3>1, <3>2, <3>3
  <2>2. run' = run /\ wait' = wait
    BY <1>4 DEF Agents!ChildTurn, Agents!ExternalStop, Agents!Resume
  <2>3. /\ sess' \in Seq(SessionType) /\ DOMAIN sess' = DOMAIN sess /\ Len(sess') = Len(sess)
        /\ sess'[s] = e /\ \A t \in DOMAIN sess : t # s => sess'[t] = sess[t]
    BY <1>1, <2>1 DEF AgentsTypeInv, Agents!Sessions
  <2>4. DepthInv'
    <3>1. \A t \in DOMAIN sess : sess[t].turning => sess[t].stored
      BY <1>1 DEF DepthInv
    <3>2. QED
      BY <1>1, <2>1, <2>3, <3>1, TreeKept
  <2>5. RunInv'
    BY <1>1, <2>2, MembersKept DEF RunInv
  <2>6. AgentsTypeInv'
    BY <1>1, <2>2, <2>3 DEF AgentsTypeInv
  <2>7. QED
    BY <2>4, <2>5, <2>6 DEF AgentsInv
<1>5. CASE Agents!ChildTurnEnd(s)
  <2> DEFINE e == [sess[s] EXCEPT !.turning = FALSE]
  <2>1. e \in SessionType /\ e.parent = sess[s].parent /\ e.depth = sess[s].depth /\ e.stored = sess[s].stored
        /\ ~e.turning
    BY <1>1 DEF SessionType, Agents!Sessions
  <2>2. sess' = [sess EXCEPT ![s] = e] /\ run' = run
    BY <1>1, <1>5 DEF Agents!ChildTurnEnd, Agents!Sessions
  <2> HIDE DEF e
  <2>3. /\ sess' \in Seq(SessionType) /\ DOMAIN sess' = DOMAIN sess /\ Len(sess') = Len(sess)
        /\ sess'[s] = e /\ \A t \in DOMAIN sess : t # s => sess'[t] = sess[t]
    BY <1>1, <2>1, <2>2 DEF AgentsTypeInv, Agents!Sessions
  <2>4. DepthInv'
    <3>1. \A t \in DOMAIN sess : sess[t].turning => sess[t].stored
      BY <1>1 DEF DepthInv
    <3>2. QED
      BY <1>1, <2>1, <2>3, <3>1, TreeKept
  <2>5. PICK missed \in SUBSET Agents!Waits :
          wait' = [w \in Agents!Waits |->
                     IF wait[w].child = s /\ wait[w].at \in {"register", "post", "collect"} /\ w \notin missed
                     THEN [wait[w] EXCEPT !.end = TRUE] ELSE wait[w]]
    BY <1>5, Zenon DEF Agents!ChildTurnEnd
  <2>6. /\ DOMAIN wait' = DOMAIN wait
        /\ \A w \in DOMAIN wait : /\ wait'[w] \in WaitType /\ wait'[w].member = wait[w].member
                                  /\ wait'[w].at = wait[w].at /\ wait'[w].child = wait[w].child
    BY <1>1, <2>5 DEF WaitType, Agents!Waits
  <2>7. wait' \in Seq(WaitType)
    <3>1. wait' = [w \in 1 .. Len(wait) |-> wait'[w]]
      BY <1>1, <2>5 DEF Agents!Waits
    <3>2. wait' \in [1 .. Len(wait) -> WaitType]
      BY <1>1, <2>6, <3>1
    <3>3. QED
      BY <1>1, <3>2
  <2>8. RunInv'
    BY <1>1, <2>2, <2>6, MembersKept DEF RunInv
  <2>9. AgentsTypeInv'
    BY <1>1, <2>2, <2>3, <2>6, <2>7 DEF AgentsTypeInv
  <2>10. QED
    BY <2>4, <2>8, <2>9 DEF AgentsInv
<1>6. QED
  BY <1>2, <1>3, <1>4, <1>5

LEMMA WaitStep ==
    ASSUME AgentsInv, NEW w \in Agents!Waits,
           Agents!RegisterChild(w) \/ Agents!PostPrompt(w) \/ Agents!CollectEnd(w) \/ Agents!CollectStops(w)
           \/ Agents!CollectStopped(w) \/ Agents!Settle(w)
    PROVE  AgentsInv'
<1>1. /\ AgentsTypeInv /\ DepthInv /\ RunInv /\ w \in Nat
      /\ DOMAIN sess = 1 .. Len(sess) /\ Len(sess) \in Nat /\ sess \in [DOMAIN sess -> SessionType]
      /\ DOMAIN wait = 1 .. Len(wait) /\ Len(wait) \in Nat /\ wait \in [DOMAIN wait -> WaitType]
      /\ w \in DOMAIN wait /\ wait[w].child \in DOMAIN sess
  BY DEF AgentsInv, AgentsTypeInv, Agents!Waits
<1>2. PICK p \in Places :
        /\ wait' = [wait EXCEPT ![w].at = p]
        /\ p # "lost" /\ wait[w].at \notin {"done", "lost"}
        /\ p = "member" => wait[w].member # 0
        /\ p = "done" => wait[w].member = 0
  BY <1>1 DEF Agents!RegisterChild, Agents!PostPrompt, Agents!CollectEnd, Agents!CollectStops,
     Agents!CollectStopped, Agents!Settle, Places
<1>3. run' = run
  BY DEF Agents!RegisterChild, Agents!PostPrompt, Agents!CollectEnd, Agents!CollectStops, Agents!CollectStopped,
     Agents!Settle
<1>4. /\ wait' \in Seq(WaitType) /\ DOMAIN wait' = DOMAIN wait
      /\ \A v \in DOMAIN wait : wait'[v].child = wait[v].child /\ wait'[v].member = wait[v].member
      /\ wait'[w].at = p /\ \A v \in DOMAIN wait : v # w => wait'[v] = wait[v]
  <2> DEFINE e == [wait[w] EXCEPT !.at = p]
  <2>1. e \in WaitType /\ e.child = wait[w].child /\ e.member = wait[w].member /\ e.at = p
    BY <1>1 DEF WaitType
  <2>2. wait' = [wait EXCEPT ![w] = e]
    BY <1>1, <1>2
  <2> HIDE DEF e
  <2>3. QED
    BY <1>1, <2>1, <2>2
<1>5. RunInv'
  BY <1>1, <1>2, <1>3, <1>4, MembersKept DEF RunInv
<1>6. PICK c \in DOMAIN sess, e \in SessionType :
        /\ sess' = [sess EXCEPT ![c] = e] /\ e.parent = sess[c].parent /\ e.depth = sess[c].depth
        /\ e.stored = sess[c].stored /\ e.turning = sess[c].turning
  <2>1. CASE Agents!PostPrompt(w)
    <3> DEFINE c == wait[w].child
               e == [sess[c] EXCEPT !.inbox = @ + 1]
    <3>1. c \in DOMAIN sess /\ sess[c] \in SessionType
      BY <1>1
    <3>3. e \in SessionType
      BY <3>1 DEF SessionType
    <3>4. sess' = [sess EXCEPT ![c] = e]
      BY <3>1, <2>1 DEF Agents!PostPrompt
    <3>2. QED
      BY <3>1, <3>3, <3>4 DEF SessionType
  <2>2. CASE Agents!CollectStops(w)
    <3> DEFINE c == wait[w].child
               e == [sess[c] EXCEPT !.alive = FALSE]
    <3>1. c \in DOMAIN sess /\ e \in SessionType /\ sess' = [sess EXCEPT ![c] = e]
      BY <1>1, <2>2 DEF Agents!CollectStops, SessionType
    <3>2. QED
      BY <1>1, <3>1 DEF SessionType
  <2>3. CASE sess' = sess
    BY <1>1, <2>3
  <2>4. QED
    BY <2>1, <2>2, <2>3 DEF Agents!RegisterChild, Agents!CollectEnd, Agents!CollectStopped, Agents!Settle
<1>7. /\ sess' \in Seq(SessionType) /\ DOMAIN sess' = DOMAIN sess /\ Len(sess') = Len(sess)
      /\ sess'[c] = e /\ \A t \in DOMAIN sess : t # c => sess'[t] = sess[t]
  BY <1>1, <1>6 DEF AgentsTypeInv
<1>8. DepthInv'
  <2>1. \A t \in DOMAIN sess : sess[t].turning => sess[t].stored
    BY <1>1 DEF DepthInv
  <2>2. QED
    BY <1>1, <1>6, <1>7, <2>1, TreeKept
<1>9. AgentsTypeInv'
  BY <1>1, <1>3, <1>4, <1>7 DEF AgentsTypeInv
<1>10. QED
  BY <1>5, <1>8, <1>9 DEF AgentsInv

LEMMA RunTyped ==
    ASSUME AgentsInv
    PROVE  /\ AgentsTypeInv /\ DepthInv /\ RunInv /\ run \in RunType /\ Len(run.results) \in Nat
           /\ DOMAIN wait = 1 .. Len(wait) /\ Len(wait) \in Nat /\ \A w \in DOMAIN wait : wait[w] \in WaitType
           /\ 1 \in DOMAIN sess /\ sess[1].stored
           /\ Cardinality(run.begun) \in Nat
<1>1. AgentsTypeInv /\ DepthInv /\ RunInv /\ run \in RunType
  BY DEF AgentsInv, AgentsTypeInv
<1>2. run.results \in Seq(Outcome)
  BY <1>1 DEF RunType
<1>3. Cardinality(run.begun) \in Nat
  BY <1>1, SetsFinite, MembersAssumption
<1>4. 1 \in DOMAIN sess /\ sess[1].stored
  BY <1>1 DEF AgentsTypeInv, DepthInv
<1>5. DOMAIN wait = 1 .. Len(wait) /\ Len(wait) \in Nat /\ \A w \in DOMAIN wait : wait[w] \in WaitType
  BY <1>1 DEF AgentsTypeInv
<1>6. QED
  BY <1>1, <1>2, <1>3, <1>4, <1>5

(* The workflow: its members begin, are spawned and end, and each is counted*)
(* in one of results, spawning and Active.                                  *)
LEMMA ResultAdded ==
    ASSUME run \in RunType, NEW o \in Outcome, NEW b \in SUBSET (1 .. Members), NEW p \in SUBSET (1 .. Members),
           run' = [run EXCEPT !.results = Append(@, o), !.begun = b, !.spawning = p]
    PROVE  /\ run' \in RunType /\ Len(run.results) \in Nat /\ Len(run'.results) = Len(run.results) + 1
           /\ run'.begun = b /\ run'.spawning = p /\ run'.at = run.at
<1>1. run.results \in Seq(Outcome)
  BY DEF RunType
<1> DEFINE r == Append(run.results, o)
<1>2. r \in Seq(Outcome) /\ Len(r) = Len(run.results) + 1 /\ Len(run.results) \in Nat
  BY <1>1
<1>3. run' = [run EXCEPT !.results = r, !.begun = b, !.spawning = p]
  OBVIOUS
<1> HIDE DEF r
<1>4. run' \in RunType /\ run'.results = r /\ run'.begun = b /\ run'.spawning = p /\ run'.at = run.at
  BY <1>2, <1>3 DEF RunType
<1>5. QED
  BY <1>2, <1>4

LEMMA RunGoesOn ==
    ASSUME RunInv, run'.at = "running", run'.spawning \subseteq run'.begun,
           Len(run'.results) + Cardinality(run'.spawning) + Cardinality(Active') = Cardinality(run'.begun),
           \A w \in DOMAIN wait' : wait'[w].at = "member" => wait'[w].member # 0
    PROVE  RunInv'
BY DEF RunInv

LEMMA BeginStep ==
    ASSUME AgentsInv, NEW i \in 1 .. Members, Agents!BeginMember(i)
    PROVE  AgentsInv'
<1>1. AgentsTypeInv /\ DepthInv /\ RunInv /\ run \in RunType /\ Len(run.results) \in Nat
      /\ Cardinality(run.begun) \in Nat
  BY RunTyped
<1>2. run.at = "running" /\ i \notin run.begun /\ sess' = sess /\ wait' = wait
  BY DEF Agents!BeginMember, Agents!Ready
<1>3. Cardinality(run.begun \cup {i}) = Cardinality(run.begun) + 1 /\ Cardinality(run.begun) \in Nat
  BY <1>1, <1>2, SetsFinite, FS_AddElement, Zenon
<1>4. i \notin run.spawning /\ Cardinality(run.spawning \cup {i}) = Cardinality(run.spawning) + 1
      /\ Cardinality(run.spawning) \in Nat
  BY <1>1, <1>2, SetsFinite, FS_AddElement DEF RunInv
<1>5. Active' = Active /\ Cardinality(Active) \in Nat
  BY <1>1, <1>2, SetsFinite DEF Active
<1>6. CASE turnCtx = "cancelled"
  <2>1. run' = [run EXCEPT !.results = Append(@, "cancelled"), !.begun = run.begun
        \cup {i}, !.spawning = run.spawning]
    BY <1>1, <1>6 DEF Agents!BeginMember, Agents!AgentEnd, RunType
  <2>2. /\ run' \in RunType /\ Len(run'.results) = Len(run.results) + 1 /\ run'.begun = run.begun \cup {i}
        /\ run'.spawning = run.spawning /\ run'.at = "running"
    <3>1. "cancelled" \in Outcome /\ run.begun \cup {i} \in SUBSET (1 .. Members)
          /\ run.spawning \in SUBSET (1 .. Members)
      BY <1>1 DEF RunType, Outcome
    <3>2. QED
      BY <1>1, <1>2, <2>1, <3>1, ResultAdded
  <2>3. RunInv'
    BY <1>1, <1>2, <1>3, <1>4, <1>5, <2>2, RunGoesOn DEF RunInv
  <2>4. QED
    BY <1>1, <1>2, <2>2, <2>3 DEF AgentsInv, AgentsTypeInv, DepthInv
<1>7. CASE turnCtx # "cancelled"
  <2>1. run' = [run EXCEPT !.begun = @ \cup {i}, !.spawning = @ \cup {i}]
    BY <1>1, <1>7 DEF Agents!BeginMember
  <2>2. /\ run' \in RunType /\ run'.results = run.results /\ run'.begun = run.begun \cup {i}
        /\ run'.spawning = run.spawning \cup {i} /\ run'.at = "running"
    BY <1>1, <1>2, <2>1 DEF RunType
  <2>3. RunInv'
    BY <1>1, <1>2, <1>3, <1>4, <1>5, <2>2, RunGoesOn DEF RunInv
  <2>4. QED
    BY <1>1, <1>2, <2>2, <2>3 DEF AgentsInv, AgentsTypeInv, DepthInv
<1>8. QED
  BY <1>6, <1>7

LEMMA SpawnStep ==
    ASSUME AgentsInv, NEW i \in 1 .. Members, Agents!SpawnMember(i)
    PROVE  AgentsInv'
<1>1. /\ AgentsTypeInv /\ DepthInv /\ RunInv /\ run \in RunType /\ Len(run.results) \in Nat /\ i \in Nat \ {0}
      /\ DOMAIN wait = 1 .. Len(wait) /\ Len(wait) \in Nat /\ 1 \in DOMAIN sess /\ sess[1].stored
      /\ Cardinality(run.begun) \in Nat
  <2>1. i \in Nat \ {0}
    BY MembersAssumption
  <2>2. QED
    BY <2>1, RunTyped
<1>2. run.at = "running" /\ i \in run.spawning
  BY DEF Agents!SpawnMember
<1>3. Cardinality(run.spawning \ {i}) = Cardinality(run.spawning) - 1 /\ Cardinality(run.spawning) \in Nat
      /\ Cardinality(run.begun) \in Nat
  <2>1. IsFiniteSet(run.spawning) /\ Cardinality(run.spawning) \in Nat
    BY <1>1, SetsFinite
  <2>2. Cardinality(run.spawning \ {i}) = Cardinality(run.spawning) - 1
    BY <1>2, <2>1, FS_RemoveElement
  <2>3. QED
    BY <1>1, <2>1, <2>2
<1>4. Cardinality(Active) \in Nat /\ IsFiniteSet(Active)
  BY <1>1, SetsFinite
<1>5. CASE Agents!Invoke(1, i) /\ run' = [run EXCEPT !.spawning = @ \ {i}]
  <2>1. PICK x \in WaitType : x.member = i /\ x.at = "register" /\ wait' = Append(wait, x)
    BY <1>1, <1>5, InvokeStep
  <2>2. AgentsTypeInv' /\ DepthInv'
    <3>1. run' \in RunType
      BY <1>1, <1>5 DEF RunType
    <3>2. QED
      BY <1>1, <1>5, <3>1, InvokeStep DEF AgentsTypeInv
  <2>3. /\ DOMAIN wait' = DOMAIN wait \cup {Len(wait) + 1} /\ Len(wait) + 1 \notin DOMAIN wait
        /\ wait'[Len(wait) + 1] = x /\ \A w \in DOMAIN wait : wait'[w] = wait[w]
    BY <1>1, <2>1 DEF AgentsTypeInv
  <2>4. Active' = Active \cup {Len(wait) + 1} /\ Len(wait) + 1 \notin Active
    BY <1>1, <2>1, <2>3 DEF Active
  <2>5. Cardinality(Active') = Cardinality(Active) + 1
    BY <1>4, <2>4, FS_AddElement
  <2>6. /\ run'.results = run.results /\ run'.begun = run.begun /\ run'.spawning = run.spawning \ {i}
        /\ run'.at = "running"
    BY <1>1, <1>2, <1>5 DEF RunType
  <2>7. RunInv'
    <3>1. \A w \in DOMAIN wait' : wait'[w].at = "member" => wait'[w].member # 0
      BY <1>1, <2>1, <2>3 DEF RunInv
    <3>2. Len(run.results) + Cardinality(run.spawning) + Cardinality(Active) = Cardinality(run.begun)
      BY <1>1, <1>2 DEF RunInv
    <3>3. QED
      BY <1>1, <1>2, <1>3, <1>4, <2>5, <2>6, <3>1, <3>2, RunGoesOn DEF RunInv
  <2>8. QED
    BY <2>2, <2>7 DEF AgentsInv
<1>6. CASE run' = [Agents!AgentEnd("failed") EXCEPT !.spawning = @ \ {i}] /\ UNCHANGED <<sess, wait>>
  <2>1. run' = [run EXCEPT !.results = Append(@, "failed"), !.begun = run.begun, !.spawning = run.spawning \ {i}]
    BY <1>1, <1>6 DEF Agents!AgentEnd, RunType
  <2>2. /\ run' \in RunType /\ Len(run'.results) = Len(run.results) + 1 /\ run'.begun = run.begun
        /\ run'.spawning = run.spawning \ {i} /\ run'.at = "running"
    <3>1. "failed" \in Outcome /\ run.begun \in SUBSET (1 .. Members)
          /\ run.spawning \ {i} \in SUBSET (1 .. Members)
      BY <1>1 DEF RunType, Outcome
    <3>2. QED
      BY <1>1, <1>2, <2>1, <3>1, ResultAdded
  <2>3. Active' = Active
    BY <1>6 DEF Active
  <2>4. RunInv'
    <3>1. \A w \in DOMAIN wait' : wait'[w].at = "member" => wait'[w].member # 0
      BY <1>1, <1>6 DEF RunInv
    <3>2. Len(run.results) + Cardinality(run.spawning) + Cardinality(Active) = Cardinality(run.begun)
      BY <1>1, <1>2 DEF RunInv
    <3>3. QED
      BY <1>1, <1>2, <1>3, <1>4, <2>2, <2>3, <3>1, <3>2, RunGoesOn DEF RunInv
  <2>5. QED
    BY <1>1, <1>6, <2>2, <2>4 DEF AgentsInv, AgentsTypeInv, DepthInv
<1>7. QED
  BY <1>5, <1>6 DEF Agents!SpawnMember

LEMMA EndStep ==
    ASSUME AgentsInv, NEW w \in Agents!Waits, Agents!EndMember(w)
    PROVE  AgentsInv'
<1>1. /\ AgentsTypeInv /\ DepthInv /\ RunInv /\ run \in RunType /\ Len(run.results) \in Nat
      /\ DOMAIN wait = 1 .. Len(wait) /\ Len(wait) \in Nat /\ w \in DOMAIN wait /\ wait[w] \in WaitType
      /\ Cardinality(run.begun) \in Nat
  BY RunTyped DEF Agents!Waits
<1>2. wait[w].at = "member" /\ wait' = [wait EXCEPT ![w].at = "done"] /\ sess' = sess
  BY DEF Agents!EndMember
<1>3. w \in Active /\ run.at = "running"
  BY <1>1, <1>2 DEF Active, RunInv
<1>4. PICK o \in Outcome : run' = [run EXCEPT !.results = Append(@, o), !.begun = run.begun, !.spawning = run.spawning]
  <2>1. PICK o \in Outcome : run' = Agents!AgentEnd(o)
    BY DEF Agents!EndMember, Outcome
  <2>2. QED
    BY <1>1, <2>1 DEF Agents!AgentEnd, RunType
<1>5. /\ run' \in RunType /\ Len(run'.results) = Len(run.results) + 1 /\ run'.begun = run.begun
      /\ run'.spawning = run.spawning /\ run'.at = "running"
  <2>1. run.begun \in SUBSET (1 .. Members) /\ run.spawning \in SUBSET (1 .. Members)
    BY <1>1 DEF RunType
  <2>2. QED
    BY <1>1, <1>3, <1>4, <2>1, ResultAdded
<1>6. /\ wait' \in Seq(WaitType) /\ DOMAIN wait' = DOMAIN wait
      /\ \A v \in DOMAIN wait : wait'[v].child = wait[v].child /\ wait'[v].member = wait[v].member
      /\ wait'[w].at = "done" /\ \A v \in DOMAIN wait : v # w => wait'[v] = wait[v]
  <2> DEFINE e == [wait[w] EXCEPT !.at = "done"]
  <2>1. e \in WaitType /\ e.child = wait[w].child /\ e.member = wait[w].member /\ e.at = "done"
    BY <1>1 DEF WaitType, Places
  <2>2. wait' = [wait EXCEPT ![w] = e]
    BY <1>1, <1>2
  <2> HIDE DEF e
  <2>3. QED
    BY <1>1, <2>1, <2>2 DEF AgentsTypeInv
<1>7. Active' = Active \ {w}
  BY <1>1, <1>6 DEF Active
<1>8. Cardinality(Active') = Cardinality(Active) - 1
  BY <1>1, <1>3, <1>7, SetsFinite, FS_RemoveElement
<1>9. /\ Cardinality(Active) \in Nat /\ Cardinality(run.spawning) \in Nat /\ Cardinality(run.begun) \in Nat
      /\ Len(run.results) \in Nat
  BY <1>1, SetsFinite
<1>10. RunInv'
  <2>1. \A v \in DOMAIN wait' : wait'[v].at = "member" => wait'[v].member # 0
    BY <1>1, <1>6 DEF RunInv
  <2>2. Len(run.results) + Cardinality(run.spawning) + Cardinality(Active) = Cardinality(run.begun)
    BY <1>1, <1>3 DEF RunInv
  <2>3. QED
    <3>1. Len(run'.results) + Cardinality(run'.spawning) + Cardinality(Active') = Cardinality(run'.begun)
      <4>1. Len(run.results) + 1 + Cardinality(run.spawning) + (Cardinality(Active) - 1) = Cardinality(run.begun)
        BY <1>1, <1>9, <2>2
      <4>2. QED
        BY <1>5, <1>8, <4>1
    <3>2. run'.at = "running" /\ run'.spawning \subseteq run'.begun
      BY <1>1, <1>5 DEF RunInv
    <3>3. QED
      BY <1>1, <2>1, <3>1, <3>2, RunGoesOn
<1>11. AgentsTypeInv' /\ DepthInv'
  BY <1>1, <1>2, <1>5, <1>6 DEF AgentsTypeInv, DepthInv
<1>12. QED
  BY <1>10, <1>11 DEF AgentsInv
(* The stop reason does not depend on the order of the outcomes.            *)
LEMMA StopIsReason ==
    ASSUME NEW q \in Seq(Outcome)
    PROVE  Agents!RunStop(q) = Reason(q)
<1> DEFINE T == {"cancelled", "error", "completed"}
           step == [i \in Nat |-> [t \in T |-> IF i \in 1 .. Len(q) THEN Agents!SettleRun(t, q[i]) ELSE t]]
           stop == CHOOSE F : F = [i \in 0 .. Len(q) |-> IF i = 0 THEN "completed"
           ELSE Agents!SettleRun(F[i - 1], q[i])]
           Is(i) == IF \E j \in 1 .. i : q[j] = "cancelled" THEN "cancelled"
                    ELSE IF \E j \in 1 .. i : q[j] = "failed" THEN "error" ELSE "completed"
<1>1. Len(q) \in Nat /\ DOMAIN q = 1 .. Len(q) /\ \A i \in 1 .. Len(q) : q[i] \in Outcome
  OBVIOUS
<1>2. step \in [Nat -> [T -> T]]
  BY DEF Agents!SettleRun
<1>3. PICK F : IsLoop(F, "completed", step, Len(q)) /\ \A i \in 0 .. Len(q) : F[i] \in T
  <2>1. "completed" \in T
    OBVIOUS
  <2> HIDE DEF T, step
  <2>2. QED
    BY <1>1, <1>2, <2>1, LoopRuns
<1>4. F = [i \in 0 .. Len(q) |-> IF i = 0 THEN "completed" ELSE Agents!SettleRun(F[i - 1], q[i])]
  <2>1. F[0] = "completed"
    BY <1>3 DEF IsLoop
  <2>2. ASSUME NEW i \in 0 .. Len(q), i # 0 PROVE F[i] = Agents!SettleRun(F[i - 1], q[i])
    <3>1. i \in 1 .. Len(q) /\ i - 1 \in 0 .. Len(q) /\ i \in Nat
      BY <1>1, <2>2
    <3>2. F[i] = step[i][F[i - 1]] /\ F[i - 1] \in T
      BY <1>3, <3>1, Zenon DEF IsLoop
    <3>3. QED
      BY <3>1, <3>2
  <2>3. F = [i \in 0 .. Len(q) |-> F[i]]
    BY <1>3, Zenon DEF IsLoop
  <2>4. [i \in 0 .. Len(q) |-> F[i]] = [i \in 0 .. Len(q) |-> IF i = 0 THEN "completed"
        ELSE Agents!SettleRun(F[i - 1], q[i])]
    <3> HIDE DEF step, T
    <3> QED BY <2>1, <2>2, Zenon
  <2>5. QED
    BY <2>3, <2>4, Zenon
<1>5. stop = [i \in 0 .. Len(q) |-> IF i = 0 THEN "completed" ELSE Agents!SettleRun(stop[i - 1], q[i])]
  BY <1>4, Zenon
<1>6. Agents!RunStop(q) = stop[Len(q)]
  BY DEF Agents!RunStop
<1> HIDE DEF stop, step
<1> DEFINE A == {n \in Nat : n <= Len(q) => stop[n] = Is(n)}
<1>7. A = Nat
  <2>1. 0 \in A
    BY <1>1, <1>5
  <2>2. ASSUME NEW n \in A PROVE n + 1 \in A
    <3>1. n \in Nat
      OBVIOUS
    <3>2. CASE n + 1 <= Len(q)
      <4>1. n + 1 \in 1 .. Len(q) /\ n + 1 \in 0 .. Len(q) /\ n + 1 # 0 /\ (n + 1) - 1 = n /\ n <= Len(q)
        BY <1>1, <3>1, <3>2
      <4>2. stop[n + 1] = Agents!SettleRun(stop[n], q[n + 1])
        BY <1>5, <4>1
      <4>3. stop[n] = Is(n)
        BY <4>1
      <4>4. \A j \in 1 .. n + 1 : j \in 1 .. n \/ j = n + 1
        BY <3>1
      <4>5. 1 .. n \subseteq 1 .. n + 1
        BY <3>1
      <4>6. q[n + 1] \in Outcome
        BY <1>1, <4>1
      <4>7. Agents!SettleRun(Is(n), q[n + 1]) = Is(n + 1)
        BY <4>1, <4>4, <4>5, <4>6 DEF Agents!SettleRun, Outcome
      <4>8. QED
        BY <3>1, <4>2, <4>3, <4>7
    <3>3. CASE ~(n + 1 <= Len(q))
      BY <3>1, <3>3
    <3>4. QED
      BY <3>2, <3>3
  <2> HIDE DEF A
  <2>3. A \in SUBSET Nat
    BY DEF A
  <2>4. QED
    BY <2>1, <2>2, <2>3, SetInduction
<1>8. stop[Len(q)] = Is(Len(q))
  BY <1>1, <1>7
<1>9. QED
  BY <1>1, <1>6, <1>8 DEF Reason

LEMMA NoRunTyped == Agents!NoRun \in RunType
<1> DEFINE e == <<>>
<1>1. e \in Seq(Outcome)
  OBVIOUS
<1>2. Agents!NoRun = [at |-> "none", results |-> e, begun |-> {}, spawning |-> {}, stop |-> ""]
  BY DEF Agents!NoRun
<1> HIDE DEF e
<1>3. QED
  BY <1>1, <1>2 DEF RunType

LEMMA OtherStep ==
    ASSUME AgentsInv, Agents!AbortTurn \/ Agents!ListSubagents \/ Agents!RunStart \/ Agents!RunEnd
           \/ Agents!Restart \/ UNCHANGED Agents!vars
    PROVE  AgentsInv'
<1>1. AgentsTypeInv /\ DepthInv /\ RunInv /\ run \in RunType /\ Len(run.results) \in Nat
  BY RunTyped
<1>2. CASE Agents!AbortTurn \/ Agents!ListSubagents \/ UNCHANGED Agents!vars
  BY <1>2 DEF Agents!AbortTurn, Agents!ListSubagents, Agents!vars, AgentsInv, AgentsTypeInv, DepthInv, RunInv,
     Active, Agents!NoRun, Reason
<1>3. CASE Agents!RunStart
  <2>1. run = Agents!NoRun /\ run' = [run EXCEPT !.at = "running"] /\ sess' = sess /\ wait' = wait /\ Active = {}
    BY <1>1, <1>3 DEF Agents!RunStart, RunInv
  <2>2. run' \in RunType /\ run'.at = "running" /\ run'.begun = {} /\ run'.spawning = {} /\ run'.results = <<>>
    BY <1>1, <2>1 DEF RunType, Agents!NoRun
  <2>3. Active' = {}
    BY <2>1 DEF Active
  <2>4. Len(run'.results) + Cardinality(run'.spawning) + Cardinality(Active') = Cardinality(run'.begun)
    BY <2>2, <2>3, FS_EmptySet
  <2>5. RunInv'
    BY <1>1, <2>1, <2>2, <2>4, RunGoesOn DEF RunInv
  <2>6. QED
    BY <1>1, <2>1, <2>2, <2>5 DEF AgentsInv, AgentsTypeInv, DepthInv
<1>4. CASE Agents!RunEnd
  <2>1. run.at = "running" /\ Len(run.results) = Members /\ sess' = sess /\ wait' = wait
        /\ run' = [run EXCEPT !.at = "done", !.stop = Agents!RunStop(run.results)]
    BY <1>4 DEF Agents!RunEnd
  <2>2. run.results \in Seq(Outcome)
    BY <1>1 DEF RunType
  <2>3. Agents!RunStop(run.results) = Reason(run.results)
    BY <2>2, StopIsReason
  <2>4. Reason(run.results) \in {"", "cancelled", "error", "completed"}
    BY DEF Reason
  <2>5. run' \in RunType /\ run'.at = "done" /\ run'.results = run.results /\ run'.stop = Reason(run.results)
        /\ run'.spawning = run.spawning /\ run'.begun = run.begun
    BY <1>1, <2>1, <2>3, <2>4 DEF RunType
  <2>6. Active = {}
    <3>1. Len(run.results) + Cardinality(run.spawning) + Cardinality(Active) = Cardinality(run.begun)
      BY <1>1, <2>1 DEF RunInv
    <3>2. Cardinality(run.begun) <= Members /\ Cardinality(run.spawning) \in Nat /\ Cardinality(Active) \in Nat
          /\ IsFiniteSet(Active) /\ Cardinality(run.begun) \in Nat
      BY <1>1, SetsFinite, MembersAssumption
    <3>3. Cardinality(Active) = 0
      BY <2>1, <3>1, <3>2, MembersAssumption
    <3>4. QED
      BY <3>2, <3>3, FS_EmptySet
  <2>7. Active' = {}
    BY <2>1, <2>6 DEF Active
  <2>8. RunInv'
    BY <1>1, <2>1, <2>5, <2>7 DEF RunInv
  <2>9. QED
    BY <1>1, <2>1, <2>5, <2>8 DEF AgentsInv, AgentsTypeInv, DepthInv
<1>5. CASE Agents!Restart
  <2>1. /\ sess' = [s \in Agents!Sessions |-> [sess[s] EXCEPT !.alive = FALSE, !.turning = FALSE, !.inbox = 0]]
        /\ wait' = [w \in Agents!Waits |-> [wait[w] EXCEPT !.at = IF @ = "done" THEN @ ELSE "lost"]]
        /\ run' = Agents!NoRun
    BY <1>5 DEF Agents!Restart
  <2>2. /\ Len(sess) \in Nat /\ DOMAIN sess = 1 .. Len(sess) /\ Agents!Sessions = 1 .. Len(sess)
        /\ \A s \in Agents!Sessions : sess[s] \in SessionType
        /\ Len(wait) \in Nat /\ DOMAIN wait = 1 .. Len(wait) /\ Agents!Waits = 1 .. Len(wait)
        /\ \A w \in Agents!Waits : wait[w] \in WaitType
    BY <1>1 DEF AgentsTypeInv, Agents!Sessions, Agents!Waits
  <2>3. /\ DOMAIN sess' = DOMAIN sess
        /\ \A s \in DOMAIN sess : /\ sess'[s] \in SessionType /\ sess'[s].parent = sess[s].parent
                                  /\ sess'[s].depth = sess[s].depth /\ sess'[s].stored = sess[s].stored
                                  /\ ~sess'[s].turning
    BY <2>1, <2>2 DEF SessionType
  <2>4. sess' \in Seq(SessionType) /\ Len(sess') = Len(sess)
    <3>1. sess' \in [1 .. Len(sess) -> SessionType]
      BY <2>1, <2>2, <2>3
    <3>2. QED
      BY <2>2, <3>1
  <2>5. /\ DOMAIN wait' = DOMAIN wait
        /\ \A w \in DOMAIN wait : /\ wait'[w] \in WaitType /\ wait'[w].member = wait[w].member
                                  /\ wait'[w].child = wait[w].child /\ wait'[w].at \in {"done", "lost"}
    BY <2>1, <2>2 DEF WaitType, Places
  <2>6. wait' \in Seq(WaitType)
    <3>1. wait' \in [1 .. Len(wait) -> WaitType]
      BY <2>1, <2>2, <2>5
    <3>2. QED
      BY <2>2, <3>1
  <2>7. DepthInv'
    BY <1>1, <2>3, TreeKept
  <2>8. Active' = {}
    BY <2>5 DEF Active
  <2>9. RunInv'
    BY <2>1, <2>5, <2>8 DEF RunInv, Agents!NoRun
  <2>10. AgentsTypeInv'
    <3>1. run' \in RunType
      BY <2>1, NoRunTyped
    <3>2. QED
      BY <1>1, <2>2, <2>3, <2>4, <2>5, <2>6, <3>1 DEF AgentsTypeInv
  <2>11. QED
    BY <2>7, <2>9, <2>10 DEF AgentsInv
<1>6. QED
  BY <1>2, <1>3, <1>4, <1>5

LEMMA AgentsInit == Agents!Init => AgentsInv
<1> SUFFICES ASSUME Agents!Init PROVE AgentsInv
  OBVIOUS
<1> DEFINE root == [parent |-> 0, depth |-> 0, alive |-> TRUE, turning |-> TRUE, inbox |-> 0, stored |-> TRUE]
<1>1. sess = <<root>> /\ wait = <<>> /\ run = Agents!NoRun
  BY DEF Agents!Init
<1>2. root \in SessionType /\ root.stored /\ root.depth = 0
  BY DEF SessionType
<1> HIDE DEF root
<1>3. sess \in Seq(SessionType) /\ Len(sess) = 1 /\ DOMAIN sess = {1} /\ sess[1] = root
  BY <1>1, <1>2
<1>4. run \in RunType
  BY <1>1, NoRunTyped
<1>5. Active = {} /\ wait \in Seq(WaitType) /\ DOMAIN wait = {}
  BY <1>1 DEF Active
<1>6. AgentsTypeInv
  BY <1>3, <1>4, <1>5 DEF AgentsTypeInv
<1>7. DepthInv
  BY <1>2, <1>3 DEF DepthInv
<1>8. RunInv
  BY <1>1, <1>5 DEF RunInv, Agents!NoRun
<1>9. QED
  BY <1>6, <1>7, <1>8 DEF AgentsInv

(* A child is one deeper than its parent and within MaxDepth (parentHeader  *)
(* and resolveChildDepth of subagent/manager.go), and a workflow that ended *)
(* has settled each member and says cancelled, error or completed whatever  *)
(* order they ended in.                                                     *)
THEOREM ChildrenAreAccounted == Agents!Spec => []ChildrenAccounted
<1>1. Agents!Init => AgentsInv
  BY AgentsInit
<1>2. AgentsInv /\ [Agents!Next]_Agents!vars => AgentsInv'
  <2> SUFFICES ASSUME AgentsInv, [Agents!Next]_Agents!vars PROVE AgentsInv'
    OBVIOUS
  <2>1. QED
    BY SessionStep, WaitStep, EndStep, BeginStep, SpawnStep, OtherStep DEF Agents!Next
<1>3. AgentsInv => Agents!DepthTrue /\ Agents!RunReason
  <2> SUFFICES ASSUME AgentsInv PROVE Agents!DepthTrue /\ Agents!RunReason
    OBVIOUS
  <2>1. Agents!DepthTrue
    BY DEF AgentsInv, DepthInv, Agents!DepthTrue, Agents!Sessions
  <2>2. Agents!RunReason
    BY DEF AgentsInv, RunInv, Agents!RunReason, Reason, Active, Agents!Waits
  <2>3. QED
    BY <2>1, <2>2
<1>4. QED
  BY <1>1, <1>2, <1>3, PTL DEF Agents!Spec, ChildrenAccounted

-----------------------------------------------------------------------------
(* Compaction: the surface, its cuts and the transaction.                   *)

LogEvent ==
    [type : {"user/message", "assistant/message", "tool/result", "note", "compaction/start", "compaction/summary",
             "compaction/end"},
     op : {"none", "append", "replace"}, calls : Nat, of : Nat \X Nat, first : Nat, last : Nat, sources : SUBSET Nat]

TxType ==
    [pc : {"off", "select", "start", "summarize", "summary", "replace", "end", "close"},
     first : Nat, last : Nat, shadowed : Seq(Nat), begun : Nat, summary : Nat]

(* What the fold keeps.                                                     *)
SurfaceState == [nodes : Seq(Nat), ok : BOOLEAN]

Nodes == Compacting!FoldSurface(surface).nodes

IsResult(s) == surface[s].type = "tool/result"

(* The fold succeeds, and an event is on the surface once.                  *)
SurfaceInv ==
    /\ surface \in Seq(LogEvent)
    /\ Compacting!FoldSurface(surface) \in SurfaceState /\ Compacting!FoldSurface(surface).ok
    /\ Nodes \in Seq(DOMAIN surface)
    /\ \A i, j \in DOMAIN Nodes : Nodes[i] = Nodes[j] => i = j

(* <<s, k>> is a call of an earlier node than the j-th.                     *)
CalledBefore(c, j) == \E i \in 1 .. j - 1 : Nodes[i] = c[1] /\ c[2] \in 1 .. surface[Nodes[i]].calls

(* A result on the surface has its call before it, and no call has two      *)
(* results, on the surface or shadowed.                                     *)
PairedInv ==
    /\ \A j \in DOMAIN Nodes : IsResult(Nodes[j]) => CalledBefore(surface[Nodes[j]].of, j)
    /\ \A s \in DOMAIN surface : IsResult(s) => surface[s].of[1] \in DOMAIN surface
    /\ \A s, t \in DOMAIN surface : IsResult(s) /\ IsResult(t) /\ surface[s].of = surface[t].of => s = t

(* What the running turn owes are calls on the surface without a result.    *)
OwedInv ==
    /\ owed \in Seq(Nat \X Nat)
    /\ owed # <<>> => actor = "turn"
    /\ \A k \in DOMAIN owed :
         /\ CalledBefore(owed[k], Len(Nodes) + 1)
         /\ \A s \in DOMAIN surface : IsResult(s) => surface[s].of # owed[k]
         /\ \A m \in DOMAIN owed : owed[k] = owed[m] => k = m

(* The selected span is the head of the surface up to a balanced cut, and   *)
(* stays it until the checkpoint: only turns append to the surface.         *)
TxInv ==
    /\ tx \in TxType
    /\ actor = "compact" /\ tx.pc \in {"start", "summarize", "summary", "replace"} =>
        \E n \in 1 .. Len(Nodes) :
            /\ tx.shadowed = SubSeq(Nodes, 1, n) /\ tx.first = Nodes[1] /\ tx.last = Nodes[n]
            /\ Compacting!Balanced(surface, Nodes, n + 1)
            /\ tx.pc # "start" => tx.begun \in DOMAIN surface
            /\ tx.pc = "replace" => tx.summary \in DOMAIN surface

(* The surface only changes at its end, and at its head by a checkpoint     *)
(* whose span holds as many results as calls.                               *)
CompactionInv == SurfaceInv /\ PairedInv /\ OwedInv /\ TxInv

(* Two loops that take the same steps agree.                                *)
SameSteps(F, G, n) == F[0] = G[0] /\ \A i \in 1 .. n : F[i - 1] = G[i - 1] => F[i] = G[i]

LEMMA SameLoop ==
    ASSUME NEW F, NEW G, NEW n \in Nat, SameSteps(F, G, n)
    PROVE  \A i \in 0 .. n : F[i] = G[i]
<1> USE DEF SameSteps
<1> DEFINE A == {i \in Nat : i <= n => F[i] = G[i]}
<1>1. 0 \in A
  OBVIOUS
<1>2. ASSUME NEW i \in A PROVE i + 1 \in A
  <2>1. i \in Nat /\ (i <= n => F[i] = G[i])
    OBVIOUS
  <2>2. i + 1 <= n => i + 1 \in 1 .. n /\ (i + 1) - 1 = i /\ i <= n
    BY <2>1
  <2>3. i + 1 <= n => F[i + 1] = G[i + 1]
    BY <2>1, <2>2
  <2>4. QED
    BY <2>1, <2>3
<1>3. A = Nat
  <2>1. A \in SUBSET Nat
    OBVIOUS
  <2> HIDE DEF A
  <2>2. QED
    BY <1>1, <1>2, <2>1, SetInduction
<1>4. ASSUME NEW i \in 0 .. n PROVE F[i] = G[i]
  <2>1. i \in A /\ i <= n
    BY <1>3
  <2>2. QED
    BY <2>1
<1>5. QED
  BY <1>4, Zenon

LEMMA LeastOf ==
    ASSUME NEW S \in SUBSET Nat, S # {}
    PROVE  Compacting!Min(S) \in S /\ \A k \in S : Compacting!Min(S) <= k
<1>1. PICK m \in S : \A k \in S : m <= k
  BY NatMin
<1>2. QED
  BY <1>1 DEF Compacting!Min

LEMMA GreatestOf ==
    ASSUME NEW n \in Nat, NEW S \in SUBSET (1 .. n), S # {}
    PROVE  Compacting!Max(S) \in S
<1> DEFINE B == {n - k : k \in S}
<1>1. B \in SUBSET Nat /\ B # {}
  <2>1. \A k \in S : n - k \in Nat
    OBVIOUS
  <2>2. QED
    BY <2>1, Zenon
<1>2. PICK b \in B : \A k \in B : b <= k
  BY <1>1, NatMin
<1>3. PICK m \in S : b = n - m
  OBVIOUS
<1>4. \A k \in S : n - k \in B
  OBVIOUS
<1>5. \A k \in S : m >= k
  BY <1>2, <1>3, <1>4
<1>6. QED
  BY <1>5 DEF Compacting!Max

LEMMA EventApplied ==
    ASSUME NEW t \in SurfaceState, NEW e \in LogEvent, NEW seq \in Nat
    PROVE  Compacting!ApplySurfaceEvent(t, e, seq) \in SurfaceState
<1>1. t.nodes \in Seq(Nat) /\ t.ok \in BOOLEAN /\ t = [nodes |-> t.nodes, ok |-> t.ok]
  BY DEF SurfaceState
<1>2. CASE e.op = "none"
  BY <1>2 DEF Compacting!ApplySurfaceEvent
<1>3. CASE e.op = "append"
  <2>1. Compacting!ApplySurfaceEvent(t, e, seq) = [t EXCEPT !.nodes = Append(@, seq)]
    BY <1>3 DEF Compacting!ApplySurfaceEvent
  <2>2. Append(t.nodes, seq) \in Seq(Nat)
    BY <1>1
  <2>3. QED
    BY <1>1, <2>1, <2>2 DEF SurfaceState
<1>4. CASE e.op = "replace" /\ ~Compacting!Replaceable(t.nodes, e, seq)
  BY <1>1, <1>4 DEF Compacting!ApplySurfaceEvent, SurfaceState
<1>5. CASE e.op = "replace" /\ Compacting!Replaceable(t.nodes, e, seq)
  <2> DEFINE first == Compacting!Position(t.nodes, e.first)
             last == Compacting!Position(t.nodes, e.last)
             i == Compacting!Min(first)
             j == Compacting!Min(last)
             new == SubSeq(t.nodes, 1, i - 1) \o <<seq>> \o SubSeq(t.nodes, j + 1, Len(t.nodes))
  <2>1. Compacting!ApplySurfaceEvent(t, e, seq) = [t EXCEPT !.nodes = new]
    BY <1>5 DEF Compacting!ApplySurfaceEvent
  <2>2. first # {} /\ last # {} /\ first \subseteq 1 .. Len(t.nodes) /\ last \subseteq 1 .. Len(t.nodes)
    BY <1>1, <1>5 DEF Compacting!Replaceable, Compacting!Position
  <2>3. first \in SUBSET Nat /\ last \in SUBSET Nat
    BY <1>1, <2>2
  <2>4. i \in 1 .. Len(t.nodes) /\ j \in 1 .. Len(t.nodes)
    <3> HIDE DEF first, last
    <3>1. i \in first /\ j \in last
      BY <2>2, <2>3, LeastOf
    <3>2. QED
      BY <2>2, <3>1
  <2> HIDE DEF i, j, first, last
  <2>5. SubSeq(t.nodes, 1, i - 1) \in Seq(Nat) /\ SubSeq(t.nodes, j + 1, Len(t.nodes)) \in Seq(Nat)
    <3>1. /\ 1 \in 1 .. Len(t.nodes) + 1 /\ i - 1 \in 0 .. Len(t.nodes) /\ 1 - 1 = 0
          /\ j + 1 \in 1 .. Len(t.nodes) + 1 /\ Len(t.nodes) \in (j + 1) - 1 .. Len(t.nodes)
      BY <1>1, <2>4
    <3>2. QED
      BY <1>1, <3>1, SubSeqProperties
  <2>6. new \in Seq(Nat)
    BY <2>5
  <2> HIDE DEF new
  <2>7. QED
    BY <1>1, <2>1, <2>6 DEF SurfaceState
<1>6. QED
  BY <1>2, <1>3, <1>4, <1>5 DEF LogEvent

(* The fold of a log is the last of the states a loop over it takes.        *)
IsFold(F, q) ==
    /\ F[0] = [nodes |-> <<>>, ok |-> TRUE]
    /\ \A i \in 1 .. Len(q) :
         F[i] = IF F[i - 1].ok THEN Compacting!ApplySurfaceEvent(F[i - 1], q[i], i) ELSE F[i - 1]

LEMMA FoldExists ==
    ASSUME NEW q \in Seq(LogEvent)
    PROVE  \E F : IsFold(F, q) /\ Compacting!FoldSurface(q) = F[Len(q)]
<1> DEFINE start == [nodes |-> <<>>, ok |-> TRUE]
           one(t, i) == IF t.ok THEN Compacting!ApplySurfaceEvent(t, q[i], i) ELSE t
           step == [i \in Nat |-> [t \in SurfaceState |-> IF i \in 1 .. Len(q) THEN one(t, i) ELSE t]]
           state == CHOOSE F : F = [seq \in 0 .. Len(q) |-> IF seq = 0 THEN start
                        ELSE IF F[seq - 1].ok THEN Compacting!ApplySurfaceEvent(F[seq - 1], q[seq], seq)
                        ELSE F[seq - 1]]
<1>1. Len(q) \in Nat /\ DOMAIN q = 1 .. Len(q) /\ \A i \in 1 .. Len(q) : q[i] \in LogEvent /\ i \in Nat
  OBVIOUS
<1>2. start \in SurfaceState
  BY DEF SurfaceState
<1>3. step \in [Nat -> [SurfaceState -> SurfaceState]]
  BY <1>1, EventApplied
<1>4. PICK F : IsLoop(F, start, step, Len(q)) /\ \A i \in 0 .. Len(q) : F[i] \in SurfaceState
  <2> HIDE DEF start, step
  <2>1. QED
    BY <1>1, <1>2, <1>3, LoopRuns
<1>5. F = [seq \in 0 .. Len(q) |-> IF seq = 0 THEN start
                        ELSE IF F[seq - 1].ok THEN Compacting!ApplySurfaceEvent(F[seq - 1], q[seq], seq)
                        ELSE F[seq - 1]]
  <2>1. F[0] = start
    BY <1>4, Zenon DEF IsLoop
  <2>2. ASSUME NEW i \in 0 .. Len(q), i # 0
        PROVE  F[i] = IF F[i - 1].ok THEN Compacting!ApplySurfaceEvent(F[i - 1], q[i], i) ELSE F[i - 1]
    <3>1. i \in 1 .. Len(q) /\ i - 1 \in 0 .. Len(q) /\ i \in Nat
      BY <1>1, <2>2
    <3>2. F[i] = step[i][F[i - 1]] /\ F[i - 1] \in SurfaceState
      BY <1>4, <3>1, Zenon DEF IsLoop
    <3>3. step[i][F[i - 1]] = one(F[i - 1], i)
      BY <3>1, <3>2
    <3>4. QED
      BY <3>2, <3>3
  <2>3. F = [i \in 0 .. Len(q) |-> F[i]]
    BY <1>4, Zenon DEF IsLoop
  <2> HIDE DEF start, step
  <2>4. [i \in 0 .. Len(q) |-> F[i]] = [seq \in 0 .. Len(q) |-> IF seq = 0 THEN start
                        ELSE IF F[seq - 1].ok THEN Compacting!ApplySurfaceEvent(F[seq - 1], q[seq], seq)
                        ELSE F[seq - 1]]
    BY <2>1, <2>2, Zenon
  <2>5. QED
    BY <2>3, <2>4, Zenon
<1>6. state = [seq \in 0 .. Len(q) |-> IF seq = 0 THEN start
                        ELSE IF state[seq - 1].ok THEN Compacting!ApplySurfaceEvent(state[seq - 1], q[seq], seq)
                        ELSE state[seq - 1]]
  <2> HIDE DEF start
  <2>1. QED
    BY <1>5, Zenon
<1>7. Compacting!FoldSurface(q) = state[Len(q)]
  BY DEF Compacting!FoldSurface
<1> HIDE DEF state, step
<1>8. IsFold(state, q)
  <2>1. state[0] = start
    BY <1>1, <1>6
  <2>2. ASSUME NEW i \in 1 .. Len(q)
        PROVE  state[i] = IF state[i - 1].ok THEN Compacting!ApplySurfaceEvent(state[i - 1], q[i], i) ELSE state[i - 1]
    <3>1. i \in 0 .. Len(q) /\ i # 0
      BY <1>1
    <3>2. QED
      BY <1>6, <3>1, Zenon
  <2>3. QED
    BY <2>1, <2>2 DEF IsFold
<1>9. QED
  BY <1>7, <1>8

LEMMA FoldOfNone == Compacting!FoldSurface(<<>>) = [nodes |-> <<>>, ok |-> TRUE]
<1>1. <<>> \in Seq(LogEvent) /\ Len(<<>>) = 0
  OBVIOUS
<1>2. PICK F : IsFold(F, <<>>) /\ Compacting!FoldSurface(<<>>) = F[Len(<<>>)]
  BY <1>1, FoldExists
<1>3. QED
  BY <1>1, <1>2 DEF IsFold

LEMMA FoldAppended ==
    ASSUME NEW q \in Seq(LogEvent), NEW e \in LogEvent, Compacting!FoldSurface(q).ok
    PROVE  Compacting!FoldSurface(Append(q, e))
             = Compacting!ApplySurfaceEvent(Compacting!FoldSurface(q), e, Len(q) + 1)
<1> DEFINE p == Append(q, e)
           n == Len(q)
<1>1. /\ p \in Seq(LogEvent) /\ n \in Nat /\ Len(p) = n + 1 /\ p[n + 1] = e
      /\ \A i \in 1 .. n : p[i] = q[i] /\ i \in 1 .. n + 1 /\ i - 1 \in 0 .. n
  OBVIOUS
<1> HIDE DEF p
<1>2. PICK F : IsFold(F, q) /\ Compacting!FoldSurface(q) = F[n]
  BY FoldExists
<1>3. PICK G : IsFold(G, p) /\ Compacting!FoldSurface(p) = G[n + 1]
  BY <1>1, FoldExists
<1>4. \A i \in 1 .. n : F[i - 1] = G[i - 1] => F[i] = G[i]
  <2>1. \A i \in 1 .. n : G[i] = IF G[i - 1].ok THEN Compacting!ApplySurfaceEvent(G[i - 1], q[i], i) ELSE G[i - 1]
    BY <1>1, <1>3, Zenon DEF IsFold
  <2>2. \A i \in 1 .. n : F[i] = IF F[i - 1].ok THEN Compacting!ApplySurfaceEvent(F[i - 1], q[i], i) ELSE F[i - 1]
    BY <1>2, Zenon DEF IsFold
  <2>3. ASSUME NEW i \in 1 .. n, F[i - 1] = G[i - 1] PROVE F[i] = G[i]
    <3>1. F[i] = IF F[i - 1].ok THEN Compacting!ApplySurfaceEvent(F[i - 1], q[i], i) ELSE F[i - 1]
      BY <2>2
    <3>2. G[i] = IF G[i - 1].ok THEN Compacting!ApplySurfaceEvent(G[i - 1], q[i], i) ELSE G[i - 1]
      BY <2>1
    <3>3. QED
      BY <2>3, <3>1, <3>2
  <2>4. QED
    BY <2>3, Zenon
<1>5. \A i \in 0 .. n : F[i] = G[i]
  <2>1. F[0] = G[0]
    BY <1>2, <1>3, Zenon DEF IsFold
  <2>2. n \in Nat
    BY <1>1
  <2>3. SameSteps(F, G, n)
    BY <1>4, <2>1, Zenon DEF SameSteps
  <2> HIDE DEF n
  <2>4. QED
    BY <2>2, <2>3, SameLoop
<1>6. F[n] = G[n]
  BY <1>1, <1>5
<1>7. G[n + 1] = IF G[n].ok THEN Compacting!ApplySurfaceEvent(G[n], e, n + 1) ELSE G[n]
  <2>1. n + 1 \in 1 .. Len(p) /\ (n + 1) - 1 = n
    BY <1>1
  <2>2. G[n + 1] = IF G[(n + 1) - 1].ok THEN Compacting!ApplySurfaceEvent(G[(n + 1) - 1], p[n + 1], n + 1)
                   ELSE G[(n + 1) - 1]
    BY <1>3, <2>1, Zenon DEF IsFold
  <2>3. QED
    BY <1>1, <2>1, <2>2
<1>8. QED
  BY <1>2, <1>3, <1>6, <1>7 DEF p

(* The calls in progress at a cut are counted node by node.                 *)
IsCount(F, evs, nodes, n) ==
    /\ F[0] = 0
    /\ \A k \in 1 .. n : F[k] = F[k - 1] + Compacting!EventToolDelta(evs[nodes[k]])

LEMMA CountExists ==
    ASSUME NEW evs \in Seq(LogEvent), NEW nodes \in Seq(DOMAIN evs), NEW i \in 1 .. Len(nodes) + 1
    PROVE  \E F : /\ IsCount(F, evs, nodes, i - 1) /\ \A k \in 0 .. i - 1 : F[k] \in Int
                  /\ Compacting!InProgress(evs, nodes, i) = F[i - 1]
<1> DEFINE delta(k) == Compacting!EventToolDelta(evs[nodes[k]])
           step == [k \in Nat |-> [t \in Int |-> IF k \in 1 .. i - 1 THEN t + delta(k) ELSE t]]
           running == CHOOSE F : F = [k \in 0 .. (i - 1) |-> IF k = 0 THEN 0 ELSE F[k - 1] + delta(k)]
<1>1. i - 1 \in Nat /\ \A k \in 1 .. i - 1 : k \in Nat /\ k \in 1 .. Len(nodes)
  OBVIOUS
<1>2. \A k \in 1 .. i - 1 : delta(k) \in Int
  <2>1. ASSUME NEW k \in 1 .. i - 1 PROVE delta(k) \in Int
    <3>1. nodes[k] \in DOMAIN evs
      BY <1>1
    <3>2. evs[nodes[k]] \in LogEvent
      BY <3>1
    <3>3. evs[nodes[k]].calls \in Nat
      BY <3>2 DEF LogEvent
    <3>4. QED
      BY <3>3 DEF Compacting!EventToolDelta
  <2>2. QED
    BY <2>1
<1>3. step \in [Nat -> [Int -> Int]]
  <2> HIDE DEF delta
  <2>1. QED
    BY <1>2
<1>4. PICK F : IsLoop(F, 0, step, i - 1) /\ \A k \in 0 .. i - 1 : F[k] \in Int
  <2> HIDE DEF step
  <2>1. \A n \in Nat : \E F : IsLoop(F, 0, step, n) /\ \A k \in 0 .. n : F[k] \in Int
    <3> DEFINE T == Int
    <3>1. 0 \in T
      OBVIOUS
    <3>2. step \in [Nat -> [T -> T]]
      BY <1>3, Zenon
    <3> HIDE DEF T
    <3>3. \A n \in Nat : \E F : IsLoop(F, 0, step, n) /\ \A k \in 0 .. n : F[k] \in T
      BY <3>1, <3>2, LoopRuns
    <3>4. QED
      BY <3>3, Zenon DEF T
  <2>2. QED
    BY <1>1, <2>1, Zenon
<1>5. F = [k \in 0 .. (i - 1) |-> IF k = 0 THEN 0 ELSE F[k - 1] + delta(k)]
  <2>1. F[0] = 0
    BY <1>4, Zenon DEF IsLoop
  <2> HIDE DEF delta
  <2>2. ASSUME NEW k \in 0 .. i - 1, k # 0 PROVE F[k] = F[k - 1] + delta(k)
    <3>1. k \in 1 .. i - 1 /\ k - 1 \in 0 .. i - 1 /\ k \in Nat
      BY <1>1, <2>2
    <3>2. F[k] = step[k][F[k - 1]] /\ F[k - 1] \in Int
      BY <1>4, <3>1, Zenon DEF IsLoop
    <3>3. QED
      BY <3>1, <3>2
  <2>3. F = [k \in 0 .. (i - 1) |-> F[k]]
    BY <1>4, Zenon DEF IsLoop
  <2> HIDE DEF step
  <2>4. [k \in 0 .. (i - 1) |-> F[k]] = [k \in 0 .. (i - 1) |-> IF k = 0 THEN 0 ELSE F[k - 1] + delta(k)]
    BY <2>1, <2>2, Zenon
  <2>5. QED
    BY <2>3, <2>4, Zenon
<1>6. running = [k \in 0 .. (i - 1) |-> IF k = 0 THEN 0 ELSE running[k - 1] + delta(k)]
  <2> HIDE DEF delta
  <2>1. QED
    BY <1>5, Zenon
<1>7. Compacting!InProgress(evs, nodes, i) = running[i - 1]
  BY DEF Compacting!InProgress
<1> HIDE DEF running, step, delta
<1>8. running[0] = 0 /\ \A k \in 1 .. i - 1 : running[k] = running[k - 1] + delta(k)
  <2>1. running[0] = 0
    BY <1>1, <1>6
  <2>2. ASSUME NEW k \in 1 .. i - 1 PROVE running[k] = running[k - 1] + delta(k)
    <3>1. k \in 0 .. i - 1 /\ k # 0
      OBVIOUS
    <3>2. QED
      BY <1>6, <3>1, Zenon
  <2>3. QED
    BY <2>1, <2>2
<1>9. SameSteps(running, F, i - 1)
  <2>1. F[0] = 0
    BY <1>4, Zenon DEF IsLoop
  <2>2. ASSUME NEW k \in 1 .. i - 1, running[k - 1] = F[k - 1] PROVE running[k] = F[k]
    <3>1. k \in 0 .. i - 1 /\ k # 0
      OBVIOUS
    <3>2. F[k] = F[k - 1] + delta(k)
      BY <1>5, <3>1, Zenon
    <3>3. QED
      BY <1>8, <2>2, <3>2
  <2>3. QED
    BY <1>8, <2>1, <2>2 DEF SameSteps
<1>10. \A k \in 0 .. i - 1 : running[k] = F[k]
  BY <1>1, <1>9, SameLoop
<1>11. QED
  BY <1>4, <1>7, <1>8, <1>10 DEF IsCount, delta

LEMMA CountSteps ==
    ASSUME NEW evs \in Seq(LogEvent), NEW nodes \in Seq(DOMAIN evs)
    PROVE  /\ Compacting!InProgress(evs, nodes, 1) = 0
           /\ \A k \in 1 .. Len(nodes) :
                /\ Compacting!InProgress(evs, nodes, k) \in Int
                /\ Compacting!InProgress(evs, nodes, k + 1)
                     = Compacting!InProgress(evs, nodes, k) + Compacting!EventToolDelta(evs[nodes[k]])
<1>1. Len(nodes) \in Nat
  OBVIOUS
<1>2. Compacting!InProgress(evs, nodes, 1) = 0
  <2>1. 1 \in 1 .. Len(nodes) + 1 /\ 1 - 1 = 0
    BY <1>1
  <2>2. PICK F : IsCount(F, evs, nodes, 1 - 1) /\ Compacting!InProgress(evs, nodes, 1) = F[1 - 1]
    BY <2>1, CountExists
  <2>3. QED
    BY <2>1, <2>2 DEF IsCount
<1>3. ASSUME NEW k \in 1 .. Len(nodes)
      PROVE  /\ Compacting!InProgress(evs, nodes, k) \in Int
             /\ Compacting!InProgress(evs, nodes, k + 1)
                  = Compacting!InProgress(evs, nodes, k) + Compacting!EventToolDelta(evs[nodes[k]])
  <2>1. k \in 1 .. Len(nodes) + 1 /\ k + 1 \in 1 .. Len(nodes) + 1 /\ (k + 1) - 1 = k /\ k - 1 \in Nat /\ k \in Nat
    BY <1>1
  <2>2. PICK F : /\ IsCount(F, evs, nodes, k - 1) /\ \A j \in 0 .. k - 1 : F[j] \in Int
                 /\ Compacting!InProgress(evs, nodes, k) = F[k - 1]
    BY <2>1, CountExists
  <2>3. PICK G : /\ IsCount(G, evs, nodes, (k + 1) - 1)
                 /\ Compacting!InProgress(evs, nodes, k + 1) = G[(k + 1) - 1]
    BY <2>1, CountExists
  <2>4. /\ \A j \in 1 .. k - 1 : j \in 1 .. k
        /\ IsCount(G, evs, nodes, k) /\ Compacting!InProgress(evs, nodes, k + 1) = G[k]
    BY <2>1, <2>3
  <2>5. SameSteps(F, G, k - 1)
    <3>1. F[0] = G[0]
      BY <2>2, <2>4, Zenon DEF IsCount
    <3>2. ASSUME NEW j \in 1 .. k - 1, F[j - 1] = G[j - 1] PROVE F[j] = G[j]
      BY <2>2, <2>4, <3>2, Zenon DEF IsCount
    <3>3. QED
      BY <3>1, <3>2 DEF SameSteps
  <2>6. F[k - 1] = G[k - 1]
    BY <2>1, <2>5, SameLoop
  <2>7. G[k] = G[k - 1] + Compacting!EventToolDelta(evs[nodes[k]])
    BY <2>1, <2>4 DEF IsCount
  <2>8. QED
    BY <2>1, <2>2, <2>4, <2>6, <2>7
<1>4. QED
  BY <1>2, <1>3

(* What is appended to the log leaves the counts of its nodes alone.        *)
LEMMA CountKept ==
    ASSUME NEW evs \in Seq(LogEvent), NEW e \in LogEvent, NEW nodes \in Seq(DOMAIN evs),
           NEW i \in 1 .. Len(nodes) + 1
    PROVE  Compacting!InProgress(Append(evs, e), nodes, i) = Compacting!InProgress(evs, nodes, i)
<1> DEFINE longer == Append(evs, e)
<1>1. /\ longer \in Seq(LogEvent) /\ i - 1 \in Nat
      /\ \A s \in DOMAIN evs : longer[s] = evs[s] /\ s \in DOMAIN longer
  OBVIOUS
<1> HIDE DEF longer
<1>2. nodes \in Seq(DOMAIN longer)
  BY <1>1
<1>3. PICK F : IsCount(F, evs, nodes, i - 1) /\ Compacting!InProgress(evs, nodes, i) = F[i - 1]
  BY CountExists
<1>4. PICK G : IsCount(G, longer, nodes, i - 1) /\ Compacting!InProgress(longer, nodes, i) = G[i - 1]
  BY <1>1, <1>2, CountExists
<1>5. SameSteps(F, G, i - 1)
  <2>1. F[0] = G[0]
    BY <1>3, <1>4, Zenon DEF IsCount
  <2>2. ASSUME NEW k \in 1 .. i - 1, F[k - 1] = G[k - 1] PROVE F[k] = G[k]
    <3>1. nodes[k] \in DOMAIN evs
      OBVIOUS
    <3>2. longer[nodes[k]] = evs[nodes[k]]
      BY <1>1, <3>1
    <3>3. /\ F[k] = F[k - 1] + Compacting!EventToolDelta(evs[nodes[k]])
          /\ G[k] = G[k - 1] + Compacting!EventToolDelta(longer[nodes[k]])
      BY <1>3, <1>4, Zenon DEF IsCount
    <3>4. QED
      BY <2>2, <3>2, <3>3
  <2>3. QED
    BY <2>1, <2>2 DEF SameSteps
<1>6. F[i - 1] = G[i - 1]
  BY <1>1, <1>5, SameLoop
<1>7. QED
  BY <1>3, <1>4, <1>6 DEF longer

(* The calls of the first m nodes, and those their results answer.          *)
CallsOf(m) == {c \in Nat \X Nat : CalledBefore(c, m + 1)}
AnsweredBy(m) == {surface[Nodes[j]].of : j \in {j \in 1 .. m : IsResult(Nodes[j])}}

LEMMA NodesOf ==
    ASSUME SurfaceInv
    PROVE  /\ Len(Nodes) \in Nat /\ DOMAIN Nodes = 1 .. Len(Nodes)
           /\ Len(surface) \in Nat /\ DOMAIN surface = 1 .. Len(surface)
           /\ \A i \in 1 .. Len(Nodes) : Nodes[i] \in 1 .. Len(surface) /\ surface[Nodes[i]] \in LogEvent
           /\ \A s \in 1 .. Len(surface) : surface[s].of \in Nat \X Nat /\ surface[s].calls \in Nat
<1>1. /\ Len(Nodes) \in Nat /\ DOMAIN Nodes = 1 .. Len(Nodes) /\ \A i \in 1 .. Len(Nodes) : Nodes[i] \in DOMAIN surface
  BY DEF SurfaceInv
<1>2. /\ Len(surface) \in Nat /\ DOMAIN surface = 1 .. Len(surface) /\ \A s \in 1 .. Len(surface) : surface[s] \in LogEvent
  BY DEF SurfaceInv
<1>3. \A s \in 1 .. Len(surface) : surface[s].of \in Nat \X Nat /\ surface[s].calls \in Nat
  BY <1>2 DEF LogEvent
<1>4. QED
  BY <1>1, <1>2, <1>3

LEMMA CallsOfNext ==
    ASSUME SurfaceInv, NEW m \in Nat, m + 1 <= Len(Nodes)
    PROVE  /\ CallsOf(m + 1) = CallsOf(m) \cup ({Nodes[m + 1]} \X (1 .. surface[Nodes[m + 1]].calls))
           /\ CallsOf(m) \cap ({Nodes[m + 1]} \X (1 .. surface[Nodes[m + 1]].calls)) = {}
<1> DEFINE s == Nodes[m + 1]
           new == {s} \X (1 .. surface[s].calls)
<1>1. /\ m + 1 \in 1 .. Len(Nodes) /\ s \in Nat /\ surface[s].calls \in Nat /\ m \in Nat
      /\ \A i \in 1 .. m : i \in 1 .. Len(Nodes) /\ i # m + 1 /\ i \in 1 .. m + 1
      /\ \A i \in 1 .. m + 1 : i \in 1 .. m \/ i = m + 1
  BY NodesOf
<1>2. \A i \in 1 .. m : Nodes[i] # s
  BY <1>1, NodesOf DEF SurfaceInv
<1>3. \A c \in Nat \X Nat : c \in new <=> (s = c[1] /\ c[2] \in 1 .. surface[s].calls)
  <2>1. ASSUME NEW c \in Nat \X Nat PROVE c \in new <=> (s = c[1] /\ c[2] \in 1 .. surface[s].calls)
    <3>1. c = <<c[1], c[2]>>
      OBVIOUS
    <3>2. c \in new <=> (c[1] \in {s} /\ c[2] \in 1 .. surface[s].calls)
      BY <3>1
    <3>3. QED
      BY <3>2
  <2>2. QED
    BY <2>1
<1>4. new \subseteq Nat \X Nat
  BY <1>1
<1>5. /\ \A c \in Nat \X Nat : CalledBefore(c, m + 1) <=>
           \E i \in 1 .. m : Nodes[i] = c[1] /\ c[2] \in 1 .. surface[Nodes[i]].calls
      /\ \A c \in Nat \X Nat : CalledBefore(c, (m + 1) + 1) <=>
           \E i \in 1 .. m + 1 : Nodes[i] = c[1] /\ c[2] \in 1 .. surface[Nodes[i]].calls
  <2>1. 1 .. (m + 1) - 1 = 1 .. m /\ 1 .. ((m + 1) + 1) - 1 = 1 .. m + 1
    OBVIOUS
  <2>2. QED
    BY <2>1, Zenon DEF CalledBefore
<1> HIDE DEF new
<1>6. \A c \in Nat \X Nat : CalledBefore(c, (m + 1) + 1) <=> CalledBefore(c, m + 1) \/ c \in new
  <2>1. ASSUME NEW c \in Nat \X Nat, CalledBefore(c, (m + 1) + 1) PROVE CalledBefore(c, m + 1) \/ c \in new
    <3>1. PICK i \in 1 .. m + 1 : Nodes[i] = c[1] /\ c[2] \in 1 .. surface[Nodes[i]].calls
      BY <1>5, <2>1
    <3>2. CASE i \in 1 .. m
      BY <1>5, <3>1, <3>2
    <3>3. CASE i = m + 1
      BY <1>3, <3>1, <3>3
    <3>4. QED
      BY <1>1, <3>2, <3>3
  <2>2. ASSUME NEW c \in Nat \X Nat, CalledBefore(c, m + 1) PROVE CalledBefore(c, (m + 1) + 1)
    BY <1>1, <1>5, <2>2, Zenon
  <2>3. ASSUME NEW c \in Nat \X Nat, c \in new PROVE CalledBefore(c, (m + 1) + 1)
    <3>1. m + 1 \in 1 .. m + 1
      BY <1>1
    <3>2. QED
      BY <1>3, <1>5, <2>3, <3>1
  <2>4. QED
    BY <2>1, <2>2, <2>3
<1>7. CallsOf(m + 1) = CallsOf(m) \cup new
  BY <1>4, <1>6 DEF CallsOf
<1>8. \A c \in CallsOf(m) : c \notin new
  BY <1>2, <1>3, <1>5 DEF CallsOf
<1>9. QED
  BY <1>7, <1>8 DEF new

LEMMA AnsweredByNext ==
    ASSUME SurfaceInv, PairedInv, NEW m \in Nat, m + 1 <= Len(Nodes)
    PROVE  IF IsResult(Nodes[m + 1])
           THEN /\ AnsweredBy(m + 1) = AnsweredBy(m) \cup {surface[Nodes[m + 1]].of}
                /\ surface[Nodes[m + 1]].of \notin AnsweredBy(m)
           ELSE AnsweredBy(m + 1) = AnsweredBy(m)
<1>1. /\ m + 1 \in 1 .. Len(Nodes)
      /\ \A j \in 1 .. m : j \in 1 .. Len(Nodes) /\ j # m + 1 /\ j \in 1 .. m + 1
      /\ \A j \in 1 .. m + 1 : j \in 1 .. m \/ j = m + 1
      /\ m + 1 \in 1 .. m + 1
  BY NodesOf
<1>2. CASE IsResult(Nodes[m + 1])
  <2>1. AnsweredBy(m + 1) = AnsweredBy(m) \cup {surface[Nodes[m + 1]].of}
    BY <1>1, <1>2, Zenon DEF AnsweredBy
  <2>2. ASSUME NEW j \in 1 .. m, IsResult(Nodes[j]), surface[Nodes[j]].of = surface[Nodes[m + 1]].of PROVE FALSE
    <3>1. Nodes[j] \in DOMAIN surface /\ Nodes[m + 1] \in DOMAIN surface
      BY <1>1, NodesOf
    <3>2. Nodes[j] = Nodes[m + 1]
      BY <1>2, <2>2, <3>1, Zenon DEF PairedInv
    <3>3. j = m + 1
      BY <1>1, <3>2, NodesOf DEF SurfaceInv
    <3>4. QED
      BY <1>1, <3>3
  <2>3. surface[Nodes[m + 1]].of \notin AnsweredBy(m)
    BY <2>2, Zenon DEF AnsweredBy
  <2>4. QED
    BY <1>2, <2>1, <2>3
<1>3. CASE ~IsResult(Nodes[m + 1])
  <2>1. {j \in 1 .. m + 1 : IsResult(Nodes[j])} = {j \in 1 .. m : IsResult(Nodes[j])}
    BY <1>1, <1>3
  <2>2. AnsweredBy(m + 1) = AnsweredBy(m)
    BY <2>1, Zenon DEF AnsweredBy
  <2>3. QED
    BY <1>3, <2>2
<1>4. QED
  BY <1>2, <1>3

(* The calls in progress at a cut are those that no result before it        *)
(* answers.                                                                 *)
LEMMA CutsCount ==
    ASSUME SurfaceInv, PairedInv
    PROVE  \A m \in 0 .. Len(Nodes) :
             /\ IsFiniteSet(CallsOf(m)) /\ IsFiniteSet(AnsweredBy(m))
             /\ Cardinality(CallsOf(m)) - Cardinality(AnsweredBy(m)) = Compacting!InProgress(surface, Nodes, m + 1)
<1> DEFINE Counted(m) ==
             /\ IsFiniteSet(CallsOf(m)) /\ IsFiniteSet(AnsweredBy(m))
             /\ Cardinality(CallsOf(m)) - Cardinality(AnsweredBy(m)) = Compacting!InProgress(surface, Nodes, m + 1)
           A == {m \in Nat : m <= Len(Nodes) => Counted(m)}
<1>1. /\ Compacting!InProgress(surface, Nodes, 1) = 0
      /\ \A k \in 1 .. Len(Nodes) :
           Compacting!InProgress(surface, Nodes, k + 1)
             = Compacting!InProgress(surface, Nodes, k) + Compacting!EventToolDelta(surface[Nodes[k]])
  BY CountSteps DEF SurfaceInv
<1>2. Counted(0)
  <2>1. CallsOf(0) = {}
    <3>1. 1 .. (0 + 1) - 1 = {}
      OBVIOUS
    <3>2. QED
      BY <3>1, Zenon DEF CallsOf, CalledBefore
  <2>2. AnsweredBy(0) = {}
    <3>1. 1 .. 0 = {}
      OBVIOUS
    <3>2. QED
      BY <3>1, Zenon DEF AnsweredBy
  <2>3. IsFiniteSet({}) /\ Cardinality({}) = 0
    BY FS_EmptySet
  <2>4. /\ IsFiniteSet(CallsOf(0)) /\ IsFiniteSet(AnsweredBy(0))
        /\ Cardinality(CallsOf(0)) = 0 /\ Cardinality(AnsweredBy(0)) = 0
    BY <2>1, <2>2, <2>3, Zenon
  <2>5. 0 + 1 = 1 /\ 0 - 0 = 0
    OBVIOUS
  <2>6. QED
    BY <1>1, <2>4, <2>5, Zenon
<1>3. ASSUME NEW m \in Nat, m + 1 <= Len(Nodes), Counted(m) PROVE Counted(m + 1)
  <2> DEFINE s == Nodes[m + 1]
             new == {s} \X (1 .. surface[s].calls)
  <2>1. m + 1 \in 1 .. Len(Nodes) /\ s \in Nat /\ surface[s].calls \in Nat
    BY <1>3, NodesOf
  <2>2. IsFiniteSet(new) /\ Cardinality(new) = surface[s].calls
    <3>1. IsFiniteSet({s}) /\ Cardinality({s}) = 1
      BY FS_Singleton
    <3>2. IsFiniteSet(1 .. surface[s].calls) /\ Cardinality(1 .. surface[s].calls) = surface[s].calls
      <4>1. \A n \in Nat : IsFiniteSet(1 .. n) /\ Cardinality(1 .. n) = n
        BY FS_Interval
      <4>2. QED
        BY <2>1, <4>1, Zenon
    <3>3. IsFiniteSet(new) /\ Cardinality(new) = Cardinality({s}) * Cardinality(1 .. surface[s].calls)
      BY <3>1, <3>2, FS_Product, Zenon
    <3>4. QED
      BY <2>1, <3>1, <3>2, <3>3
  <2>3. CallsOf(m + 1) = CallsOf(m) \cup new /\ CallsOf(m) \cap new = {}
    BY <1>3, CallsOfNext, Zenon
  <2> HIDE DEF new
  <2>4. /\ IsFiniteSet(CallsOf(m + 1)) /\ Cardinality(CallsOf(m)) \in Nat
        /\ Cardinality(CallsOf(m + 1)) = Cardinality(CallsOf(m)) + surface[s].calls
    <3>1. /\ IsFiniteSet(CallsOf(m) \cup new)
          /\ Cardinality(CallsOf(m) \cup new)
               = Cardinality(CallsOf(m)) + Cardinality(new) - Cardinality(CallsOf(m) \cap new)
      BY <1>3, <2>2, FS_Union, Zenon
    <3>2. Cardinality(CallsOf(m)) \in Nat
      BY <1>3, FS_CardinalityType
    <3>3. Cardinality(CallsOf(m) \cap new) = 0
      BY <2>3, FS_EmptySet, Zenon
    <3>4. Cardinality(CallsOf(m + 1)) = Cardinality(CallsOf(m)) + surface[s].calls - 0
      BY <2>2, <2>3, <3>1, <3>3, Zenon
    <3>5. \A a, b \in Nat : a + b - 0 = a + b
      OBVIOUS
    <3>6. QED
      BY <2>1, <2>3, <3>1, <3>2, <3>4, <3>5, Zenon
  <2>5. /\ IsFiniteSet(AnsweredBy(m + 1)) /\ Cardinality(AnsweredBy(m)) \in Nat
        /\ Cardinality(AnsweredBy(m + 1)) = Cardinality(AnsweredBy(m)) + (IF IsResult(s) THEN 1 ELSE 0)
    <3>1. Cardinality(AnsweredBy(m)) \in Nat
      BY <1>3, FS_CardinalityType
    <3>2. CASE IsResult(s)
      <4>1. AnsweredBy(m + 1) = AnsweredBy(m) \cup {surface[s].of} /\ surface[s].of \notin AnsweredBy(m)
        BY <1>3, <3>2, AnsweredByNext, Zenon
      <4>2. /\ IsFiniteSet(AnsweredBy(m + 1))
            /\ Cardinality(AnsweredBy(m + 1)) = Cardinality(AnsweredBy(m)) + 1
        <5>1. IsFiniteSet(AnsweredBy(m))
          BY <1>3
        <5>2. /\ IsFiniteSet(AnsweredBy(m) \cup {surface[s].of})
              /\ Cardinality(AnsweredBy(m) \cup {surface[s].of})
                   = IF surface[s].of \in AnsweredBy(m) THEN Cardinality(AnsweredBy(m)) ELSE Cardinality(AnsweredBy(m)) + 1
          BY <5>1, FS_AddElement, Zenon
        <5>3. QED
          BY <4>1, <5>2, Zenon
      <4>3. QED
        BY <3>1, <3>2, <4>2, Zenon
    <3>3. CASE ~IsResult(s)
      <4>1. AnsweredBy(m + 1) = AnsweredBy(m)
        BY <1>3, <3>3, AnsweredByNext, Zenon
      <4>2. Cardinality(AnsweredBy(m)) + 0 = Cardinality(AnsweredBy(m))
        BY <3>1
      <4>3. QED
        BY <1>3, <3>1, <3>3, <4>1, <4>2, Zenon
    <3>4. QED
      BY <3>2, <3>3
  <2>6. Compacting!InProgress(surface, Nodes, (m + 1) + 1)
          = Compacting!InProgress(surface, Nodes, m + 1) + (surface[s].calls - (IF IsResult(s) THEN 1 ELSE 0))
    BY <1>1, <2>1 DEF Compacting!EventToolDelta, IsResult
  <2> DEFINE answers == IF IsResult(s) THEN 1 ELSE 0
             calls == surface[s].calls
             left == Compacting!InProgress(surface, Nodes, m + 1)
             next == Compacting!InProgress(surface, Nodes, (m + 1) + 1)
             before == Cardinality(CallsOf(m))
             done == Cardinality(AnsweredBy(m))
  <2>7. /\ answers \in Int /\ calls \in Int /\ before \in Int /\ done \in Int /\ before - done = left
        /\ next = left + (calls - answers)
    BY <1>3, <2>1, <2>4, <2>5, <2>6
  <2>8. Cardinality(CallsOf(m + 1)) = before + calls /\ Cardinality(AnsweredBy(m + 1)) = done + answers
    BY <2>4, <2>5
  <2> HIDE DEF answers, calls, left, next, before, done
  <2>9. Cardinality(CallsOf(m + 1)) - Cardinality(AnsweredBy(m + 1)) = next
    BY <2>7, <2>8
  <2>10. QED
    BY <2>4, <2>5, <2>9, Zenon DEF next
<1>4. A = Nat
  <2> HIDE DEF Counted
  <2>1. 0 \in A
    BY <1>2
  <2>2. ASSUME NEW m \in A PROVE m + 1 \in A
    <3>1. m \in Nat /\ m + 1 \in Nat /\ (m <= Len(Nodes) => Counted(m))
      OBVIOUS
    <3>2. m + 1 <= Len(Nodes) => m <= Len(Nodes)
      BY <3>1, NodesOf
    <3>3. m + 1 <= Len(Nodes) => Counted(m + 1)
      BY <1>3, <3>1, <3>2
    <3>4. QED
      BY <3>1, <3>3
  <2>3. A \in SUBSET Nat
    OBVIOUS
  <2> HIDE DEF A
  <2>4. QED
    BY <2>1, <2>2, <2>3, SetInduction
<1>5. ASSUME NEW m \in 0 .. Len(Nodes) PROVE Counted(m)
  <2>1. m \in Nat /\ m <= Len(Nodes)
    BY NodesOf
  <2>2. QED
    BY <1>4, <2>1, Zenon
<1>6. QED
  BY <1>5, Zenon

(* A result behind a balanced cut has its call behind it too.               *)
LEMMA BalancedCut ==
    ASSUME SurfaceInv, PairedInv, NEW m \in 1 .. Len(Nodes), Compacting!Balanced(surface, Nodes, m + 1),
           NEW j \in m + 1 .. Len(Nodes), IsResult(Nodes[j])
    PROVE  LET c == surface[Nodes[j]].of
           IN \E i \in m + 1 .. j - 1 : Nodes[i] = c[1] /\ c[2] \in 1 .. surface[Nodes[i]].calls
<1> DEFINE c == surface[Nodes[j]].of
<1>1. /\ Len(Nodes) \in Nat /\ j \in 1 .. Len(Nodes) /\ j \in DOMAIN Nodes /\ m \in 0 .. Len(Nodes) /\ m \in Nat
      /\ Nodes[j] \in DOMAIN surface /\ c \in Nat \X Nat
      /\ \A i \in 1 .. m : i \in 1 .. Len(Nodes) /\ i # j /\ i - 1 <= m
  BY NodesOf
<1>2. PICK i \in 1 .. j - 1 : Nodes[i] = c[1] /\ c[2] \in 1 .. surface[Nodes[i]].calls
  BY <1>1, Zenon DEF PairedInv, CalledBefore
<1>3. i \in 1 .. m \/ i \in m + 1 .. j - 1
  BY <1>1
<1>4. ASSUME i \in 1 .. m PROVE FALSE
  <2>1. c \in CallsOf(m)
    <3>1. i \in 1 .. (m + 1) - 1
      BY <1>1, <1>4
    <3>2. QED
      BY <1>1, <1>2, <3>1, Zenon DEF CallsOf, CalledBefore
  <2>2. AnsweredBy(m) \subseteq CallsOf(m)
    <3>1. ASSUME NEW k \in 1 .. m, IsResult(Nodes[k]) PROVE surface[Nodes[k]].of \in CallsOf(m)
      <4>1. k \in DOMAIN Nodes /\ surface[Nodes[k]].of \in Nat \X Nat
        BY <1>1, NodesOf
      <4>2. PICK l \in 1 .. k - 1 : /\ Nodes[l] = surface[Nodes[k]].of[1]
                                    /\ surface[Nodes[k]].of[2] \in 1 .. surface[Nodes[l]].calls
        BY <3>1, <4>1, Zenon DEF PairedInv, CalledBefore
      <4>3. l \in 1 .. (m + 1) - 1
        BY <1>1
      <4>4. QED
        BY <4>1, <4>2, <4>3, Zenon DEF CallsOf, CalledBefore
    <3>2. QED
      BY <3>1, Zenon DEF AnsweredBy
  <2>3. /\ IsFiniteSet(CallsOf(m)) /\ IsFiniteSet(AnsweredBy(m))
        /\ Cardinality(CallsOf(m)) - Cardinality(AnsweredBy(m)) = 0
    BY <1>1, CutsCount DEF Compacting!Balanced
  <2>4. Cardinality(CallsOf(m)) = Cardinality(AnsweredBy(m))
    <3>1. Cardinality(CallsOf(m)) \in Nat /\ Cardinality(AnsweredBy(m)) \in Nat
      BY <2>3, FS_CardinalityType
    <3>2. QED
      BY <2>3, <3>1
  <2>5. AnsweredBy(m) = CallsOf(m)
    BY <2>2, <2>3, <2>4, FS_Subset
  <2>6. PICK k \in 1 .. m : IsResult(Nodes[k]) /\ surface[Nodes[k]].of = c
    BY <2>1, <2>5, Zenon DEF AnsweredBy
  <2>7. Nodes[k] \in DOMAIN surface
    BY <1>1, NodesOf
  <2>8. Nodes[k] = Nodes[j]
    BY <1>1, <2>6, <2>7, Zenon DEF PairedInv
  <2>9. k = j
    BY <1>1, <2>8, NodesOf DEF SurfaceInv
  <2>10. QED
    BY <1>1, <2>9
<1>5. QED
  BY <1>2, <1>3, <1>4

(* What every append to the log does to the fold.                           *)
LEMMA Logged ==
    ASSUME SurfaceInv, NEW e \in LogEvent, surface' = Append(surface, e)
    PROVE  /\ surface' \in Seq(LogEvent) /\ Len(surface) \in Nat /\ Len(surface') = Len(surface) + 1
           /\ DOMAIN surface = 1 .. Len(surface) /\ DOMAIN surface' = 1 .. Len(surface) + 1
           /\ Len(surface) + 1 \in DOMAIN surface' /\ Len(surface) + 1 \notin DOMAIN surface
           /\ surface'[Len(surface) + 1] = e
           /\ \A s \in DOMAIN surface : surface'[s] = surface[s] /\ s \in DOMAIN surface'
           /\ \A s \in DOMAIN surface' : s \in DOMAIN surface \/ s = Len(surface) + 1
           /\ Compacting!FoldSurface(surface')
                = Compacting!ApplySurfaceEvent(Compacting!FoldSurface(surface), e, Len(surface) + 1)
           /\ Compacting!FoldSurface(surface') \in SurfaceState
<1>1. surface \in Seq(LogEvent) /\ Compacting!FoldSurface(surface) \in SurfaceState /\ Compacting!FoldSurface(surface).ok
  BY DEF SurfaceInv
<1> HIDE DEF SurfaceInv
<1>2. Compacting!FoldSurface(surface')
        = Compacting!ApplySurfaceEvent(Compacting!FoldSurface(surface), e, Len(surface) + 1)
  BY <1>1, FoldAppended
<1>3. /\ surface' \in Seq(LogEvent) /\ Len(surface) \in Nat /\ Len(surface') = Len(surface) + 1
      /\ DOMAIN surface = 1 .. Len(surface) /\ DOMAIN surface' = 1 .. Len(surface) + 1
      /\ \A s \in DOMAIN surface : surface'[s] = surface[s]
      /\ surface'[Len(surface) + 1] = e
  BY <1>1
<1>4. Compacting!FoldSurface(surface') \in SurfaceState
  BY <1>1, <1>2, <1>3, EventApplied
<1>5. QED
  BY <1>2, <1>3, <1>4

(* Calls made before a node stay before it while the surface only grows.    *)
LEMMA CallsKept ==
    ASSUME SurfaceInv, NEW e \in LogEvent, surface' = Append(surface, e),
           \A i \in 1 .. Len(Nodes) : Nodes'[i] = Nodes[i],
           NEW c, NEW j \in 1 .. Len(Nodes) + 1, CalledBefore(c, j)
    PROVE  CalledBefore(c, j)'
<1>1. PICK i \in 1 .. j - 1 : Nodes[i] = c[1] /\ c[2] \in 1 .. surface[Nodes[i]].calls
  BY DEF CalledBefore
<1>2. i \in 1 .. Len(Nodes) /\ Nodes[i] \in DOMAIN surface
  BY NodesOf
<1>3. Nodes'[i] = Nodes[i] /\ surface'[Nodes[i]] = surface[Nodes[i]]
  BY <1>2, Logged
<1>4. QED
  BY <1>1, <1>3 DEF CalledBefore

(* An event that is no part of the surface.                                 *)
LEMMA OffSurface ==
    ASSUME SurfaceInv, PairedInv, NEW e \in LogEvent, surface' = Append(surface, e),
           e.op = "none", e.type # "tool/result"
    PROVE  /\ Nodes' = Nodes /\ SurfaceInv' /\ PairedInv'
           /\ \A s \in DOMAIN surface' : IsResult(s)' => s \in DOMAIN surface /\ IsResult(s)
<1>1. Compacting!FoldSurface(surface') = Compacting!FoldSurface(surface)
  BY Logged DEF Compacting!ApplySurfaceEvent
<1>2. Nodes' = Nodes
  BY <1>1 DEF Nodes
<1>3. /\ Nodes \in Seq(DOMAIN surface) /\ \A i \in DOMAIN Nodes : Nodes[i] \in DOMAIN surface
      /\ DOMAIN Nodes = 1 .. Len(Nodes) /\ Len(Nodes) \in Nat
  BY DEF SurfaceInv
<1>4. SurfaceInv'
  <2>1. Nodes' \in Seq(DOMAIN surface')
    BY <1>2, <1>3, Logged
  <2>2. \A i, j \in DOMAIN Nodes' : Nodes'[i] = Nodes'[j] => i = j
    BY <1>2 DEF SurfaceInv
  <2>3. surface' \in Seq(LogEvent) /\ Compacting!FoldSurface(surface') \in SurfaceState
        /\ Compacting!FoldSurface(surface').ok
    BY <1>1, Logged DEF SurfaceInv
  <2>4. QED
    BY <2>1, <2>2, <2>3 DEF SurfaceInv
<1>5. \A s \in DOMAIN surface' : IsResult(s)' => s \in DOMAIN surface /\ IsResult(s)
  BY Logged DEF IsResult
<1>6. \A s \in DOMAIN surface : surface'[s] = surface[s]
  BY Logged
<1>7. PairedInv'
  <2>1. ASSUME NEW j \in DOMAIN Nodes', IsResult(Nodes[j])' PROVE CalledBefore(surface[Nodes[j]].of, j)'
    <3>1. j \in 1 .. Len(Nodes) /\ j \in 1 .. Len(Nodes) + 1 /\ Nodes[j] \in DOMAIN surface /\ Nodes'[j] = Nodes[j]
      BY <1>2, <1>3
    <3>2. IsResult(Nodes[j]) /\ surface'[Nodes'[j]] = surface[Nodes[j]]
      BY <1>6, <2>1, <3>1 DEF IsResult
    <3>3. CalledBefore(surface[Nodes[j]].of, j)
      BY <1>3, <3>1, <3>2 DEF PairedInv
    <3>4. \A c : CalledBefore(c, j) => CalledBefore(c, j)'
      BY <1>2, <3>1, CallsKept
    <3>5. QED
      BY <3>2, <3>3, <3>4 DEF CalledBefore
  <2>2. ASSUME NEW s \in DOMAIN surface', NEW t \in DOMAIN surface', IsResult(s)', IsResult(t)',
               surface'[s].of = surface'[t].of
        PROVE  s = t
    BY <1>5, <1>6, <2>2 DEF PairedInv
  <2>3. \A s \in DOMAIN surface' : IsResult(s)' => surface'[s].of[1] \in DOMAIN surface'
    BY <1>5, Logged DEF PairedInv
  <2>4. QED
    BY <2>1, <2>2, <2>3 DEF PairedInv
<1>8. QED
  BY <1>2, <1>4, <1>5, <1>7

(* A message at the end of the surface; a result there answers a call that  *)
(* is on the surface and has no answer.                                     *)
LEMMA OnSurface ==
    ASSUME SurfaceInv, PairedInv, NEW e \in LogEvent, surface' = Append(surface, e), e.op = "append",
           e.type = "tool/result" =>
               /\ CalledBefore(e.of, Len(Nodes) + 1)
               /\ \A s \in DOMAIN surface : IsResult(s) => surface[s].of # e.of
    PROVE  /\ Nodes' = Append(Nodes, Len(surface) + 1) /\ SurfaceInv' /\ PairedInv'
           /\ Len(Nodes) \in Nat /\ Len(Nodes') = Len(Nodes) + 1 /\ Nodes'[Len(Nodes) + 1] = Len(surface) + 1
           /\ \A i \in 1 .. Len(Nodes) : Nodes'[i] = Nodes[i]
<1> DEFINE seq == Len(surface) + 1
<1>1. Compacting!FoldSurface(surface') = [Compacting!FoldSurface(surface) EXCEPT !.nodes = Append(@, seq)]
  BY Logged DEF Compacting!ApplySurfaceEvent
<1>2. Compacting!FoldSurface(surface') = [nodes |-> Append(Nodes, seq), ok |-> TRUE]
  BY <1>1 DEF SurfaceInv, SurfaceState, Nodes
<1>3. Nodes' = Append(Nodes, seq)
  BY <1>2 DEF Nodes
<1>4. /\ Nodes \in Seq(DOMAIN surface) /\ \A i \in 1 .. Len(Nodes) : Nodes[i] \in DOMAIN surface
      /\ DOMAIN Nodes = 1 .. Len(Nodes) /\ Len(Nodes) \in Nat
  BY DEF SurfaceInv
<1>5. /\ seq \in DOMAIN surface' /\ seq \notin DOMAIN surface /\ surface'[seq] = e
      /\ \A s \in DOMAIN surface : surface'[s] = surface[s] /\ s \in DOMAIN surface'
      /\ \A s \in DOMAIN surface' : s \in DOMAIN surface \/ s = seq
  BY Logged
<1> HIDE DEF seq
<1>6. Nodes \in Seq(DOMAIN surface')
  BY <1>4, <1>5
<1>7. /\ Nodes' \in Seq(DOMAIN surface') /\ Len(Nodes') = Len(Nodes) + 1 /\ DOMAIN Nodes' = 1 .. Len(Nodes) + 1
      /\ Nodes'[Len(Nodes) + 1] = seq /\ \A i \in 1 .. Len(Nodes) : Nodes'[i] = Nodes[i]
  BY <1>3, <1>5, <1>6, AppendOf
<1>8. \A i \in 1 .. Len(Nodes) + 1 : i \in 1 .. Len(Nodes) \/ i = Len(Nodes) + 1
  BY <1>4
<1>9. \A i, j \in DOMAIN Nodes' : Nodes'[i] = Nodes'[j] => i = j
  <2>1. ASSUME NEW i \in DOMAIN Nodes', NEW j \in DOMAIN Nodes', Nodes'[i] = Nodes'[j] PROVE i = j
    <3>1. CASE i \in 1 .. Len(Nodes) /\ j \in 1 .. Len(Nodes)
      BY <1>4, <1>7, <2>1, <3>1 DEF SurfaceInv
    <3>2. CASE i \in 1 .. Len(Nodes) /\ j = Len(Nodes) + 1
      BY <1>4, <1>5, <1>7, <2>1, <3>2
    <3>3. CASE j \in 1 .. Len(Nodes) /\ i = Len(Nodes) + 1
      BY <1>4, <1>5, <1>7, <2>1, <3>3
    <3>4. QED
      BY <1>7, <1>8, <3>1, <3>2, <3>3
  <2>2. QED
    BY <2>1
<1>10. SurfaceInv'
  <2>1. surface' \in Seq(LogEvent) /\ Compacting!FoldSurface(surface') \in SurfaceState
        /\ Compacting!FoldSurface(surface').ok
    <3>1. surface' \in Seq(LogEvent) /\ Compacting!FoldSurface(surface') \in SurfaceState
      BY Logged
    <3>2. Compacting!FoldSurface(surface').ok
      BY <1>2
    <3>3. QED
      BY <3>1, <3>2
  <2>2. QED
    BY <1>7, <1>9, <2>1 DEF SurfaceInv
<1>11. ASSUME NEW c, NEW j \in 1 .. Len(Nodes) + 1, CalledBefore(c, j) PROVE CalledBefore(c, j)'
  BY <1>7, <1>11, CallsKept
<1>12. PairedInv'
  <2>1. ASSUME NEW j \in DOMAIN Nodes', IsResult(Nodes[j])' PROVE CalledBefore(surface[Nodes[j]].of, j)'
    <3>1. CASE j \in 1 .. Len(Nodes)
      <4>1. Nodes'[j] = Nodes[j] /\ surface'[Nodes[j]] = surface[Nodes[j]] /\ j \in 1 .. Len(Nodes) + 1
        BY <1>4, <1>5, <1>7, <3>1
      <4>2. CalledBefore(surface[Nodes[j]].of, j)
        BY <1>4, <2>1, <3>1, <4>1 DEF PairedInv, IsResult
      <4>3. CalledBefore(surface[Nodes[j]].of, j) => \E i \in 1 .. j - 1 :
              /\ Nodes'[i] = surface[Nodes[j]].of[1]
              /\ surface[Nodes[j]].of[2] \in 1 .. surface'[Nodes'[i]].calls
        BY <1>11, <4>1 DEF CalledBefore
      <4>4. QED
        BY <4>1, <4>2, <4>3 DEF CalledBefore
    <3>2. CASE j = Len(Nodes) + 1
      <4>1. surface'[Nodes'[j]] = e /\ e.type = "tool/result" /\ j \in 1 .. Len(Nodes) + 1
        BY <1>4, <1>5, <1>7, <2>1, <3>2 DEF IsResult
      <4>2. CalledBefore(e.of, j)
        BY <3>2, <4>1
      <4>3. CalledBefore(e.of, j) => \E i \in 1 .. j - 1 :
              Nodes'[i] = e.of[1] /\ e.of[2] \in 1 .. surface'[Nodes'[i]].calls
        BY <1>11, <4>1 DEF CalledBefore
      <4>4. QED
        BY <4>1, <4>2, <4>3 DEF CalledBefore
    <3>3. QED
      BY <1>7, <1>8, <3>1, <3>2
  <2>2. ASSUME NEW s \in DOMAIN surface', NEW t \in DOMAIN surface', IsResult(s)', IsResult(t)',
               surface'[s].of = surface'[t].of
        PROVE  s = t
    <3>1. CASE s \in DOMAIN surface /\ t \in DOMAIN surface
      BY <1>5, <2>2, <3>1 DEF PairedInv, IsResult
    <3>2. CASE s \in DOMAIN surface /\ t = seq
      BY <1>5, <2>2, <3>2 DEF IsResult
    <3>3. CASE t \in DOMAIN surface /\ s = seq
      BY <1>5, <2>2, <3>3 DEF IsResult
    <3>4. QED
      BY <1>5, <3>1, <3>2, <3>3
  <2>3. ASSUME NEW s \in DOMAIN surface', IsResult(s)' PROVE surface'[s].of[1] \in DOMAIN surface'
    <3>1. CASE s \in DOMAIN surface
      BY <1>5, <2>3, <3>1 DEF PairedInv, IsResult
    <3>2. CASE s = seq
      <4>1. e.type = "tool/result" /\ surface'[s] = e
        BY <1>5, <2>3, <3>2 DEF IsResult
      <4>2. PICK i \in 1 .. (Len(Nodes) + 1) - 1 : Nodes[i] = e.of[1]
        BY <4>1 DEF CalledBefore
      <4>3. Nodes[i] \in DOMAIN surface
        BY <1>4
      <4>4. QED
        BY <1>5, <4>1, <4>2, <4>3
    <3>3. QED
      BY <1>5, <3>1, <3>2
  <2>4. QED
    BY <2>1, <2>2, <2>3 DEF PairedInv
<1>13. QED
  BY <1>3, <1>4, <1>7, <1>10, <1>12 DEF seq

(* Calls that are owed stay owed when an event that is no result is added.  *)
LEMMA OwedKept ==
    ASSUME SurfaceInv, OwedInv, NEW e \in LogEvent, surface' = Append(surface, e), e.type # "tool/result",
           Len(Nodes') >= Len(Nodes), Len(Nodes') \in Nat, \A i \in 1 .. Len(Nodes) : Nodes'[i] = Nodes[i],
           owed' = owed, actor' = actor
    PROVE  OwedInv'
<1>1. ASSUME NEW k \in DOMAIN owed
      PROVE  CalledBefore(owed[k], Len(Nodes) + 1)' /\ \A s \in DOMAIN surface' : IsResult(s)' => surface'[s].of # owed[k]
  <2>1. Len(Nodes) \in Nat /\ Len(Nodes) + 1 \in 1 .. Len(Nodes) + 1
    BY NodesOf
  <2>2. CalledBefore(owed[k], Len(Nodes) + 1)
    BY DEF OwedInv
  <2>3. PICK i \in 1 .. Len(Nodes) : Nodes[i] = owed[k][1] /\ owed[k][2] \in 1 .. surface[Nodes[i]].calls
    BY <2>1, <2>2 DEF CalledBefore
  <2>4. Nodes'[i] = Nodes[i] /\ surface'[Nodes[i]] = surface[Nodes[i]] /\ i \in 1 .. (Len(Nodes') + 1) - 1
    BY <2>1, Logged, NodesOf
  <2>5. CalledBefore(owed[k], Len(Nodes) + 1)'
    BY <2>3, <2>4 DEF CalledBefore
  <2>6. \A s \in DOMAIN surface' : IsResult(s)' => surface'[s].of # owed[k]
    <3>1. ASSUME NEW s \in DOMAIN surface', IsResult(s)' PROVE surface'[s].of # owed[k]
      <4>1. surface'[s] = surface[s] /\ s \in DOMAIN surface
        BY <3>1, Logged DEF IsResult
      <4>2. surface[s].of # owed[k]
        BY <3>1, <4>1 DEF IsResult, OwedInv
      <4>3. QED
        BY <4>1, <4>2
    <3>2. QED
      BY <3>1
  <2>7. QED
    BY <2>5, <2>6
<1>2. QED
  BY <1>1 DEF OwedInv

(* The selected span stays what it was while events are added that are no   *)
(* part of the surface.                                                     *)
LEMMA SpanKept ==
    ASSUME SurfaceInv, NEW e \in LogEvent, surface' = Append(surface, e), Nodes' = Nodes,
           NEW n \in 1 .. Len(Nodes), Compacting!Balanced(surface, Nodes, n + 1)
    PROVE  Compacting!Balanced(surface, Nodes, n + 1)'
<1>1. Nodes \in Seq(DOMAIN surface) /\ surface \in Seq(LogEvent) /\ Len(Nodes) \in Nat
  BY DEF SurfaceInv
<1>2. n + 1 \in 1 .. Len(Nodes) + 1
  BY <1>1
<1>3. Compacting!InProgress(Append(surface, e), Nodes, n + 1) = Compacting!InProgress(surface, Nodes, n + 1)
  BY <1>1, <1>2, CountKept
<1>4. QED
  BY <1>3 DEF Compacting!Balanced

LEMMA PlainEvent ==
    /\ \A type \in {"user/message", "note", "compaction/start", "compaction/summary", "compaction/end"} :
         \A op \in {"none", "append"} :
           /\ Compacting!Event(type, op) \in LogEvent /\ Compacting!Event(type, op).op = op
           /\ Compacting!Event(type, op).type = type
    /\ \A n \in Nat : LET e == [Compacting!Event("assistant/message", "append") EXCEPT !.calls = n]
                      IN e \in LogEvent /\ e.op = "append" /\ e.type = "assistant/message" /\ e.calls = n
    /\ \A c \in Nat \X Nat : LET e == [Compacting!Event("tool/result", "append") EXCEPT !.of = c]
                             IN e \in LogEvent /\ e.op = "append" /\ e.type = "tool/result" /\ e.of = c
<1>1. <<0, 0>> \in Nat \X Nat /\ {} \in SUBSET Nat /\ 0 \in Nat
  OBVIOUS
<1>2. QED
  BY <1>1 DEF Compacting!Event, LogEvent

(* Events of other goroutines and of the transaction itself.                *)
LEMMA QuietEventStep ==
    ASSUME CompactionInv, NEW type \in {"note", "compaction/start", "compaction/summary", "compaction/end"},
           Compacting!Emits(Compacting!Event(type, "none")), owed' = owed, actor' = actor \/ owed = <<>>
    PROVE  SurfaceInv' /\ PairedInv' /\ OwedInv' /\ Nodes' = Nodes
           /\ \E e \in LogEvent : surface' = Append(surface, e)
<1> DEFINE e == Compacting!Event(type, "none")
<1>1. e \in LogEvent /\ e.op = "none" /\ e.type # "tool/result" /\ surface' = Append(surface, e)
  BY PlainEvent DEF Compacting!Emits
<1> HIDE DEF e
<1>2. SurfaceInv /\ PairedInv /\ OwedInv
  BY DEF CompactionInv
<1>3. SurfaceInv' /\ PairedInv' /\ Nodes' = Nodes
  BY <1>1, <1>2, OffSurface
<1>4. OwedInv'
  <2>1. CASE owed = <<>>
    BY <1>2, <2>1 DEF OwedInv
  <2>2. CASE owed # <<>>
    <3>1. actor' = actor /\ Len(Nodes') >= Len(Nodes) /\ Len(Nodes') \in Nat
      BY <1>2, <1>3, <2>2, NodesOf
    <3>2. QED
      BY <1>1, <1>2, <1>3, <3>1, OwedKept
  <2>3. QED
    BY <2>1, <2>2
<1>5. QED
  BY <1>1, <1>3, <1>4

LEMMA UserMessageStep ==
    ASSUME CompactionInv, Compacting!UserMessage
    PROVE  CompactionInv'
<1> DEFINE e == Compacting!Event("user/message", "append")
<1>1. e \in LogEvent /\ e.op = "append" /\ e.type # "tool/result"
  BY PlainEvent
<1>2. /\ surface' = Append(surface, e) /\ owed' = owed /\ actor = "idle" /\ actor' = "turn" /\ tx' = tx
      /\ SurfaceInv /\ PairedInv
  BY DEF Compacting!UserMessage, Compacting!Emits, CompactionInv
<1> HIDE DEF e
<1>3. SurfaceInv' /\ PairedInv'
  BY <1>1, <1>2, OnSurface
<1>4. owed = <<>>
  BY <1>2 DEF CompactionInv, OwedInv
<1>5. OwedInv'
  BY <1>2, <1>4 DEF OwedInv
<1>6. TxInv'
  BY <1>2 DEF CompactionInv, TxInv
<1>7. QED
  BY <1>3, <1>5, <1>6 DEF CompactionInv

LEMMA AssistantMessageStep ==
    ASSUME CompactionInv, Compacting!AssistantMessage
    PROVE  CompactionInv'
<1>1. PICK n \in CallCounts :
        /\ Compacting!Emits([Compacting!Event("assistant/message", "append") EXCEPT !.calls = n])
        /\ owed' = [k \in 1 .. n |-> <<Len(surface) + 1, k>>]
        /\ actor' = IF n = 0 THEN "compact" ELSE "turn"
  BY DEF Compacting!AssistantMessage
<1> DEFINE e == [Compacting!Event("assistant/message", "append") EXCEPT !.calls = n]
           seq == Len(surface) + 1
<1>2. n \in Nat
  BY CompactionAssumption
<1>3. e \in LogEvent /\ e.op = "append" /\ e.type # "tool/result" /\ e.calls = n
  BY <1>2, PlainEvent
<1>4. surface' = Append(surface, e) /\ SurfaceInv /\ PairedInv
  BY <1>1 DEF Compacting!Emits, CompactionInv
<1> HIDE DEF e
<1>5. /\ SurfaceInv' /\ PairedInv' /\ Len(Nodes) \in Nat /\ Len(Nodes') = Len(Nodes) + 1
      /\ Nodes'[Len(Nodes) + 1] = seq
  BY <1>3, <1>4, OnSurface
<1>6. /\ seq \in Nat /\ surface'[seq] = e /\ \A s \in DOMAIN surface' : s \in DOMAIN surface \/ s = seq
      /\ seq \notin DOMAIN surface
  BY <1>3, <1>4, Logged
<1>7. OwedInv'
  <2>1. owed' \in Seq(Nat \X Nat) /\ DOMAIN owed' = 1 .. n /\ \A k \in 1 .. n : owed'[k] = <<seq, k>>
    BY <1>1, <1>2, <1>6
  <2>2. owed' # <<>> => actor' = "turn"
    BY <1>1, <1>2
  <2>3. ASSUME NEW k \in 1 .. n PROVE CalledBefore(owed[k], Len(Nodes) + 1)'
    <3>1. Len(Nodes) + 1 \in 1 .. (Len(Nodes') + 1) - 1
      BY <1>5
    <3>2. Nodes'[Len(Nodes) + 1] = owed'[k][1] /\ owed'[k][2] \in 1 .. surface'[Nodes'[Len(Nodes) + 1]].calls
      BY <1>3, <1>5, <1>6, <2>1
    <3>3. QED
      BY <3>1, <3>2 DEF CalledBefore
  <2>4. ASSUME NEW k \in 1 .. n, NEW s \in DOMAIN surface', IsResult(s)' PROVE surface'[s].of # owed'[k]
    <3>1. s \in DOMAIN surface /\ surface'[s] = surface[s]
      BY <1>3, <1>4, <1>6, <2>4, Logged DEF IsResult
    <3>2. surface[s].of[1] \in DOMAIN surface
      BY <1>4, <2>4, <3>1 DEF PairedInv, IsResult
    <3>3. QED
      BY <1>6, <2>1, <3>1, <3>2
  <2>5. \A k, m \in 1 .. n : owed'[k] = owed'[m] => k = m
    BY <2>1
  <2>6. QED
    BY <2>1, <2>2, <2>3, <2>4, <2>5 DEF OwedInv
<1>8. TxInv'
  <2>1. tx' = IF actor' = "compact" THEN [Compacting!NoTx EXCEPT !.pc = "select"] ELSE tx
    BY DEF Compacting!AssistantMessage
  <2>2. <<>> \in Seq(Nat) /\ 0 \in Nat
    OBVIOUS
  <2>3. [Compacting!NoTx EXCEPT !.pc = "select"] \in TxType /\ [Compacting!NoTx EXCEPT !.pc = "select"].pc = "select"
    BY <2>2 DEF TxType, Compacting!NoTx
  <2>4. QED
    BY <2>1, <2>3 DEF TxInv, CompactionInv
<1>9. QED
  BY <1>5, <1>7, <1>8 DEF CompactionInv

LEMMA ToolResultStep ==
    ASSUME CompactionInv, Compacting!ToolResult
    PROVE  CompactionInv'
<1> DEFINE c == Head(owed)
           e == [Compacting!Event("tool/result", "append") EXCEPT !.of = c]
<1>1. /\ owed # <<>> /\ surface' = Append(surface, e) /\ owed' = Tail(owed) /\ actor = "turn" /\ actor' = actor
      /\ tx' = tx /\ SurfaceInv /\ PairedInv /\ owed \in Seq(Nat \X Nat)
  BY DEF Compacting!ToolResult, Compacting!Emits, CompactionInv, OwedInv
<1>2. /\ owed' \in Seq(Nat \X Nat) /\ Len(owed) \in Nat \ {0} /\ DOMAIN owed = 1 .. Len(owed)
      /\ DOMAIN owed' = 1 .. Len(owed) - 1
      /\ \A k \in 1 .. Len(owed) - 1 : owed'[k] = owed[k + 1] /\ k + 1 \in 1 .. Len(owed)
      /\ c = owed[1] /\ c \in Nat \X Nat /\ 1 \in DOMAIN owed
  BY <1>1, TailOf
<1> HIDE DEF c
<1>3. e \in LogEvent /\ e.op = "append" /\ e.type = "tool/result" /\ e.of = c
  BY <1>2, PlainEvent
<1> HIDE DEF e
<1>4. CalledBefore(c, Len(Nodes) + 1) /\ \A s \in DOMAIN surface : IsResult(s) => surface[s].of # c
  BY <1>2 DEF CompactionInv, OwedInv
<1>5. /\ SurfaceInv' /\ PairedInv' /\ Len(Nodes) \in Nat /\ Len(Nodes') = Len(Nodes) + 1
      /\ \A i \in 1 .. Len(Nodes) : Nodes'[i] = Nodes[i]
  BY <1>1, <1>3, <1>4, OnSurface
<1>6. OwedInv'
  <2>1. ASSUME NEW k \in 1 .. Len(owed) - 1 PROVE CalledBefore(owed[k], Len(Nodes) + 1)'
    <3>1. owed'[k] = owed[k + 1] /\ k + 1 \in DOMAIN owed
      BY <1>2
    <3>2. CalledBefore(owed[k + 1], Len(Nodes) + 1)
      BY <3>1 DEF CompactionInv, OwedInv
    <3>3. PICK i \in 1 .. Len(Nodes) : /\ Nodes[i] = owed[k + 1][1]
                                       /\ owed[k + 1][2] \in 1 .. surface[Nodes[i]].calls
      BY <1>5, <3>2 DEF CalledBefore
    <3>4. Nodes'[i] = Nodes[i] /\ surface'[Nodes[i]] = surface[Nodes[i]] /\ i \in 1 .. (Len(Nodes') + 1) - 1
      BY <1>1, <1>3, <1>5, Logged, NodesOf
    <3>5. QED
      BY <3>1, <3>3, <3>4 DEF CalledBefore
  <2>2. ASSUME NEW k \in 1 .. Len(owed) - 1, NEW s \in DOMAIN surface', IsResult(s)' PROVE surface'[s].of # owed'[k]
    <3>1. owed'[k] = owed[k + 1] /\ k + 1 \in DOMAIN owed /\ k + 1 # 1
      BY <1>2
    <3>2. CASE s \in DOMAIN surface
      <4>1. surface'[s] = surface[s] /\ IsResult(s)
        BY <1>1, <1>3, <2>2, <3>2, Logged DEF IsResult
      <4>2. QED
        BY <3>1, <3>2, <4>1 DEF CompactionInv, OwedInv
    <3>3. CASE s = Len(surface) + 1
      <4>1. surface'[s] = e
        BY <1>1, <1>3, <3>3, Logged
      <4>2. owed[k + 1] # owed[1]
        BY <1>2, <3>1 DEF CompactionInv, OwedInv
      <4>3. QED
        BY <1>2, <1>3, <3>1, <4>1, <4>2
    <3>4. QED
      BY <1>1, <1>3, <3>2, <3>3, Logged
  <2>3. ASSUME NEW k \in 1 .. Len(owed) - 1, NEW m \in 1 .. Len(owed) - 1, owed'[k] = owed'[m] PROVE k = m
    <3>1. owed[k + 1] = owed[m + 1] /\ k + 1 \in DOMAIN owed /\ m + 1 \in DOMAIN owed
      BY <1>2, <2>3
    <3>2. k + 1 = m + 1
      BY <3>1 DEF CompactionInv, OwedInv
    <3>3. QED
      BY <3>2
  <2>4. owed' # <<>> => actor' = "turn"
    BY <1>1
  <2>5. QED
    BY <1>2, <2>1, <2>2, <2>3, <2>4 DEF OwedInv
<1>7. TxInv'
  BY <1>1 DEF CompactionInv, TxInv
<1>8. QED
  BY <1>5, <1>6, <1>7 DEF CompactionInv

(* The log and what is owed stay: only the transaction moves, or ends.      *)
LEMMA LogStays ==
    ASSUME CompactionInv, surface' = surface, owed' = owed \/ owed' = <<>>, actor' = actor \/ owed' = <<>>, TxInv'
    PROVE  CompactionInv'
<1>1. Nodes' = Nodes
  BY DEF Nodes
<1>2. SurfaceInv' /\ PairedInv'
  <2>1. SurfaceInv'
    BY <1>1 DEF CompactionInv, SurfaceInv
  <2>2. PairedInv'
    BY <1>1 DEF CompactionInv, PairedInv, IsResult, CalledBefore
  <2>3. QED
    BY <2>1, <2>2
<1>3. OwedInv'
  <2>1. CASE owed' = <<>>
    BY <2>1 DEF OwedInv
  <2>2. CASE owed' = owed /\ actor' = actor
    BY <1>1, <2>2 DEF CompactionInv, OwedInv, IsResult, CalledBefore
  <2>3. QED
    BY <2>1, <2>2
<1>4. QED
  BY <1>2, <1>3 DEF CompactionInv

LEMMA NoTxTyped ==
    Compacting!NoTx \in TxType /\ Compacting!NoTx.pc = "off"
<1>1. <<>> \in Seq(Nat) /\ 0 \in Nat
  OBVIOUS
<1>2. QED
  BY <1>1 DEF TxType, Compacting!NoTx

(* An actor that compacts owes nothing.                                     *)
LEMMA CompactsIdle ==
    ASSUME CompactionInv, actor = "compact"
    PROVE  owed = <<>>
BY DEF CompactionInv, OwedInv

LEMMA DoneTx ==
    ASSUME CompactionInv, Compacting!Done
    PROVE  TxInv' /\ owed' = owed
BY NoTxTyped DEF Compacting!Done, TxInv

LEMMA ClosingTx ==
    ASSUME CompactionInv, NEW pc \in {"end", "close"}, Compacting!Proceeds(pc)
    PROVE  TxInv' /\ owed' = owed /\ actor' = actor
<1>1. tx \in TxType /\ tx' = [tx EXCEPT !.pc = pc] /\ owed' = owed /\ actor' = actor
  BY DEF Compacting!Proceeds, CompactionInv, TxInv
<1>2. tx' \in TxType /\ tx'.pc = pc
  BY <1>1 DEF TxType
<1>3. QED
  BY <1>1, <1>2 DEF TxInv

(* The transaction goes on with the same span, by an event that is no part  *)
(* of the surface or by none.                                               *)
LEMMA GoingOnTx ==
    ASSUME CompactionInv, actor = "compact", actor' = actor, Nodes' = Nodes,
           \/ surface' = surface
           \/ \E e \in LogEvent : surface' = Append(surface, e),
           tx.pc \in {"start", "summarize", "summary", "replace"}, tx' \in TxType,
           tx'.first = tx.first, tx'.last = tx.last, tx'.shadowed = tx.shadowed,
           tx'.pc # "start" => tx'.begun \in DOMAIN surface', tx'.pc = "replace" => tx'.summary \in DOMAIN surface'
    PROVE  TxInv'
<1>1. PICK n \in 1 .. Len(Nodes) :
        /\ tx.shadowed = SubSeq(Nodes, 1, n) /\ tx.first = Nodes[1] /\ tx.last = Nodes[n]
        /\ Compacting!Balanced(surface, Nodes, n + 1)
  BY DEF CompactionInv, TxInv
<1>2. Compacting!Balanced(surface, Nodes, n + 1)'
  <2>1. CASE surface' = surface
    BY <1>1, <2>1
  <2>2. ASSUME NEW e \in LogEvent, surface' = Append(surface, e) PROVE Compacting!Balanced(surface, Nodes, n + 1)'
    BY <1>1, <2>2, SpanKept DEF CompactionInv
  <2>3. QED
    BY <2>1, <2>2
<1>3. QED
  BY <1>1, <1>2 DEF TxInv

LEMMA NoteStep ==
    ASSUME CompactionInv, Compacting!Note
    PROVE  CompactionInv'
<1>1. Compacting!Emits(Compacting!Event("note", "none")) /\ UNCHANGED <<actor, owed, tx>>
  BY DEF Compacting!Note
<1>2. SurfaceInv' /\ PairedInv' /\ OwedInv' /\ Nodes' = Nodes /\ \E e \in LogEvent : surface' = Append(surface, e)
  BY <1>1, QuietEventStep
<1>3. \A s \in DOMAIN surface : s \in DOMAIN surface'
  BY <1>2, Logged DEF CompactionInv
<1>4. TxInv'
  <2>1. CASE actor = "compact" /\ tx.pc \in {"start", "summarize", "summary", "replace"}
    <3>1. /\ tx \in TxType
          /\ tx.pc # "start" => tx.begun \in DOMAIN surface
          /\ tx.pc = "replace" => tx.summary \in DOMAIN surface
      BY <2>1 DEF CompactionInv, TxInv
    <3>2. QED
      BY <1>1, <1>2, <1>3, <2>1, <3>1, GoingOnTx
  <2>2. CASE ~(actor = "compact" /\ tx.pc \in {"start", "summarize", "summary", "replace"})
    BY <1>1, <2>2 DEF CompactionInv, TxInv
  <2>3. QED
    BY <2>1, <2>2
<1>5. QED
  BY <1>2, <1>4 DEF CompactionInv

LEMMA SelectRangeStep ==
    ASSUME CompactionInv, Compacting!SelectRange
    PROVE  CompactionInv'
<1> DEFINE keep == Compacting!KeepFrom(surface, Nodes)
<1>1. /\ surface' = surface /\ actor = "compact" /\ tx.pc = "select"
      /\ \/ Compacting!Done
         \/ /\ keep # 0 /\ Compacting!ValidRegion(surface, Nodes, 1, keep - 1)
            /\ tx' = [tx EXCEPT !.pc = "start", !.first = Nodes[1], !.last = Nodes[keep - 1],
                                !.shadowed = SubSeq(Nodes, 1, keep - 1)]
            /\ UNCHANGED <<actor, owed>>
  BY DEF Compacting!SelectRange, Nodes
<1>2. CASE Compacting!Done
  <2>1. owed' = <<>>
    BY <1>1, <1>2, CompactsIdle, DoneTx
  <2>2. QED
    BY <1>1, <1>2, <2>1, DoneTx, LogStays
<1>3. CASE /\ keep # 0 /\ Compacting!ValidRegion(surface, Nodes, 1, keep - 1)
           /\ tx' = [tx EXCEPT !.pc = "start", !.first = Nodes[1], !.last = Nodes[keep - 1],
                               !.shadowed = SubSeq(Nodes, 1, keep - 1)]
           /\ UNCHANGED <<actor, owed>>
  <2> DEFINE budget == IF Len(Nodes) < RetainTokens THEN 1 ELSE Len(Nodes) - Compacting!Max({RetainTokens, 1}) + 1
             cuts == {i \in 2 .. budget : Compacting!Balanced(surface, Nodes, i)}
  <2>1. keep = IF cuts = {} THEN 0 ELSE Compacting!Max(cuts)
    BY DEF Compacting!KeepFrom
  <2>2. Len(Nodes) \in Nat /\ Nodes \in Seq(Nat) /\ \A i \in 1 .. Len(Nodes) : Nodes[i] \in Nat
    BY NodesOf DEF CompactionInv, SurfaceInv, SurfaceState, Nodes
  <2>3. budget \in Int /\ (budget <= Len(Nodes) \/ budget = 1)
    <3>1. Compacting!Max({RetainTokens, 1}) \in Int /\ Compacting!Max({RetainTokens, 1}) >= 1
      <4>1. \E x \in {RetainTokens, 1} : \A y \in {RetainTokens, 1} : x >= y
        BY CompactionAssumption
      <4>2. QED
        BY <4>1, CompactionAssumption DEF Compacting!Max
    <3>2. QED
      BY <2>2, <3>1
  <2>4. cuts # {} /\ cuts \subseteq 2 .. Len(Nodes)
    <3>1. cuts # {}
      BY <1>3, <2>1, Zenon
    <3> HIDE DEF budget
    <3>2. \A i \in 2 .. budget : i \in 2 .. Len(Nodes)
      BY <2>2, <2>3
    <3>3. cuts \subseteq 2 .. Len(Nodes)
      BY <3>2, Zenon
    <3>4. QED
      BY <3>1, <3>3
  <2> HIDE DEF cuts
  <2>5. Compacting!Max(cuts) \in cuts
    <3>1. cuts \in SUBSET (1 .. Len(Nodes))
      BY <2>2, <2>4
    <3>2. QED
      BY <2>2, <2>4, <3>1, GreatestOf
  <2>6. keep \in cuts
    BY <2>1, <2>4, <2>5
  <2> HIDE DEF keep, budget
  <2>7. keep - 1 \in 1 .. Len(Nodes) /\ (keep - 1) + 1 = keep /\ 1 \in 1 .. Len(Nodes)
    <3>1. keep \in 2 .. Len(Nodes)
      BY <2>4, <2>6, Zenon
    <3>2. QED
      BY <2>2, <3>1
  <2>8. Compacting!Balanced(surface, Nodes, (keep - 1) + 1)
    BY <1>3 DEF Compacting!ValidRegion
  <2>9. SubSeq(Nodes, 1, keep - 1) \in Seq(Nat)
    BY <2>2, <2>7, SubSeqProperties
  <2>10. tx \in TxType
    BY DEF CompactionInv, TxInv
  <2>11. /\ tx' \in TxType /\ tx'.pc = "start" /\ tx'.first = Nodes[1] /\ tx'.last = Nodes[keep - 1]
         /\ tx'.shadowed = SubSeq(Nodes, 1, keep - 1)
    BY <1>3, <2>2, <2>7, <2>9, <2>10 DEF TxType
  <2>12. Nodes' = Nodes
    BY <1>1 DEF Nodes
  <2>13. TxInv'
    BY <1>1, <2>7, <2>8, <2>11, <2>12 DEF TxInv
  <2>14. QED
    BY <1>1, <1>3, <2>13, LogStays
<1>4. QED
  BY <1>1, <1>2, <1>3

LEMMA CompactStartStep ==
    ASSUME CompactionInv, Compacting!Start
    PROVE  CompactionInv'
<1>1. actor = "compact" /\ tx.pc = "start" /\ owed = <<>> /\ tx \in TxType
  BY CompactsIdle DEF Compacting!Start, CompactionInv, TxInv
<1>2. CASE /\ Compacting!Emits(Compacting!Event("compaction/start", "none"))
           /\ tx' = [tx EXCEPT !.pc = "summarize", !.begun = Len(surface) + 1]
           /\ UNCHANGED <<actor, owed, notes, crashes>>
  <2>1. SurfaceInv' /\ PairedInv' /\ OwedInv' /\ Nodes' = Nodes /\ \E e \in LogEvent : surface' = Append(surface, e)
    BY <1>2, QuietEventStep
  <2>2. Len(surface) + 1 \in Nat /\ Len(surface) + 1 \in DOMAIN surface'
    BY <2>1, Logged DEF CompactionInv
  <2>3. /\ tx' \in TxType /\ tx'.pc = "summarize" /\ tx'.begun = Len(surface) + 1
        /\ tx'.first = tx.first /\ tx'.last = tx.last /\ tx'.shadowed = tx.shadowed
    BY <1>1, <1>2, <2>2 DEF TxType
  <2>4. TxInv'
    BY <1>1, <1>2, <2>1, <2>2, <2>3, GoingOnTx
  <2>5. QED
    BY <2>1, <2>4 DEF CompactionInv
<1>3. CASE Compacting!Fails /\ Compacting!Done
  BY <1>1, <1>3, DoneTx, LogStays DEF Compacting!Fails
<1>4. QED
  BY <1>2, <1>3 DEF Compacting!Start

LEMMA SummarizeStep ==
    ASSUME CompactionInv, Compacting!Summarize
    PROVE  CompactionInv'
<1>1. actor = "compact" /\ tx.pc = "summarize" /\ surface' = surface /\ tx \in TxType /\ tx.begun \in DOMAIN surface
  BY DEF Compacting!Summarize, CompactionInv, TxInv
<1>2. CASE Compacting!Proceeds("close")
  BY <1>1, <1>2, ClosingTx, LogStays
<1>3. CASE Compacting!Proceeds("summary")
  <2>1. tx' = [tx EXCEPT !.pc = "summary"] /\ owed' = owed /\ actor' = actor
    BY <1>3 DEF Compacting!Proceeds
  <2>2. /\ tx' \in TxType /\ tx'.pc = "summary" /\ tx'.begun = tx.begun
        /\ tx'.first = tx.first /\ tx'.last = tx.last /\ tx'.shadowed = tx.shadowed
    BY <1>1, <2>1 DEF TxType
  <2>3. Nodes' = Nodes
    BY <1>1 DEF Nodes
  <2>4. TxInv'
    BY <1>1, <2>1, <2>2, <2>3, GoingOnTx
  <2>5. QED
    BY <1>1, <2>1, <2>4, LogStays
<1>4. QED
  BY <1>2, <1>3 DEF Compacting!Summarize

LEMMA SummaryStep ==
    ASSUME CompactionInv, Compacting!Summary
    PROVE  CompactionInv'
<1>1. actor = "compact" /\ tx.pc = "summary" /\ owed = <<>> /\ tx \in TxType /\ tx.begun \in DOMAIN surface
  BY CompactsIdle DEF Compacting!Summary, CompactionInv, TxInv
<1>2. CASE /\ Compacting!Emits(Compacting!Event("compaction/summary", "none"))
           /\ tx' = [tx EXCEPT !.pc = "replace", !.summary = Len(surface) + 1]
           /\ UNCHANGED <<actor, owed, notes, crashes>>
  <2>1. SurfaceInv' /\ PairedInv' /\ OwedInv' /\ Nodes' = Nodes /\ \E e \in LogEvent : surface' = Append(surface, e)
    BY <1>2, QuietEventStep
  <2>2. Len(surface) + 1 \in Nat /\ Len(surface) + 1 \in DOMAIN surface' /\ tx.begun \in DOMAIN surface'
    BY <1>1, <2>1, Logged DEF CompactionInv
  <2>3. /\ tx' \in TxType /\ tx'.pc = "replace" /\ tx'.summary = Len(surface) + 1 /\ tx'.begun = tx.begun
        /\ tx'.first = tx.first /\ tx'.last = tx.last /\ tx'.shadowed = tx.shadowed
    BY <1>1, <1>2, <2>2 DEF TxType
  <2>4. TxInv'
    BY <1>1, <1>2, <2>1, <2>2, <2>3, GoingOnTx
  <2>5. QED
    BY <2>1, <2>4 DEF CompactionInv
<1>3. CASE Compacting!Fails /\ Compacting!Proceeds("close")
  BY <1>1, <1>3, ClosingTx, LogStays DEF Compacting!Fails
<1>4. QED
  BY <1>2, <1>3 DEF Compacting!Summary

LEMMA CompactEndStep ==
    ASSUME CompactionInv, Compacting!End
    PROVE  CompactionInv'
<1>1. actor = "compact" /\ owed = <<>>
  BY CompactsIdle DEF Compacting!End
<1>2. CASE Compacting!Emits(Compacting!Event("compaction/end", "none")) /\ Compacting!Done
  <2>1. TxInv' /\ owed' = owed
    BY <1>2, DoneTx
  <2>2. SurfaceInv' /\ PairedInv' /\ OwedInv'
    BY <1>1, <1>2, <2>1, QuietEventStep
  <2>3. QED
    BY <2>1, <2>2 DEF CompactionInv
<1>3. CASE Compacting!Fails /\ Compacting!Done
  BY <1>1, <1>3, DoneTx, LogStays DEF Compacting!Fails
<1>4. CASE Compacting!Fails /\ Compacting!Proceeds("close")
  BY <1>1, <1>4, ClosingTx, LogStays DEF Compacting!Fails
<1>5. QED
  BY <1>2, <1>3, <1>4 DEF Compacting!End

LEMMA CheckpointIs ==
    Compacting!Checkpoint = [type |-> "user/message", op |-> "replace", calls |-> 0, of |-> <<0, 0>>,
                             first |-> tx.first, last |-> tx.last,
                             sources |-> {tx.begun, tx.summary} \cup Compacting!Range(tx.shadowed)]
<1> DEFINE sources == {tx.begun, tx.summary} \cup Compacting!Range(tx.shadowed)
<1>1. Compacting!Checkpoint
        = [Compacting!Event("user/message", "replace") EXCEPT !.first = tx.first, !.last = tx.last, !.sources = sources]
  BY DEF Compacting!Checkpoint
<1> HIDE DEF sources
<1>2. Compacting!Checkpoint = [type |-> "user/message", op |-> "replace", calls |-> 0, of |-> <<0, 0>>,
                               first |-> tx.first, last |-> tx.last, sources |-> sources]
  BY <1>1 DEF Compacting!Event
<1>3. QED
  BY <1>2 DEF sources

LEMMA NodesReplaced ==
    ASSUME NEW t \in SurfaceState, t.ok, NEW new \in Seq(Nat)
    PROVE  [t EXCEPT !.nodes = new] = [nodes |-> new, ok |-> TRUE]
<1>1. [t EXCEPT !.nodes = new] \in SurfaceState /\ [t EXCEPT !.nodes = new].nodes = new
      /\ [t EXCEPT !.nodes = new].ok = t.ok
  BY DEF SurfaceState
<1>2. t.ok = TRUE
  BY DEF SurfaceState
<1>3. \A u \in SurfaceState : u = [nodes |-> u.nodes, ok |-> u.ok]
  BY DEF SurfaceState
<1>4. QED
  BY <1>1, <1>2, <1>3, Zenon

(* The checkpoint replaces the selected span, which is balanced: a result   *)
(* that stays has its call among the nodes that stay.                       *)
LEMMA CheckpointFolded ==
    ASSUME CompactionInv, actor = "compact", tx.pc = "replace", Compacting!Emits(Compacting!Checkpoint)
    PROVE  SurfaceInv' /\ PairedInv'
<1> DEFINE e == Compacting!Checkpoint
           seq == Len(surface) + 1
<1>1. /\ SurfaceInv /\ PairedInv /\ tx \in TxType /\ surface' = Append(surface, e)
      /\ Nodes \in Seq(Nat) /\ Len(Nodes) \in Nat /\ DOMAIN Nodes = 1 .. Len(Nodes)
      /\ \A i \in 1 .. Len(Nodes) : Nodes[i] \in DOMAIN surface /\ Nodes[i] \in Nat
      /\ DOMAIN surface = 1 .. Len(surface) /\ Len(surface) \in Nat /\ seq \in Nat
  BY NodesOf DEF CompactionInv, SurfaceInv, TxInv, SurfaceState, Nodes, Compacting!Emits
<1>2. PICK n \in 1 .. Len(Nodes) :
        /\ tx.shadowed = SubSeq(Nodes, 1, n) /\ tx.first = Nodes[1] /\ tx.last = Nodes[n]
        /\ Compacting!Balanced(surface, Nodes, n + 1)
        /\ tx.begun \in DOMAIN surface /\ tx.summary \in DOMAIN surface
  BY DEF CompactionInv, TxInv
<1>3. /\ n \in Nat /\ n >= 1 /\ n <= Len(Nodes) /\ 1 \in 1 .. Len(Nodes)
      /\ \A k \in 1 .. n : k \in 1 .. Len(Nodes)
  BY <1>1
<1>4. Len(tx.shadowed) = n /\ DOMAIN tx.shadowed = 1 .. n /\ \A k \in 1 .. n : tx.shadowed[k] = Nodes[k]
  <2>1. /\ SubSeq(Nodes, 1, n) \in Seq(Nat) /\ Len(SubSeq(Nodes, 1, n)) = n
        /\ \A i \in 1 .. n : SubSeq(Nodes, 1, n)[i] = Nodes[i]
    BY <1>1, <1>3
  <2>2. QED
    BY <1>2, <2>1
<1>5. Compacting!Range(tx.shadowed) = {Nodes[k] : k \in 1 .. n}
  BY <1>4 DEF Compacting!Range
<1> DEFINE sources == {tx.begun, tx.summary} \cup {Nodes[k] : k \in 1 .. n}
<1>6. sources \subseteq DOMAIN surface /\ \A s \in sources : s < seq /\ s \in Nat
  <2>1. sources \subseteq DOMAIN surface
    BY <1>1, <1>2, <1>3
  <2> HIDE DEF sources
  <2>2. QED
    BY <1>1, <2>1
<1>7. /\ e \in LogEvent /\ e.op = "replace" /\ e.type = "user/message" /\ e.first = Nodes[1] /\ e.last = Nodes[n]
      /\ e.sources = sources
  <2>1. e = [type |-> "user/message", op |-> "replace", calls |-> 0, of |-> <<0, 0>>,
             first |-> Nodes[1], last |-> Nodes[n], sources |-> sources]
    <3>1. e = [type |-> "user/message", op |-> "replace", calls |-> 0, of |-> <<0, 0>>,
               first |-> tx.first, last |-> tx.last,
               sources |-> {tx.begun, tx.summary} \cup Compacting!Range(tx.shadowed)]
      BY CheckpointIs
    <3> HIDE DEF e
    <3>2. QED
      BY <1>2, <1>5, <3>1, Zenon
  <2>2. Nodes[1] \in Nat /\ Nodes[n] \in Nat /\ sources \in SUBSET Nat /\ <<0, 0>> \in Nat \X Nat
    BY <1>1, <1>3, <1>6
  <2> HIDE DEF e, sources
  <2>3. QED
    BY <2>1, <2>2 DEF LogEvent
<1>8. Compacting!Position(Nodes, Nodes[1]) = {1} /\ Compacting!Position(Nodes, Nodes[n]) = {n}
  BY <1>1, <1>3 DEF SurfaceInv, Compacting!Position
<1> HIDE DEF e
<1>9. Compacting!Replaceable(Nodes, e, seq)
  <2>1. {Nodes[k] : k \in 1 .. n} \subseteq sources
    OBVIOUS
  <2>2. QED
    BY <1>3, <1>6, <1>7, <1>8, <2>1 DEF Compacting!Replaceable
<1> HIDE DEF sources
<1> DEFINE rest == SubSeq(Nodes, n + 1, Len(Nodes))
           new == SubSeq(Nodes, 1, 1 - 1) \o <<seq>> \o rest
<1>10. Compacting!FoldSurface(surface') = [nodes |-> new, ok |-> TRUE]
  <2>1. Compacting!FoldSurface(surface') = Compacting!ApplySurfaceEvent(Compacting!FoldSurface(surface), e, seq)
    BY <1>1, <1>7, Logged
  <2>2. /\ Compacting!FoldSurface(surface).nodes = Nodes
        /\ Compacting!FoldSurface(surface) \in SurfaceState /\ Compacting!FoldSurface(surface).ok
    BY <1>1 DEF SurfaceInv, Nodes
  <2>3. Compacting!Min({1}) = 1 /\ Compacting!Min({n}) = n
    BY <1>3 DEF Compacting!Min
  <2> HIDE DEF new
  <2>4. Compacting!ApplySurfaceEvent(Compacting!FoldSurface(surface), e, seq)
          = [Compacting!FoldSurface(surface) EXCEPT !.nodes = new]
    BY <1>7, <1>8, <1>9, <2>2, <2>3 DEF Compacting!ApplySurfaceEvent, new
  <2>5. [Compacting!FoldSurface(surface) EXCEPT !.nodes = new] = [nodes |-> new, ok |-> TRUE]
    <3>1. Compacting!FoldSurface(surface') \in SurfaceState
      BY <1>1, <1>7, Logged
    <3>2. [Compacting!FoldSurface(surface) EXCEPT !.nodes = new].nodes = new
      BY <2>2 DEF SurfaceState
    <3>3. new \in Seq(Nat)
      BY <2>1, <2>4, <3>1, <3>2 DEF SurfaceState
    <3>4. QED
      BY <2>2, <3>3, NodesReplaced
  <2>6. QED
    BY <2>1, <2>4, <2>5, Zenon
<1>11. Nodes' = new
  BY <1>10 DEF Nodes
<1>12. /\ rest \in Seq(Nat) /\ Len(rest) = Len(Nodes) - n
       /\ \A i \in 1 .. Len(Nodes) - n : rest[i] = Nodes[n + i]
  <2> DEFINE end == Len(Nodes)
  <2>1. end \in Int /\ n + 1 \in Int /\ end \in Nat /\ n <= end
    BY <1>1, <1>3
  <2>2. \A i \in n + 1 .. end : Nodes[i] \in Nat
    BY <1>1, <1>3
  <2> HIDE DEF end
  <2>3. /\ SubSeq(Nodes, n + 1, end) \in Seq(Nat)
        /\ Len(SubSeq(Nodes, n + 1, end)) = IF n + 1 <= end THEN end - (n + 1) + 1 ELSE 0
        /\ \A i \in 1 .. end - (n + 1) + 1 : SubSeq(Nodes, n + 1, end)[i] = Nodes[n + 1 + i - 1]
    BY <2>1, <2>2, SubSeqProperties
  <2>4. /\ end - (n + 1) + 1 = end - n /\ (n + 1 <= end \/ end - n = 0)
        /\ \A i \in 1 .. end - n : n + 1 + i - 1 = n + i
    BY <1>3, <2>1
  <2>5. rest = SubSeq(Nodes, n + 1, end)
    BY DEF end
  <2> HIDE DEF rest
  <2>6. Len(rest) = end - n
    BY <2>3, <2>4, <2>5
  <2>7. \A i \in 1 .. end - n : rest[i] = Nodes[n + i]
    BY <2>3, <2>4, <2>5
  <2>8. QED
    BY <2>3, <2>5, <2>6, <2>7, Zenon DEF end
<1> HIDE DEF rest
<1>13. new = <<seq>> \o rest
  <2>1. SubSeq(Nodes, 1, 1 - 1) = <<>>
    BY <1>1
  <2>2. <<>> \o <<seq>> = <<seq>>
    OBVIOUS
  <2>3. QED
    BY <2>1, <2>2, Zenon
<1> HIDE DEF new
<1>14. /\ new \in Seq(Nat) /\ Len(new) = Len(Nodes) - n + 1 /\ DOMAIN new = 1 .. Len(Nodes) - n + 1
       /\ new[1] = seq /\ \A i \in 2 .. Len(Nodes) - n + 1 : new[i] = Nodes[n + i - 1]
  <2>1. <<seq>> \in Seq(Nat) /\ Len(<<seq>>) = 1 /\ <<seq>>[1] = seq
    BY <1>1
  <2>2. /\ new \in Seq(Nat) /\ Len(new) = 1 + (Len(Nodes) - n)
        /\ \A i \in 1 .. 1 + (Len(Nodes) - n) : new[i] = IF i <= 1 THEN <<seq>>[i] ELSE rest[i - 1]
    <3>1. /\ <<seq>> \o rest \in Seq(Nat) /\ Len(<<seq>> \o rest) = Len(<<seq>>) + Len(rest)
          /\ \A i \in 1 .. Len(<<seq>>) + Len(rest) :
               (<<seq>> \o rest)[i] = IF i <= Len(<<seq>>) THEN <<seq>>[i] ELSE rest[i - Len(<<seq>>)]
      <4> DEFINE one == <<seq>>
      <4>1. one \in Seq(Nat)
        BY <2>1
      <4> HIDE DEF one
      <4>2. /\ one \o rest \in Seq(Nat) /\ Len(one \o rest) = Len(one) + Len(rest)
            /\ \A i \in 1 .. Len(one) + Len(rest) :
                 (one \o rest)[i] = IF i <= Len(one) THEN one[i] ELSE rest[i - Len(one)]
        BY <1>12, <4>1, ConcatProperties
      <4>3. QED
        BY <4>2 DEF one
    <3>2. QED
      BY <1>12, <1>13, <2>1, <3>1, Zenon
  <2>3. new[1] = seq
    BY <1>3, <2>1, <2>2
  <2>4. ASSUME NEW i \in 2 .. Len(Nodes) - n + 1 PROVE new[i] = Nodes[n + i - 1]
    <3>1. i \in 1 .. 1 + (Len(Nodes) - n) /\ ~(i <= 1) /\ i - 1 \in 1 .. Len(Nodes) - n /\ n + (i - 1) = n + i - 1
      BY <1>1, <1>3
    <3>2. new[i] = rest[i - 1] /\ rest[i - 1] = Nodes[n + (i - 1)]
      BY <1>12, <2>2, <3>1, Zenon
    <3>3. QED
      BY <3>1, <3>2, Zenon
  <2>5. 1 + (Len(Nodes) - n) = Len(Nodes) - n + 1 /\ DOMAIN new = 1 .. Len(new)
    BY <1>1, <1>3, <2>2
  <2>6. QED
    BY <2>2, <2>3, <2>4, <2>5, Zenon
<1>15. \A i \in 1 .. Len(Nodes) - n + 1 : i = 1 \/ (i \in 2 .. Len(Nodes) - n + 1 /\ n + i - 1 \in n + 1 .. Len(Nodes)
         /\ n + i - 1 \in 1 .. Len(Nodes))
  BY <1>1, <1>3
<1>16. /\ surface' \in Seq(LogEvent) /\ surface'[seq] = e /\ seq \in DOMAIN surface' /\ seq \notin DOMAIN surface
       /\ \A s \in DOMAIN surface : surface'[s] = surface[s] /\ s \in DOMAIN surface'
       /\ \A s \in DOMAIN surface' : s \in DOMAIN surface \/ s = seq
       /\ Compacting!FoldSurface(surface') \in SurfaceState
  BY <1>1, <1>7, Logged
<1> HIDE DEF seq
<1>17. ASSUME NEW j \in DOMAIN Nodes'
       PROVE  \/ j = 1 /\ Nodes'[j] = seq
              \/ (/\ j \in 2 .. Len(Nodes) - n + 1 /\ n + j - 1 \in n + 1 .. Len(Nodes) /\ n + j - 1 \in 1 .. Len(Nodes)
                  /\ Nodes'[j] = Nodes[n + j - 1] /\ Nodes'[j] \in DOMAIN surface)
  BY <1>1, <1>11, <1>14, <1>15
<1>18. SurfaceInv'
  <2>1. \A j \in DOMAIN Nodes' : Nodes'[j] \in DOMAIN surface'
    BY <1>16, <1>17
  <2>2. Nodes' \in Seq(DOMAIN surface')
    <3>1. new \in Seq(Nat) /\ \A i \in DOMAIN new : new[i] \in DOMAIN surface'
      BY <1>11, <1>14, <2>1, Zenon
    <3>2. new \in Seq(DOMAIN surface')
      BY <3>1, InSeq, Zenon
    <3>3. QED
      BY <1>11, <3>2, Zenon
  <2>3. ASSUME NEW i \in DOMAIN Nodes', NEW j \in DOMAIN Nodes', Nodes'[i] = Nodes'[j] PROVE i = j
    <3>1. CASE Nodes'[i] = seq
      BY <1>16, <1>17, <2>3, <3>1
    <3>2. CASE Nodes'[i] # seq
      <4>1. /\ n + i - 1 \in DOMAIN Nodes /\ n + j - 1 \in DOMAIN Nodes /\ Nodes[n + i - 1] = Nodes[n + j - 1]
            /\ i \in Nat /\ j \in Nat
        <5>1. n + i - 1 \in 1 .. Len(Nodes) /\ Nodes'[i] = Nodes[n + i - 1] /\ i \in 2 .. Len(Nodes) - n + 1
          BY <1>17, <3>2
        <5>2. n + j - 1 \in 1 .. Len(Nodes) /\ Nodes'[j] = Nodes[n + j - 1] /\ j \in 2 .. Len(Nodes) - n + 1
          BY <1>17, <2>3, <3>2
        <5>3. Nodes[n + i - 1] = Nodes[n + j - 1]
          BY <2>3, <5>1, <5>2, Zenon
        <5>4. i \in Nat /\ j \in Nat
          BY <5>1, <5>2
        <5>5. QED
          BY <1>1, <5>1, <5>2, <5>3, <5>4, Zenon
      <4>2. n + i - 1 = n + j - 1
        BY <1>1, <4>1 DEF SurfaceInv
      <4>3. QED
        BY <1>3, <4>1, <4>2
    <3>3. QED
      BY <3>1, <3>2
  <2>4. Compacting!FoldSurface(surface').ok
    BY <1>10
  <2>5. QED
    BY <1>16, <2>2, <2>3, <2>4 DEF SurfaceInv
<1>19. \A s \in DOMAIN surface' : IsResult(s)' => s \in DOMAIN surface /\ IsResult(s)
  BY <1>7, <1>16 DEF IsResult
<1>20. PairedInv'
  <2>1. ASSUME NEW j \in DOMAIN Nodes', IsResult(Nodes[j])' PROVE CalledBefore(surface[Nodes[j]].of, j)'
    <3>1. surface'[Nodes'[j]].type = "tool/result"
      BY <2>1 DEF IsResult
    <3>2. /\ j \in 2 .. Len(Nodes) - n + 1 /\ n + j - 1 \in n + 1 .. Len(Nodes)
          /\ Nodes'[j] = Nodes[n + j - 1] /\ Nodes'[j] \in DOMAIN surface
      BY <1>7, <1>16, <1>17, <3>1
    <3>3. surface'[Nodes'[j]] = surface[Nodes[n + j - 1]] /\ IsResult(Nodes[n + j - 1])
      BY <1>16, <3>1, <3>2 DEF IsResult
    <3> DEFINE c == surface[Nodes[n + j - 1]].of
    <3>4. PICK i \in n + 1 .. (n + j - 1) - 1 : Nodes[i] = c[1] /\ c[2] \in 1 .. surface[Nodes[i]].calls
      BY <1>1, <1>2, <3>2, <3>3, BalancedCut
    <3>5. /\ i - n + 1 \in 2 .. j - 1 /\ i - n + 1 \in 1 .. j - 1 /\ n + (i - n + 1) - 1 = i
          /\ i - n + 1 \in 2 .. Len(Nodes) - n + 1 /\ i \in 1 .. Len(Nodes)
      <4> DEFINE end == Len(Nodes)
      <4>1. end \in Nat /\ n \in Nat /\ n <= end /\ n >= 1 /\ j \in 2 .. end - n + 1
        BY <1>1, <1>3, <3>2
      <4> HIDE DEF end
      <4>2. i \in Int /\ i >= n + 1 /\ i <= n + j - 2 /\ j \in Int /\ j <= end - n + 1
        BY <4>1
      <4>3. i - n + 1 >= 2 /\ i - n + 1 <= j - 1 /\ i - n + 1 <= end - n + 1 /\ i <= end /\ i >= 1
        BY <4>1, <4>2
      <4>4. QED
        BY <4>1, <4>2, <4>3 DEF end
    <3>6. Nodes'[i - n + 1] = Nodes[i] /\ surface'[Nodes[i]] = surface[Nodes[i]]
      BY <1>1, <1>11, <1>14, <1>16, <3>5
    <3>7. /\ Nodes'[i - n + 1] = surface'[Nodes'[j]].of[1]
          /\ surface'[Nodes'[j]].of[2] \in 1 .. surface'[Nodes'[i - n + 1]].calls
      BY <3>3, <3>4, <3>6
    <3>8. QED
      BY <3>5, <3>7 DEF CalledBefore
  <2>2. ASSUME NEW s \in DOMAIN surface', NEW t \in DOMAIN surface', IsResult(s)', IsResult(t)',
               surface'[s].of = surface'[t].of
        PROVE  s = t
    BY <1>1, <1>16, <1>19, <2>2 DEF PairedInv
  <2>3. \A s \in DOMAIN surface' : IsResult(s)' => surface'[s].of[1] \in DOMAIN surface'
    BY <1>1, <1>16, <1>19 DEF PairedInv
  <2>4. QED
    BY <2>1, <2>2, <2>3 DEF PairedInv
<1>21. QED
  BY <1>18, <1>20

LEMMA ReplaceStep ==
    ASSUME CompactionInv, Compacting!Replace
    PROVE  CompactionInv'
<1>1. actor = "compact" /\ tx.pc = "replace" /\ owed = <<>>
  BY CompactsIdle DEF Compacting!Replace
<1>2. CASE Compacting!Emits(Compacting!Checkpoint) /\ Compacting!Proceeds("end")
  <2>1. SurfaceInv' /\ PairedInv'
    BY <1>1, <1>2, CheckpointFolded
  <2>2. TxInv' /\ owed' = owed
    BY <1>2, ClosingTx
  <2>3. OwedInv'
    BY <1>1, <2>2 DEF CompactionInv, OwedInv
  <2>4. QED
    BY <2>1, <2>2, <2>3 DEF CompactionInv
<1>3. CASE Compacting!Fails /\ Compacting!Proceeds("close")
  BY <1>1, <1>3, ClosingTx, LogStays DEF Compacting!Fails
<1>4. QED
  BY <1>2, <1>3 DEF Compacting!Replace

LEMMA StoppedStep ==
    ASSUME CompactionInv, Compacting!TurnCut \/ Compacting!Crash
    PROVE  CompactionInv'
<1>1. surface' = surface /\ owed' = <<>> /\ actor' = "idle" /\ (tx' = tx \/ tx' = Compacting!NoTx)
  BY DEF Compacting!TurnCut, Compacting!Crash
<1>2. TxInv'
  BY <1>1, NoTxTyped DEF CompactionInv, TxInv
<1>3. QED
  BY <1>1, <1>2, LogStays

LEMMA CompactionInit == Compacting!Init => CompactionInv
<1> SUFFICES ASSUME Compacting!Init PROVE CompactionInv
  OBVIOUS
<1>1. surface = <<>> /\ owed = <<>> /\ tx = Compacting!NoTx /\ actor = "idle"
  BY DEF Compacting!Init
<1>2. surface \in Seq(LogEvent) /\ DOMAIN surface = {} /\ owed \in Seq(Nat \X Nat) /\ DOMAIN owed = {}
  BY <1>1
<1>3. Compacting!FoldSurface(surface) = [nodes |-> <<>>, ok |-> TRUE]
  BY <1>1, FoldOfNone
<1>4. Nodes = <<>>
  BY <1>3 DEF Nodes
<1>5. SurfaceInv
  <2>1. Compacting!FoldSurface(surface) \in SurfaceState /\ Compacting!FoldSurface(surface).ok
    BY <1>3 DEF SurfaceState
  <2>2. Nodes \in Seq(DOMAIN surface) /\ DOMAIN Nodes = {}
    BY <1>4
  <2>3. QED
    BY <1>2, <2>1, <2>2 DEF SurfaceInv
<1>6. PairedInv
  BY <1>2, <1>4 DEF PairedInv
<1>7. OwedInv
  BY <1>1, <1>2 DEF OwedInv
<1>8. TxInv
  BY <1>1, NoTxTyped DEF TxInv
<1>9. QED
  BY <1>5, <1>6, <1>7, <1>8 DEF CompactionInv

LEMMA CompactionStep == CompactionInv /\ [Compacting!Next]_Compacting!compactionVars => CompactionInv'
<1> SUFFICES ASSUME CompactionInv, [Compacting!Next]_Compacting!compactionVars PROVE CompactionInv'
  OBVIOUS
<1>1. CASE UNCHANGED Compacting!compactionVars
  <2>1. surface' = surface /\ owed' = owed /\ actor' = actor /\ tx' = tx
    BY <1>1 DEF Compacting!compactionVars
  <2>2. TxInv'
    BY <2>1 DEF CompactionInv, TxInv, Nodes
  <2>3. QED
    BY <2>1, <2>2, LogStays
<1>2. CASE Compacting!Next
  BY <1>2, UserMessageStep, AssistantMessageStep, ToolResultStep, StoppedStep, NoteStep, SelectRangeStep, CompactStartStep,
     SummarizeStep, SummaryStep, ReplaceStep, CompactEndStep DEF Compacting!Next
<1>3. QED
  BY <1>1, <1>2

(* No tool result stands on the surface without the message that made its   *)
(* call before it, whatever FoldSurface was given to replace: a span that   *)
(* ToolPairingBalancedBefore and After accept holds as many results as      *)
(* calls, and no call has two results, so none of its calls is answered     *)
(* outside.  For any number of calls, turns, crashes and retained tokens.   *)
THEOREM ResultsAreKeptWithCalls == Compacting!Spec => []ResultsKeepCalls
<1>1. CompactionInv => ResultsKeepCalls
  <2> SUFFICES ASSUME CompactionInv PROVE ResultsKeepCalls
    OBVIOUS
  <2>1. ASSUME NEW j \in DOMAIN Nodes, surface[Nodes[j]].type = "tool/result"
        PROVE  \E i \in 1 .. (j - 1) : Nodes[i] = surface[Nodes[j]].of[1]
    <3>1. CalledBefore(surface[Nodes[j]].of, j)
      BY <2>1 DEF CompactionInv, PairedInv, IsResult
    <3>2. QED
      BY <3>1, Zenon DEF CalledBefore
  <2>2. Compacting!FoldSurface(surface).ok
    BY DEF CompactionInv, SurfaceInv
  <2>3. QED
    BY <2>1, <2>2, Zenon DEF ResultsKeepCalls, Compacting!ResultsKeepCalls, Nodes
<1>2. QED
  BY <1>1, CompactionInit, CompactionStep, PTL DEF Compacting!Spec
================================================================================
