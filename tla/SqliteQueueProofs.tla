------------------------- MODULE SqliteQueueProofs -------------------------
(***************************************************************************)
(* Theorems about SqliteQueue, for every set of jobs, goroutines and       *)
(* groups, every limit and every bound.                                    *)
(***************************************************************************)
EXTENDS SqliteQueue, FiniteSetTheorems, TLAPS

\* A job tree consists of job identifiers.
LEMMA JobTreeType == ASSUME NEW j PROVE JobTree(j) \subseteq Jobs
BY DEF JobTree, Rows

\* Sets of goroutines are finite.
LEMMA ActiveFinite ==
    /\ IsFiniteSet(Active) /\ Cardinality(Active) \in Nat
    /\ \A g : IsFiniteSet(OnGroup(g)) /\ Cardinality(OnGroup(g)) \in Nat
<1>1. \A S \in SUBSET Workers : IsFiniteSet(S) /\ Cardinality(S) \in Nat
  BY WorkersAssumption, FS_Subset, FS_CardinalityType
<1>2. Active \in SUBSET Workers /\ \A g : OnGroup(g) \in SUBSET Workers
  BY DEF Active, OnGroup
<1> QED BY <1>1, <1>2

\* Sets of jobs are finite.
LEMMA JobsFinite ==
    ASSUME NEW C \in SUBSET Jobs
    PROVE  /\ IsFiniteSet(C) /\ Cardinality(C) \in Nat
           /\ \A g : IsFiniteSet(InGroup(C, g)) /\ Cardinality(InGroup(C, g)) \in Nat
<1>1. \A S \in SUBSET Jobs : IsFiniteSet(S) /\ Cardinality(S) \in Nat
  BY JobsAssumption, FS_Subset, FS_CardinalityType
<1>2. \A g : InGroup(C, g) \in SUBSET Jobs
  BY DEF InGroup
<1> QED BY <1>1, <1>2

\* A disjoint union of finite sets has as many elements as both together.
LEMMA DisjointUnion ==
    ASSUME NEW S, NEW T, IsFiniteSet(S), IsFiniteSet(T), S \cap T = {}
    PROVE  /\ IsFiniteSet(S \cup T)
           /\ Cardinality(S \cup T) = Cardinality(S) + Cardinality(T)
<1>1. Cardinality(S \cap T) = 0
  BY FS_EmptySet
<1>2. Cardinality(S) \in Nat /\ Cardinality(T) \in Nat
  BY FS_CardinalityType
<1>3. /\ IsFiniteSet(S \cup T)
      /\ Cardinality(S \cup T) = Cardinality(S) + Cardinality(T) - Cardinality(S \cap T)
  BY FS_Union
<1> QED BY <1>1, <1>2, <1>3

----------------------------------------------------------------------------
\* The accounting of slots, globally and per group, with the types.
Accounting == TypeOK /\ SlotAccounting /\ GroupAccounting

\* Starting one goroutine for each job of C adds as many goroutines, in every
\* group, as C has jobs.
LEMMA StartCounts ==
    ASSUME TypeOK, NEW C \in SUBSET Jobs,
           NEW G \in SUBSET (Workers \ Active), NEW start \in Bijection(G, C),
           exec' = [w \in Workers |-> IF w \in G THEN Dispatched(start[w]) ELSE exec[w]]
    PROVE  /\ Active' = Active \cup G
           /\ \A w \in G : start[w] \in C /\ exec'[w] = Dispatched(start[w])
           /\ Cardinality(Active') = Cardinality(Active) + Cardinality(C)
           /\ \A g : Cardinality(OnGroup(g)') = Cardinality(OnGroup(g))
                                                  + Cardinality(InGroup(C, g))
<1>1. /\ start \in [G -> C]
      /\ \A a, b \in G : start[a] = start[b] => a = b
      /\ \A c \in C : \E w \in G : start[w] = c
  BY DEF Bijection, Injection, Surjection, IsInjective
<1>2. \A w \in G : start[w] \in C /\ exec'[w] = Dispatched(start[w])
  BY <1>1
<1>3. Active' = Active \cup G
  BY <1>2 DEF Active, Dispatched
<1>4. IsFiniteSet(G) /\ IsFiniteSet(Active) /\ Active \cap G = {}
  BY ActiveFinite, WorkersAssumption, FS_Subset
<1>5. Cardinality(Active') = Cardinality(Active) + Cardinality(C)
  <2>1. Cardinality(C) = Cardinality(G)
    BY <1>4, FS_Bijection DEF ExistsBijection
  <2> QED BY <1>3, <1>4, <2>1, DisjointUnion
<1>6. ASSUME NEW g
      PROVE  Cardinality(OnGroup(g)') = Cardinality(OnGroup(g)) + Cardinality(InGroup(C, g))
  <2> DEFINE H == {w \in G : GroupOf[start[w]] = g}
  <2>1. OnGroup(g)' = OnGroup(g) \cup H
    BY <1>2, <1>3 DEF OnGroup, Active, Dispatched
  <2>2. IsFiniteSet(H) /\ IsFiniteSet(OnGroup(g)) /\ OnGroup(g) \cap H = {}
    BY <1>4, ActiveFinite, FS_Subset DEF OnGroup
  <2>3. [w \in H |-> start[w]] \in Bijection(H, InGroup(C, g))
    BY <1>1 DEF Bijection, Injection, Surjection, IsInjective, InGroup
  <2>4. Cardinality(InGroup(C, g)) = Cardinality(H)
    BY <2>2, <2>3, FS_Bijection DEF ExistsBijection
  <2> QED BY <2>1, <2>2, <2>4, DisjointUnion
<1> QED BY <1>2, <1>3, <1>5, <1>6

\* Ending a goroutine takes it out of the counts of its group and no other.
LEMMA EndCounts ==
    ASSUME TypeOK, NEW w \in Active, exec' = [exec EXCEPT ![w] = Idle]
    PROVE  /\ Active' = Active \ {w}
           /\ Cardinality(Active') = Cardinality(Active) - 1
           /\ \A g : Cardinality(OnGroup(g)') =
                        IF g = GroupOf[exec[w].job] THEN Cardinality(OnGroup(g)) - 1
                        ELSE Cardinality(OnGroup(g))
<1>1. Active' = Active \ {w} /\ \A v \in Active' : exec'[v] = exec[v]
  BY DEF TypeOK, Active, Idle
<1>2. Cardinality(Active') = Cardinality(Active) - 1
  BY <1>1, ActiveFinite, FS_RemoveElement
<1>3. ASSUME NEW g
      PROVE  Cardinality(OnGroup(g)') =
                IF g = GroupOf[exec[w].job] THEN Cardinality(OnGroup(g)) - 1
                ELSE Cardinality(OnGroup(g))
  <2>1. OnGroup(g)' = OnGroup(g) \ {w}
    BY <1>1 DEF OnGroup
  <2>2. w \in OnGroup(g) <=> g = GroupOf[exec[w].job]
    BY DEF OnGroup
  <2> QED BY <2>1, <2>2, ActiveFinite, FS_RemoveElement
<1> QED BY <1>1, <1>2, <1>3

\* A step that neither starts nor ends a goroutine and moves no counter keeps
\* the accounting.
LEMMA SteadyCounts ==
    ASSUME Accounting, UNCHANGED slots, faults' \in {faults, faults + 1},
           Active' = Active, \A w \in Active : exec'[w].job = exec[w].job
    PROVE  SlotAccounting' /\ GroupAccounting'
<1>1. Active' = Active /\ \A g : OnGroup(g)' = OnGroup(g)
  BY DEF OnGroup
<1>2. faults' = 0 => faults = 0
  BY DEF Accounting, TypeOK
<1> QED BY <1>1, <1>2 DEF Accounting, SlotAccounting, GroupAccounting, slots

\* Claiming the rows of C keeps the counters within their limits.
LEMMA ClaimKeepsLimits ==
    ASSUME Accounting, NEW C \in SUBSET Jobs, Claimable(C), TakeSlots(C)
    PROVE  /\ runningCount' \in Nat /\ activeGroups' \in [Groups -> Nat]
           /\ runningCount' = runningCount + Cardinality(C)
           /\ runningCount' <= MaxConcurrency
           /\ \A g \in Groups :
                 /\ activeGroups'[g] = activeGroups[g] + Cardinality(InGroup(C, g))
                 /\ GroupLimit[g] > 0 => activeGroups'[g] <= GroupLimit[g]
<1>1. /\ Cardinality(C) \in Nat
      /\ \A g : Cardinality(InGroup(C, g)) \in Nat
      /\ \A g : InGroup(C, g) = {} => Cardinality(InGroup(C, g)) = 0
  BY JobsFinite, FS_EmptySet
<1>2. runningCount \in Nat /\ activeGroups \in [Groups -> Nat]
  BY DEF Accounting, TypeOK
<1>3. ASSUME NEW g \in Groups
      PROVE  /\ activeGroups'[g] = activeGroups[g] + Cardinality(InGroup(C, g))
             /\ GroupLimit[g] > 0 => activeGroups'[g] <= GroupLimit[g]
  BY <1>1, <1>2, GroupsAssumption DEF TakeSlots, Claimable, Accounting, GroupAccounting
<1>4. runningCount' \in Nat /\ activeGroups' \in [Groups -> Nat]
  BY <1>1, <1>2 DEF TakeSlots
<1> QED BY <1>3, <1>4 DEF TakeSlots, Claimable

\* A goroutine that ends holds a slot, so the counters stay natural numbers
\* and go down with the goroutines.
LEMMA ReleaseKeepsAccounting ==
    ASSUME Accounting, NEW w \in Active, ReleaseSlot(w), faults' \in {faults, faults + 1}
    PROVE  /\ runningCount' \in Nat /\ activeGroups' \in [Groups -> Nat]
           /\ SlotAccounting' /\ GroupAccounting'
<1> DEFINE h == GroupOf[exec[w].job]
<1>1. /\ Active' = Active \ {w}
      /\ Cardinality(Active') = Cardinality(Active) - 1
      /\ \A g : Cardinality(OnGroup(g)') = IF g = h THEN Cardinality(OnGroup(g)) - 1
                                            ELSE Cardinality(OnGroup(g))
  BY EndCounts DEF Accounting, ReleaseSlot
<1>2. runningCount \in Nat /\ activeGroups \in [Groups -> Nat] /\ faults \in Nat
  BY DEF Accounting, TypeOK
<1>3. Cardinality(Active) >= 1 /\ Cardinality(OnGroup(h)) >= 1
  <2>1. w \in Active /\ w \in OnGroup(h)
    BY DEF OnGroup
  <2> QED BY <2>1, ActiveFinite, FS_EmptySet
<1>4. faults' = 0 => faults = 0
  BY <1>2
<1>5. runningCount' \in Nat /\ SlotAccounting'
  BY <1>1, <1>2, <1>3, <1>4, ActiveFinite, WorkersAssumption
     DEF ReleaseSlot, Accounting, SlotAccounting
<1>6. h \in Groups \cup {NoGroup}
  BY GroupsAssumption DEF Accounting, TypeOK
<1>7. activeGroups' = [g \in Groups |-> IF g = h THEN activeGroups[g] - 1 ELSE activeGroups[g]]
  BY <1>2, <1>6, GroupsAssumption DEF ReleaseSlot
<1>8. ASSUME NEW g \in Groups
      PROVE  /\ activeGroups'[g] \in Nat
             /\ Cardinality(OnGroup(g)') <= activeGroups'[g]
             /\ GroupLimit[g] > 0 => activeGroups'[g] <= GroupLimit[g]
             /\ faults' = 0 => activeGroups'[g] = Cardinality(OnGroup(g)')
  <2>1. /\ Cardinality(OnGroup(g)) \in Nat /\ activeGroups[g] \in Nat
        /\ GroupLimit[g] \in Nat
        /\ Cardinality(OnGroup(g)) <= activeGroups[g]
        /\ GroupLimit[g] > 0 => activeGroups[g] <= GroupLimit[g]
        /\ faults = 0 => activeGroups[g] = Cardinality(OnGroup(g))
    BY <1>2, ActiveFinite, GroupsAssumption DEF Accounting, GroupAccounting
  <2>2. CASE g = h
    <3>1. activeGroups'[g] = activeGroups[g] - 1
      BY <1>7, <2>2
    <3>2. Cardinality(OnGroup(g)') = Cardinality(OnGroup(g)) - 1
      BY <1>1, <2>2
    <3> QED BY <1>3, <1>4, <2>1, <2>2, <3>1, <3>2
  <2>3. CASE g # h
    <3>1. activeGroups'[g] = activeGroups[g]
      BY <1>7, <2>3
    <3>2. Cardinality(OnGroup(g)') = Cardinality(OnGroup(g))
      BY <1>1, <2>3
    <3> QED BY <1>4, <2>1, <3>1, <3>2
  <2> QED BY <2>2, <2>3
<1> QED BY <1>5, <1>7, <1>8 DEF GroupAccounting

LEMMA InitAccounting == Init => Accounting
<1> SUFFICES ASSUME Init PROVE Accounting
  OBVIOUS
<1>1. Active = {} /\ \A g : OnGroup(g) = {}
  BY DEF Init, Active, OnGroup, Idle
<1>2. Cardinality(Active) = 0 /\ \A g : Cardinality(OnGroup(g)) = 0
  BY <1>1, FS_EmptySet
<1>3. TypeOK
  BY <1>1 DEF Init, TypeOK, Idle, Statuses, Phases
<1>4. SlotAccounting /\ GroupAccounting
  BY <1>2, WorkersAssumption, GroupsAssumption DEF Init, SlotAccounting, GroupAccounting
<1> QED BY <1>3, <1>4 DEF Accounting

\* Actions on the table and on requests leave goroutines and counters alone.
LEMMA TableStepAccounting ==
    ASSUME Accounting, Creation \/ Removal \/ Stop
    PROVE  Accounting'
<1> USE DEF Accounting
<1>1. UNCHANGED <<exec, slots>> /\ faults' \in {faults, faults + 1}
  BY DEF Creation, Removal, ApiCreateJob, HandlerCreateChild, CreateJob, Enqueue,
         ApiEnqueueFails, HandlerEnqueueFails, ApiUndo, CancelJob, DeleteJob,
         CleanupSelect, CleanupDelete, Stop
<1>2. Active' = Active
  BY <1>1 DEF Active
<1>3. SlotAccounting' /\ GroupAccounting'
  BY <1>1, <1>2, SteadyCounts
<1>4. /\ exec' = exec /\ runningCount' = runningCount /\ activeGroups' = activeGroups
      /\ exec \in [Workers -> [phase : Phases, job : Jobs \cup {NoJob}, retries : Nat]]
      /\ \A w \in Active : exec[w].job \in Jobs
      /\ runningCount \in Nat /\ activeGroups \in [Groups -> Nat] /\ faults \in Nat
  BY <1>1 DEF TypeOK, slots
<1>5. CASE Creation
  <2>1. PICK j \in Jobs : \/ \E p \in Jobs \cup {NoJob} : ApiCreateJob(j, p)
                          \/ \E w \in Workers : HandlerCreateChild(w, j)
                          \/ Enqueue(j)
                          \/ ApiEnqueueFails(j)
                          \/ HandlerEnqueueFails(j)
                          \/ ApiUndo(j)
    BY <1>5 DEF Creation
  <2>2. ASSUME NEW p \in Jobs \cup {NoJob}, ApiCreateJob(j, p) PROVE TypeOK'
    BY <1>1, <1>2, <1>4, <2>2 DEF ApiCreateJob, CreateJob, TypeOK, Statuses, history
  <2>3. ASSUME NEW w \in Workers, HandlerCreateChild(w, j) PROVE TypeOK'
    BY <1>1, <1>2, <1>4, <2>3 DEF HandlerCreateChild, CreateJob, TypeOK, Statuses, history
  <2>4. ASSUME Enqueue(j) PROVE TypeOK'
    BY <1>1, <1>2, <1>4, <2>4 DEF Enqueue, TypeOK, Statuses
  <2>5. ASSUME ApiEnqueueFails(j) \/ HandlerEnqueueFails(j) PROVE TypeOK'
    BY <1>1, <1>2, <1>4, <2>5 DEF ApiEnqueueFails, HandlerEnqueueFails, TypeOK, table, history
  <2>6. ASSUME ApiUndo(j) PROVE TypeOK'
    BY <1>1, <1>2, <1>4, <2>6 DEF ApiUndo, DeleteRows, TypeOK, Statuses, table, history
  <2> QED BY <1>3, <2>1, <2>2, <2>3, <2>4, <2>5, <2>6
<1>6. CASE Removal
  <2>1. ASSUME NEW j \in Jobs, CancelJob(j) PROVE TypeOK'
    BY <1>1, <1>2, <1>4, <2>1, JobTreeType DEF CancelJob, TypeOK, Statuses, history
  <2>2. ASSUME NEW j \in Jobs, DeleteJob(j) PROVE TypeOK'
    BY <1>1, <1>2, <1>4, <2>2 DEF DeleteJob, DeleteRows, TypeOK, Statuses, history
  <2>3. ASSUME CleanupSelect PROVE TypeOK'
    BY <1>1, <1>2, <1>4, <2>3 DEF CleanupSelect, TypeOK, table, history
  <2>4. ASSUME CleanupDelete PROVE TypeOK'
    BY <1>1, <1>2, <1>4, <2>4 DEF CleanupDelete, DeleteRows, TypeOK, Statuses, history
  <2> QED BY <1>3, <1>6, <2>1, <2>2, <2>3, <2>4 DEF Removal
<1>7. CASE Stop
  BY <1>1, <1>3, <1>2, <1>4, <1>7 DEF Stop, TypeOK, table, history
<1> QED BY <1>5, <1>6, <1>7

\* A poll, successful or not.
LEMMA PollAccounting ==
    ASSUME Accounting, Polling
    PROVE  Accounting'
<1> USE DEF Accounting
<1>1. CASE PollAndDispatch
  <2>1. PICK C \in SUBSET Pending, U \in SUBSET Pending :
           /\ Claimable(C)
           /\ status' = [j \in Jobs |-> IF j \in C THEN "running"
                                        ELSE IF j \in U THEN "failed"
                                        ELSE status[j]]
           /\ TakeSlots(C)
           /\ \E G \in SUBSET (Workers \ Active) : \E start \in Bijection(G, C) :
                 exec' = [w \in Workers |->
                             IF w \in G THEN Dispatched(start[w]) ELSE exec[w]]
    BY <1>1 DEF PollAndDispatch
  <2>2. PICK G \in SUBSET (Workers \ Active) : \E start \in Bijection(G, C) :
           exec' = [w \in Workers |-> IF w \in G THEN Dispatched(start[w]) ELSE exec[w]]
    BY <2>1
  <2>3. PICK start \in Bijection(G, C) :
           exec' = [w \in Workers |-> IF w \in G THEN Dispatched(start[w]) ELSE exec[w]]
    BY <2>2
  <2>4. C \in SUBSET Jobs
    BY DEF Pending
  <2>5. /\ Active' = Active \cup G
        /\ \A w \in G : start[w] \in C /\ exec'[w] = Dispatched(start[w])
        /\ Cardinality(Active') = Cardinality(Active) + Cardinality(C)
        /\ \A g : Cardinality(OnGroup(g)') = Cardinality(OnGroup(g))
                                                + Cardinality(InGroup(C, g))
    <3>1. TypeOK
      OBVIOUS
    <3> HIDE DEF Accounting
    <3> QED BY <2>3, <2>4, <3>1, StartCounts
  <2>6. /\ runningCount' \in Nat /\ activeGroups' \in [Groups -> Nat]
        /\ runningCount' = runningCount + Cardinality(C)
        /\ runningCount' <= MaxConcurrency
        /\ \A g \in Groups :
              /\ activeGroups'[g] = activeGroups[g] + Cardinality(InGroup(C, g))
              /\ GroupLimit[g] > 0 => activeGroups'[g] <= GroupLimit[g]
    BY <2>1, <2>4, ClaimKeepsLimits
  <2>7. /\ UNCHANGED <<retries, parent, cancelled, creator, victims, mode, faults, restarts>>
        /\ UNCHANGED <<reopened, stranded>>
    BY <1>1 DEF PollAndDispatch, history
  <2>8. /\ exec' \in [Workers -> [phase : Phases, job : Jobs \cup {NoJob}, retries : Nat]]
        /\ \A w \in Active' : exec'[w].job \in Jobs
    <3>1. \A j \in C : /\ Dispatched(j) \in [phase : Phases, job : Jobs \cup {NoJob}, retries : Nat]
                       /\ Dispatched(j).job = j
      BY <2>4 DEF Dispatched, TypeOK, Phases
    <3> QED BY <2>3, <2>4, <2>5, <3>1 DEF TypeOK, Active
  <2>9. TypeOK'
    BY <2>1, <2>6, <2>7, <2>8 DEF TypeOK, Statuses
  <2>10. SlotAccounting'
    BY <2>4, <2>5, <2>6, <2>7, ActiveFinite, JobsFinite DEF SlotAccounting, TypeOK
  <2>11. GroupAccounting'
    <3> SUFFICES ASSUME NEW g \in Groups
                 PROVE  /\ Cardinality(OnGroup(g)') <= activeGroups'[g]
                        /\ GroupLimit[g] > 0 => activeGroups'[g] <= GroupLimit[g]
                        /\ faults' = 0 => activeGroups'[g] = Cardinality(OnGroup(g)')
      BY DEF GroupAccounting
    <3>1. Cardinality(OnGroup(g)) \in Nat /\ Cardinality(InGroup(C, g)) \in Nat
          /\ activeGroups[g] \in Nat
      BY <2>4, ActiveFinite, JobsFinite DEF TypeOK
    <3> QED BY <2>5, <2>6, <2>7, <3>1 DEF GroupAccounting
  <2> QED BY <2>9, <2>10, <2>11
<1>2. CASE PollClaimFails
  <2>1. PICK C \in SUBSET Pending : Claimable(C) /\ TakeSlots(C)
    BY <1>2 DEF PollClaimFails
  <2>2. C \in SUBSET Jobs
    BY DEF Pending
  <2>3. /\ runningCount' \in Nat /\ activeGroups' \in [Groups -> Nat]
        /\ runningCount' = runningCount + Cardinality(C)
        /\ runningCount' <= MaxConcurrency
        /\ \A g \in Groups :
              /\ activeGroups'[g] = activeGroups[g] + Cardinality(InGroup(C, g))
              /\ GroupLimit[g] > 0 => activeGroups'[g] <= GroupLimit[g]
    BY <2>1, <2>2, ClaimKeepsLimits
  <2>4. exec' = exec /\ faults' = faults + 1 /\ faults \in Nat
    BY <1>2 DEF PollClaimFails, TypeOK
  <2>5. Active' = Active /\ \A g : OnGroup(g)' = OnGroup(g)
    BY <2>4 DEF Active, OnGroup
  <2>6. TypeOK'
    BY <1>2, <2>3, <2>4, <2>5 DEF PollClaimFails, TypeOK, table, history
  <2>7. SlotAccounting'
    BY <2>2, <2>3, <2>4, <2>5, ActiveFinite, JobsFinite DEF SlotAccounting, TypeOK
  <2>8. GroupAccounting'
    <3> SUFFICES ASSUME NEW g \in Groups
                 PROVE  /\ Cardinality(OnGroup(g)') <= activeGroups'[g]
                        /\ GroupLimit[g] > 0 => activeGroups'[g] <= GroupLimit[g]
                        /\ faults' = 0 => activeGroups'[g] = Cardinality(OnGroup(g)')
      BY DEF GroupAccounting
    <3>1. Cardinality(OnGroup(g)) \in Nat /\ Cardinality(InGroup(C, g)) \in Nat
          /\ activeGroups[g] \in Nat
      BY <2>2, ActiveFinite, JobsFinite DEF TypeOK
    <3> QED BY <2>3, <2>4, <2>5, <3>1 DEF GroupAccounting
  <2> QED BY <2>6, <2>7, <2>8
<1>3. CASE PollCommitFails
  <2>1. UNCHANGED <<exec, slots>> /\ faults' = faults + 1
    BY <1>3 DEF PollCommitFails
  <2>2. Active' = Active
    BY <2>1 DEF Active
  <2>3. SlotAccounting' /\ GroupAccounting'
    BY <2>1, <2>2, SteadyCounts
  <2>4. TypeOK'
    BY <1>3, <2>1, <2>2 DEF PollCommitFails, TypeOK, table, slots, history
  <2> QED BY <2>3, <2>4
<1> QED BY <1>1, <1>2, <1>3 DEF Polling

\* A goroutine moves on or ends.
LEMMA ExecutionAccounting ==
    ASSUME Accounting, Execution
    PROVE  Accounting'
<1> USE DEF Accounting
<1>1. PICK w \in Workers : \/ RunJob(w) \/ RunJobFails(w)
                           \/ \E r \in Results : FinalizeJob(w, r)
                           \/ FinalizeJobFails(w)
  BY DEF Execution
<1>2. CASE RunJob(w) \/ RunJobFails(w)
  <2>1. PICK ph \in {"handling", "missing"} : exec' = [exec EXCEPT ![w].phase = ph]
    BY <1>2 DEF RunJob, RunJobFails
  <2>2. exec[w].phase = "dispatched" /\ UNCHANGED slots /\ faults' \in {faults, faults + 1}
    BY <1>2 DEF RunJob, RunJobFails
  <2>3. /\ exec' \in [Workers -> [phase : Phases, job : Jobs \cup {NoJob}, retries : Nat]]
        /\ Active' = Active /\ \A v \in Active : exec'[v].job = exec[v].job
    BY <2>1, <2>2 DEF TypeOK, Phases, Active
  <2>4. SlotAccounting' /\ GroupAccounting'
    BY <2>2, <2>3, SteadyCounts
  <2>5. TypeOK'
    BY <1>2, <2>2, <2>3 DEF RunJob, RunJobFails, TypeOK, table, slots, history
  <2> QED BY <2>4, <2>5
<1>3. ASSUME w \in Active, ReleaseSlot(w), faults' \in {faults, faults + 1}
      PROVE  /\ runningCount' \in Nat /\ activeGroups' \in [Groups -> Nat]
             /\ SlotAccounting' /\ GroupAccounting'
             /\ exec' \in [Workers -> [phase : Phases, job : Jobs \cup {NoJob}, retries : Nat]]
             /\ \A v \in Active' : exec'[v].job \in Jobs
  <2>1. /\ runningCount' \in Nat /\ activeGroups' \in [Groups -> Nat]
        /\ SlotAccounting' /\ GroupAccounting'
    BY <1>3, ReleaseKeepsAccounting
  <2>2. /\ exec' \in [Workers -> [phase : Phases, job : Jobs \cup {NoJob}, retries : Nat]]
        /\ \A v \in Active' : exec'[v].job \in Jobs
    BY <1>3 DEF ReleaseSlot, TypeOK, Active, Idle, Phases
  <2> QED BY <2>1, <2>2
<1>4. ASSUME NEW r \in Results, FinalizeJob(w, r) PROVE Accounting'
  <2>1. w \in Active /\ ReleaseSlot(w) /\ faults' = faults
    BY <1>4 DEF FinalizeJob, Ends, Active
  <2>2. exec[w].job \in Jobs /\ exec[w].retries \in Nat
    BY <2>1 DEF TypeOK
  <2>3. status' \in [Jobs -> Statuses] /\ retries' \in [Jobs -> Nat]
    <3>1. NextStatus(w, r) \in Statuses
      BY DEF NextStatus, Statuses
    <3>2. status \in [Jobs -> Statuses] /\ retries \in [Jobs -> Nat]
      BY DEF TypeOK
    <3>3. \/ status' = status /\ retries' = retries
          \/ /\ status' = [status EXCEPT ![exec[w].job] = NextStatus(w, r)]
             /\ retries' \in {retries, [retries EXCEPT ![exec[w].job] = exec[w].retries + 1]}
      BY <1>4 DEF FinalizeJob
    <3> QED BY <2>2, <3>1, <3>2, <3>3
  <2>4. TypeOK'
    BY <1>3, <1>4, <2>1, <2>3 DEF FinalizeJob, TypeOK, history
  <2> QED BY <1>3, <2>1, <2>4
<1>5. CASE FinalizeJobFails(w)
  <2>1. w \in Active /\ ReleaseSlot(w) /\ faults' = faults + 1
    BY <1>5 DEF FinalizeJobFails, Ends, Active
  <2>2. exec[w].job \in Jobs
    BY <2>1 DEF TypeOK
  <2>3. TypeOK'
    BY <1>3, <1>5, <2>1, <2>2 DEF FinalizeJobFails, TypeOK, table
  <2> QED BY <1>3, <2>1, <2>3
<1> QED BY <1>1, <1>2, <1>4, <1>5

LEMMA RestartAccounting ==
    ASSUME Accounting, Restart
    PROVE  Accounting'
<1>1. Active' = {} /\ \A g : OnGroup(g)' = {}
  BY DEF Restart, Active, OnGroup, Idle
<1>2. Cardinality(Active') = 0 /\ \A g : Cardinality(OnGroup(g)') = 0
  BY <1>1, FS_EmptySet
<1>3. TypeOK'
  BY <1>1 DEF Accounting, Restart, TypeOK, Idle, Phases, table
<1>4. SlotAccounting' /\ GroupAccounting'
  BY <1>2, WorkersAssumption, GroupsAssumption DEF Restart, SlotAccounting, GroupAccounting
<1> QED BY <1>3, <1>4 DEF Accounting

LEMMA NextAccounting == Accounting /\ [Next]_vars => Accounting'
<1> SUFFICES ASSUME Accounting, [Next]_vars PROVE Accounting'
  OBVIOUS
<1>1. CASE Creation \/ Removal \/ Stop
  BY <1>1, TableStepAccounting
<1>2. CASE Polling
  BY <1>2, PollAccounting
<1>3. CASE Execution
  BY <1>3, ExecutionAccounting
<1>4. CASE Restart
  BY <1>4, RestartAccounting
<1>5. CASE UNCHANGED vars
  BY <1>5 DEF Accounting, vars, TypeOK, SlotAccounting, GroupAccounting, Active, OnGroup
<1> QED BY <1>1, <1>2, <1>3, <1>4, <1>5 DEF Next

\* The accounting is an invariant of the driver.
THEOREM AccountingInvariant == Spec => []Accounting
<1>1. Init => Accounting
  BY InitAccounting
<1>2. Accounting /\ [Next]_vars => Accounting'
  BY NextAccounting
<1> QED BY <1>1, <1>2, PTL DEF Spec

\* The columns and the driver's memory keep their types; in particular the
\* counters of finalizeJob never go below zero.
THEOREM TypeCorrect == Spec => []TypeOK
<1>1. Accounting => TypeOK
  BY DEF Accounting
<1> QED BY <1>1, AccountingInvariant, PTL

\* At most maxConcurrency goroutines of runJob exist at any time, also after
\* storage errors, cancellations, deletions and restarts.
THEOREM SlotsBounded == Spec => []SlotAccounting
<1>1. Accounting => SlotAccounting
  BY DEF Accounting
<1> QED BY <1>1, AccountingInvariant, PTL

\* At most groupLimits[g] goroutines of a limited group g exist at any time.
THEOREM GroupsBounded == Spec => []GroupAccounting
<1>1. Accounting => GroupAccounting
  BY DEF Accounting
<1> QED BY <1>1, AccountingInvariant, PTL

----------------------------------------------------------------------------
\* Who executes a job: rows marked running have a goroutine, jobs that were
\* not reopened have at most one, and it counts from the row's retries. A
\* job not created yet has used no retry, which CreateJob relies on.
Ownership ==
    /\ TypeOK
    /\ RunningIsOwned
    /\ ExclusiveExecution
    /\ RetryBudget
    /\ \A j \in Jobs : status[j] = "absent" => retries[j] = 0

LEMMA InitOwnership == Init => Ownership
<1> SUFFICES ASSUME Init PROVE Ownership
  OBVIOUS
<1>1. TypeOK
  BY InitAccounting DEF Accounting
<1>2. \A j : OnJob(j) = {}
  BY DEF Init, OnJob, Active, Idle
<1> QED BY <1>1, <1>2 DEF Init, Ownership, RunningIsOwned, ExclusiveExecution, RetryBudget

\* Removing or cancelling rows, and steps of requests, disturb no execution.
LEMMA TableStepOwnership ==
    ASSUME Ownership, TypeOK', Creation \/ Removal \/ Stop
    PROVE  Ownership'
<1> USE DEF Ownership
<1>1. exec' = exec /\ stranded' = stranded
  BY DEF Creation, Removal, ApiCreateJob, HandlerCreateChild, CreateJob, Enqueue,
         ApiEnqueueFails, HandlerEnqueueFails, ApiUndo, CancelJob, DeleteJob,
         CleanupSelect, CleanupDelete, Stop, history
<1>2. \A k : OnJob(k)' = OnJob(k)
  BY <1>1 DEF OnJob, Active
<1>3. CASE \E j \in Jobs : \/ \E p \in Jobs \cup {NoJob} : ApiCreateJob(j, p)
                          \/ \E w \in Workers : HandlerCreateChild(w, j)
  <2>1. PICK j \in Jobs : /\ status[j] = "absent"
                          /\ status' = [status EXCEPT ![j] = "pending"]
                          /\ retries' = retries
                          /\ reopened' = reopened
    BY <1>3 DEF ApiCreateJob, HandlerCreateChild, CreateJob, history
  <2> QED BY <1>1, <1>2, <2>1 DEF TypeOK, RunningIsOwned, ExclusiveExecution, RetryBudget
<1>4. CASE \E j \in Jobs : Enqueue(j)
  <2>1. PICK j \in Jobs : /\ status' = [status EXCEPT ![j] = "pending"]
                          /\ retries' = retries
                          /\ reopened' = IF status[j] = "pending" THEN reopened
                                         ELSE reopened \cup {j}
    BY <1>4 DEF Enqueue
  <2> QED BY <1>1, <1>2, <2>1 DEF TypeOK, RunningIsOwned, ExclusiveExecution, RetryBudget
<1>5. ASSUME \A k \in Jobs : \/ status'[k] = status[k] /\ retries'[k] = retries[k]
                             \/ status'[k] \in {"failed", "removed"},
             reopened' = reopened
      PROVE  Ownership'
  BY <1>1, <1>2, <1>5 DEF RunningIsOwned, ExclusiveExecution, RetryBudget
<1>6. CASE \E j \in Jobs : ApiEnqueueFails(j) \/ HandlerEnqueueFails(j)
  BY <1>5, <1>6 DEF ApiEnqueueFails, HandlerEnqueueFails, table, history
<1>7. CASE \E j \in Jobs : ApiUndo(j)
  BY <1>5, <1>7 DEF ApiUndo, DeleteRows, table, history
<1>8. CASE Removal \/ Stop
  <2>1. reopened' = reopened
    BY <1>8 DEF Removal, CancelJob, DeleteJob, CleanupSelect, CleanupDelete, Stop, history
  <2>2. ASSUME NEW k \in Jobs
        PROVE  \/ status'[k] = status[k] /\ retries'[k] = retries[k]
               \/ status'[k] \in {"failed", "removed"}
    BY <1>8 DEF Removal, CancelJob, DeleteJob, DeleteRows, CleanupSelect, CleanupDelete,
                Stop, table
  <2> QED BY <1>5, <2>1, <2>2
<1> QED BY <1>3, <1>4, <1>6, <1>7, <1>8 DEF Creation

LEMMA PollOwnership ==
    ASSUME Ownership, TypeOK', Polling
    PROVE  Ownership'
<1> USE DEF Ownership
<1>1. CASE PollAndDispatch
  <2>1. PICK C \in SUBSET Pending, U \in SUBSET Pending :
           /\ status' = [j \in Jobs |-> IF j \in C THEN "running"
                                        ELSE IF j \in U THEN "failed"
                                        ELSE status[j]]
           /\ \E G \in SUBSET (Workers \ Active) : \E start \in Bijection(G, C) :
                 exec' = [w \in Workers |->
                             IF w \in G THEN Dispatched(start[w]) ELSE exec[w]]
    BY <1>1 DEF PollAndDispatch
  <2>2. PICK G \in SUBSET (Workers \ Active) : \E start \in Bijection(G, C) :
           exec' = [w \in Workers |-> IF w \in G THEN Dispatched(start[w]) ELSE exec[w]]
    BY <2>1
  <2>3. PICK start \in Bijection(G, C) :
           exec' = [w \in Workers |-> IF w \in G THEN Dispatched(start[w]) ELSE exec[w]]
    BY <2>2
  <2>4. /\ start \in [G -> C]
        /\ \A a, b \in G : start[a] = start[b] => a = b
        /\ \A c \in C : \E w \in G : start[w] = c
    BY DEF Bijection, Injection, Surjection, IsInjective
  <2>5. C \subseteq Jobs /\ \A j \in C : status[j] = "pending"
    BY DEF Pending
  <2>6. /\ retries' = retries /\ reopened' = reopened /\ stranded' = stranded
    BY <1>1 DEF PollAndDispatch, history
  <2>7. ASSUME NEW k PROVE OnJob(k)' = OnJob(k) \cup {w \in G : start[w] = k}
    BY <2>3, <2>4 DEF OnJob, Active, Dispatched
  <2>8. \A w \in G : exec'[w].retries = retries[start[w]]
    BY <2>3 DEF Dispatched
  <2>9. \A w \in Active : exec'[w] = exec[w]
    BY <2>3 DEF Active
  <2>10. RunningIsOwned'
    BY <2>1, <2>4, <2>5, <2>6, <2>7 DEF RunningIsOwned
  <2>11. ExclusiveExecution'
    BY <2>1, <2>4, <2>5, <2>6, <2>7 DEF ExclusiveExecution
  <2>12. RetryBudget'
    <3> SUFFICES ASSUME NEW j \in Jobs \ reopened
                 PROVE  /\ status'[j] \in {"pending", "running"} =>
                              retries[j] = 0 \/ retries[j] < MaxRetries[j]
                        /\ status'[j] = "running" =>
                              \A w \in OnJob(j)' : exec'[w].retries = retries[j]
      BY <2>6 DEF RetryBudget
    <3>1. CASE j \in C
      <4>1. OnJob(j)' = {w \in G : start[w] = j}
        BY <2>5, <2>7, <3>1 DEF ExclusiveExecution
      <4> QED BY <2>5, <2>8, <3>1, <4>1 DEF RetryBudget
    <3>2. CASE j \notin C
      <4>1. OnJob(j)' = OnJob(j) /\ \A w \in OnJob(j) : exec'[w] = exec[w]
        BY <2>4, <2>7, <2>9, <3>2 DEF OnJob
      <4> QED BY <2>1, <3>2, <4>1 DEF RetryBudget
    <3> QED BY <3>1, <3>2
  <2> QED BY <2>1, <2>5, <2>6, <2>10, <2>11, <2>12
<1>2. CASE PollClaimFails \/ PollCommitFails
  <2>1. UNCHANGED <<table, exec, history>>
    BY <1>2 DEF PollClaimFails, PollCommitFails
  <2> QED BY <2>1 DEF OnJob, Active, RunningIsOwned, ExclusiveExecution, RetryBudget,
                       table, history
<1> QED BY <1>1, <1>2 DEF Polling

LEMMA ExecutionOwnership ==
    ASSUME Ownership, TypeOK', Execution
    PROVE  Ownership'
<1> USE DEF Ownership
<1>1. PICK w \in Workers : \/ RunJob(w) \/ RunJobFails(w)
                           \/ \E r \in Results : FinalizeJob(w, r)
                           \/ FinalizeJobFails(w)
  BY DEF Execution
<1>2. CASE RunJob(w) \/ RunJobFails(w)
  <2>1. PICK ph \in {"handling", "missing"} : exec' = [exec EXCEPT ![w].phase = ph]
    BY <1>2 DEF RunJob, RunJobFails
  <2>2. exec[w].phase = "dispatched" /\ UNCHANGED <<table, history>>
    BY <1>2 DEF RunJob, RunJobFails
  <2>3. \A v \in Workers : exec'[v].job = exec[v].job /\ exec'[v].retries = exec[v].retries
    BY <2>1 DEF TypeOK
  <2>4. Active' = Active
    BY <2>1, <2>2 DEF TypeOK, Active
  <2>5. \A k : OnJob(k)' = OnJob(k) /\ OnJob(k) \subseteq Workers
    BY <2>3, <2>4 DEF OnJob, Active
  <2> QED BY <2>2, <2>3, <2>5 DEF RunningIsOwned, ExclusiveExecution, RetryBudget,
                                  table, history
<1>3. ASSUME w \in Active, exec' = [exec EXCEPT ![w] = Idle], NEW k \in Jobs
      PROVE  /\ OnJob(k)' = IF k = exec[w].job THEN OnJob(k) \ {w} ELSE OnJob(k)
             /\ \A v \in OnJob(k)' : exec'[v] = exec[v]
             /\ w \in OnJob(k) <=> k = exec[w].job
  <2>1. /\ OnJob(k)' = OnJob(k) \ {w}
        /\ \A v \in OnJob(k)' : exec'[v] = exec[v]
        /\ w \in OnJob(k) <=> k = exec[w].job
    BY <1>3 DEF TypeOK, OnJob, Active, Idle
  <2>2. k # exec[w].job => OnJob(k)' = OnJob(k)
    BY <2>1
  <2> QED BY <2>1, <2>2
<1>4. ASSUME NEW r \in Results, FinalizeJob(w, r) PROVE Ownership'
  <2> DEFINE j == exec[w].job
  <2>1. /\ w \in Active /\ exec' = [exec EXCEPT ![w] = Idle]
        /\ reopened' = reopened /\ stranded' = stranded
    BY <1>4 DEF FinalizeJob, ReleaseSlot, Ends, Active, history
  <2>2. j \in Jobs /\ exec[w].retries \in Nat
    BY <2>1 DEF TypeOK
  <2>3. CASE status[j] = "running"
    <3>1. /\ status' = [status EXCEPT ![j] = NextStatus(w, r)]
          /\ retries' = IF r = "ok" THEN retries
                        ELSE [retries EXCEPT ![j] = exec[w].retries + 1]
      BY <1>4, <2>3 DEF FinalizeJob, Finalizable
    <3>2. /\ NextStatus(w, r) \in {"completed", "failed", "pending"}
          /\ NextStatus(w, r) = "pending" => r # "ok" /\ exec[w].retries + 1 < MaxRetries[j]
      BY <2>2, JobAttributesAssumption DEF NextStatus
    <3>3. /\ status'[j] \in {"completed", "failed", "pending"}
          /\ status'[j] = "pending" => retries'[j] < MaxRetries[j]
          /\ \A k \in Jobs \ {j} : status'[k] = status[k] /\ retries'[k] = retries[k]
      BY <2>2, <3>1, <3>2 DEF TypeOK
    <3>4. RunningIsOwned'
      <4>1. \A k \in Jobs \ {j} : OnJob(k)' = OnJob(k)
        BY <1>3, <2>1
      <4> QED BY <2>1, <3>3, <4>1 DEF RunningIsOwned
    <3>5. ExclusiveExecution'
      BY <1>3, <2>1, <3>3 DEF ExclusiveExecution
    <3>6. RetryBudget'
      BY <1>3, <2>1, <3>3 DEF RetryBudget
    <3> QED BY <3>3, <3>4, <3>5, <3>6
  <2>4. CASE status[j] # "running"
    <3>1. status' = status /\ retries' = retries
      BY <1>4, <2>4 DEF FinalizeJob, Finalizable
    <3>2. RunningIsOwned'
      <4>1. \A k \in Jobs \ {j} : OnJob(k)' = OnJob(k)
        BY <1>3, <2>1
      <4> QED BY <2>1, <2>4, <3>1, <4>1 DEF RunningIsOwned
    <3>3. ExclusiveExecution'
      BY <1>3, <2>1, <3>1 DEF ExclusiveExecution
    <3>4. RetryBudget'
      BY <1>3, <2>1, <3>1 DEF RetryBudget
    <3> QED BY <3>1, <3>2, <3>3, <3>4
  <2> QED BY <2>3, <2>4
<1>5. CASE FinalizeJobFails(w)
  <2> DEFINE j == exec[w].job
  <2>1. /\ w \in Active /\ exec' = [exec EXCEPT ![w] = Idle]
        /\ UNCHANGED <<status, retries>> /\ reopened' = reopened
        /\ stranded' = IF status[j] = "running" THEN stranded \cup {j} ELSE stranded
    BY <1>5 DEF FinalizeJobFails, ReleaseSlot, Ends, Active, Finalizable, table
  <2>2. RunningIsOwned'
    <3>1. \A k \in Jobs \ {j} : OnJob(k)' = OnJob(k)
      BY <1>3, <2>1
    <3> QED BY <2>1, <3>1 DEF RunningIsOwned
  <2>3. ExclusiveExecution'
    BY <1>3, <2>1 DEF ExclusiveExecution
  <2>4. RetryBudget'
    BY <1>3, <2>1 DEF RetryBudget
  <2> QED BY <2>1, <2>2, <2>3, <2>4
<1> QED BY <1>1, <1>2, <1>4, <1>5

LEMMA NextOwnership == Ownership /\ TypeOK' /\ [Next]_vars => Ownership'
<1> SUFFICES ASSUME Ownership, TypeOK', [Next]_vars PROVE Ownership'
  OBVIOUS
<1>1. CASE Creation \/ Removal \/ Stop
  BY <1>1, TableStepOwnership
<1>2. CASE Polling
  BY <1>2, PollOwnership
<1>3. CASE Execution
  BY <1>3, ExecutionOwnership
<1>4. CASE Restart
  <2>1. \A k : OnJob(k)' = {}
    BY <1>4 DEF Restart, OnJob, Active, Idle
  <2> QED BY <1>4, <2>1 DEF Ownership, Restart, RunningIsOwned, ExclusiveExecution,
                            RetryBudget, table
<1>5. CASE UNCHANGED vars
  BY <1>5 DEF Ownership, vars, OnJob, Active, RunningIsOwned, ExclusiveExecution, RetryBudget
<1> QED BY <1>1, <1>2, <1>3, <1>4, <1>5 DEF Next

\* Ownership is an invariant of the driver.
THEOREM OwnershipInvariant == Spec => []Ownership
<1>1. Init => Ownership
  BY InitOwnership
<1>2. Ownership /\ TypeOK' /\ [Next]_vars => Ownership'
  BY NextOwnership
<1> QED BY <1>1, <1>2, TypeCorrect, PTL DEF Spec

\* A job is executed by one goroutine at a time, and never while it waits,
\* unless the unconditional UPDATE of Enqueue reopened it.
THEOREM OneExecution == Spec => []ExclusiveExecution
<1>1. Ownership => ExclusiveExecution
  BY DEF Ownership
<1> QED BY <1>1, OwnershipInvariant, PTL

\* A row marked running has a goroutine, or was left behind by a restart or
\* by a finalization whose UPDATE failed: these are the only two ways.
THEOREM RunningOwned == Spec => []RunningIsOwned
<1>1. Ownership => RunningIsOwned
  BY DEF Ownership
<1> QED BY <1>1, OwnershipInvariant, PTL

\* A job that was not reopened is tried at most max(1, max_retries) times.
THEOREM RetriesBounded == Spec => []RetryBudget
<1>1. Ownership => RetryBudget
  BY DEF Ownership
<1> QED BY <1>1, OwnershipInvariant, PTL

\* No step of the driver takes a settled job out of its terminal status once
\* the request or handler that created it is done.
THEOREM SettledStays == Spec => SettledIsFinal
<1> DEFINE Stays == \A j \in Jobs :
                       creator[j] = "none" /\ status[j] \in Terminal \cup {"removed"} =>
                          status'[j] \in {status[j], "removed"}
<1>1. ASSUME TypeOK, [Next]_vars PROVE [Stays]_vars
  <2> SUFFICES ASSUME Next, NEW j \in Jobs, creator[j] = "none",
                      status[j] \in Terminal \cup {"removed"}
               PROVE  status'[j] \in {status[j], "removed"}
    BY <1>1
  <2> USE <1>1 DEF TypeOK, Terminal
  <2>1. CASE Creation
    <3>1. PICK k \in Jobs : \/ \E p \in Jobs \cup {NoJob} : ApiCreateJob(k, p)
                            \/ \E w \in Workers : HandlerCreateChild(w, k)
                            \/ Enqueue(k)
                            \/ ApiEnqueueFails(k)
                            \/ HandlerEnqueueFails(k)
                            \/ ApiUndo(k)
      BY <2>1 DEF Creation
    <3>2. creator[k] \in Workers \cup {"client"} => k # j
      BY WorkersAssumption
    <3> QED BY <3>1, <3>2 DEF ApiCreateJob, HandlerCreateChild, CreateJob, Enqueue,
                  ApiEnqueueFails, HandlerEnqueueFails, ApiUndo, DeleteRows, table
  <2>2. CASE Removal
    BY <2>2 DEF Removal, CancelJob, DeleteJob, DeleteRows, CleanupSelect, CleanupDelete, table
  <2>3. CASE Polling
    BY <2>3 DEF Polling, PollAndDispatch, PollClaimFails, PollCommitFails, Pending, table
  <2>4. CASE Execution
    BY <2>4 DEF Execution, RunJob, RunJobFails, FinalizeJob, FinalizeJobFails, Finalizable, table
  <2>5. CASE Stop \/ Restart
    BY <2>5 DEF Stop, Restart, table
  <2> QED BY <2>1, <2>2, <2>3, <2>4, <2>5 DEF Next
<1> QED BY <1>1, TypeCorrect, PTL DEF Spec, SettledIsFinal

----------------------------------------------------------------------------
\* The driver implements JobLifecycle: each of its steps is, for every job, a
\* step the lifecycle allows.
Submission == {j \in Jobs : creator[j] \in Workers \cup {"client"}}

LEMMA StepImplementsLifecycle ==
    ASSUME TypeOK, TypeOK', Next, NEW j \in Jobs
    PROVE  \/ Lifecycle!Create(j) \/ Lifecycle!Submit(j) \/ Lifecycle!Claim(j)
           \/ Lifecycle!Settle(j) \/ Lifecycle!Remove(j) \/ Lifecycle!Keep(j)
<1> USE DEF Lifecycle!Create, Lifecycle!Submit, Lifecycle!Claim, Lifecycle!Settle,
            Lifecycle!Remove, Lifecycle!Keep
<1>1. CASE Creation
  <2>1. PICK k \in Jobs : \/ \E p \in Jobs \cup {NoJob} : ApiCreateJob(k, p)
                          \/ \E w \in Workers : HandlerCreateChild(w, k)
                          \/ Enqueue(k)
                          \/ ApiEnqueueFails(k)
                          \/ HandlerEnqueueFails(k)
                          \/ ApiUndo(k)
    BY <1>1 DEF Creation
  <2>2. CASE \/ \E p \in Jobs \cup {NoJob} : ApiCreateJob(k, p)
             \/ \E w \in Workers : HandlerCreateChild(w, k)
    BY <2>2 DEF ApiCreateJob, HandlerCreateChild, CreateJob, TypeOK
  <2>3. CASE Enqueue(k)
    BY <2>3, WorkersAssumption DEF Enqueue, TypeOK
  <2>4. CASE ApiEnqueueFails(k) \/ HandlerEnqueueFails(k)
    BY <2>4, WorkersAssumption DEF ApiEnqueueFails, HandlerEnqueueFails, TypeOK, table
  <2>5. CASE ApiUndo(k)
    <3>1. JobTree(k) \subseteq Rows
      BY DEF JobTree
    <3> QED BY <2>5, <3>1, WorkersAssumption DEF ApiUndo, DeleteRows, Rows, HasRow, TypeOK, table
  <2> QED BY <2>1, <2>2, <2>3, <2>4, <2>5
<1>2. CASE Removal
  <2>1. \A k \in Jobs : JobTree(k) \subseteq Rows
    BY DEF JobTree
  <2>2. creator' = creator
    BY <1>2 DEF Removal, CancelJob, DeleteJob, CleanupSelect, CleanupDelete
  <2>3. \/ status'[j] = status[j]
        \/ status[j] \in {"pending", "running"} /\ status'[j] = "failed"
        \/ status[j] # "absent" /\ status'[j] = "removed"
    <3>1. CASE \E k \in Jobs : CancelJob(k)
      BY <3>1 DEF CancelJob
    <3>2. CASE \E k \in Jobs : DeleteJob(k)
      BY <2>1, <3>2 DEF DeleteJob, DeleteRows, Rows, HasRow
    <3>3. CASE CleanupSelect
      BY <3>3 DEF CleanupSelect, table
    <3>4. CASE CleanupDelete
      <4>1. UNION {JobTree(k) : k \in victims} \subseteq Rows
        BY <2>1 DEF TypeOK
      <4> QED BY <3>4, <4>1 DEF CleanupDelete, DeleteRows, Rows, HasRow
    <3> QED BY <1>2, <3>1, <3>2, <3>3, <3>4 DEF Removal
  <2> QED BY <2>2, <2>3
<1>3. CASE Polling
  <2>1. creator' = creator
    BY <1>3 DEF Polling, PollAndDispatch, PollClaimFails, PollCommitFails
  <2>2. \/ status'[j] = status[j]
        \/ status[j] = "pending" /\ status'[j] \in {"running", "failed"}
    BY <1>3 DEF Polling, PollAndDispatch, PollClaimFails, PollCommitFails, Pending, table
  <2> QED BY <2>1, <2>2
<1>4. CASE Execution
  <2>1. creator' = creator
    BY <1>4 DEF Execution, RunJob, RunJobFails, FinalizeJob, FinalizeJobFails
  <2>2. \/ status'[j] = status[j]
        \/ status[j] = "running" /\ status'[j] \in {"pending", "completed", "failed"}
    BY <1>4 DEF Execution, RunJob, RunJobFails, FinalizeJob, FinalizeJobFails, Finalizable,
                NextStatus, TypeOK, table
  <2> QED BY <2>1, <2>2
<1>5. CASE Stop \/ Restart
  BY <1>5, WorkersAssumption DEF Stop, Restart, table
<1> QED BY <1>1, <1>2, <1>3, <1>4, <1>5 DEF Next

\* Whatever the interleaving, the faults and the restarts, a settled or removed
\* job comes back only through a submission that was already open.
THEOREM RefinesLifecycle == Spec => ImplementsLifecycle
<1>1. Init => Lifecycle!Init
  BY WorkersAssumption DEF Init, Lifecycle!Init
<1>2. ASSUME TypeOK, TypeOK', [Next]_vars
      PROVE  [Lifecycle!Next /\ Lifecycle!Typed']_<<status, Submission>>
  <2>1. CASE Next
    <3>1. Lifecycle!Next
      BY <1>2, <2>1, StepImplementsLifecycle DEF Lifecycle!Next
    <3>2. Lifecycle!Typed'
      BY <1>2 DEF TypeOK, Lifecycle!Typed, Lifecycle!States, Statuses
    <3> QED BY <3>1, <3>2
  <2>2. CASE UNCHANGED vars
    BY <2>2 DEF vars, Submission
  <2> QED BY <1>2, <2>1, <2>2
<1> QED BY <1>1, <1>2, TypeCorrect, PTL DEF Spec, ImplementsLifecycle, Lifecycle!Spec, Submission
=============================================================================
