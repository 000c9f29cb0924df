------------------------- MODULE DetailsPageProofs -------------------------
(***************************************************************************)
(* Proofs about the details page, for any finite set of chapters and any   *)
(* number of requests and pulls.                                           *)
(*                                                                         *)
(* The list and the spinner are kept right by what is still to come: a     *)
(* request that is not answered, a fetch under way, a change the queries   *)
(* are known to have missed.  The inductive invariants say which of them   *)
(* stands for every chapter that is not up to date.                        *)
(***************************************************************************)
EXTENDS DetailsPage, FiniteSetTheorems, TLAPS

PullOps == {"pull", "batchPull"}

\* Request numbers do not run out.
Typed == TypeOK /\ IsFiniteSet(reqs) /\ Cardinality(reqs) <= ops

\* What a list shows of a chapter is what the server has, files that grow apart.
Agrees(l, c) ==
    /\ l[c].here = server[c].here
    /\ l[c].here => /\ l[c].read = server[c].read
                    /\ l[c].page = server[c].page
                    /\ Size(l[c].files) <= Size(server[c].files)

\* The answer to a request that has changed something is still to come.
Owed == \E r \in reqs : r.stage \in {"busy", "cut", "ok"}

\* A chapter the list is wrong about is one the list will be asked for again.
ListKept ==
    \A c \in Chapters :
        \/ Owed
        \/ "list" \in behind
        \/ listFetch = Asked
        \/ listFetch.st = "served" /\ Agrees(listFetch.data, c)
        \/ listFetch = Idle /\ Agrees(list, c)

\* The jobs of a chapter are only added to, and the cache follows.
JobsGrow ==
    \A c \in Chapters :
        /\ Len(jobsSeen[c]) <= Len(jobs[c])
        /\ jobsFetch.st = "served" =>
              /\ Len(jobsSeen[c]) <= Len(jobsFetch.data[c])
              /\ Len(jobsFetch.data[c]) <= Len(jobs[c])

PullUnderWay(c, stages) ==
    \E r \in reqs : r.op \in PullOps /\ c \in r.ids /\ r.stage \in stages

\* A job that the cache does not have yet is about to be fetched.
JobIsDue(c) ==
    /\ Len(jobsSeen[c]) < Len(jobs[c])
    /\ \/ jobsFetch = Asked
       \/ jobsFetch.st = "served" /\ Len(jobsSeen[c]) < Len(jobsFetch.data[c])
       \/ "jobs" \in behind
       \/ PullUnderWay(c, {"ok"})

NewestIsPull(js, c) == js[c] # <<>> /\ Head(js[c]) = "pull"

\* An optimistic pull ends with its request, or with the job it made.
OptimisticEnds(c) ==
    \/ PullUnderWay(c, {"sent", "refused"})
    \/ NewestIsPull(jobsSeen, c)
    \/ JobIsDue(c)

OptKept == \A c \in opt \ toldFailed : OptimisticEnds(c)

Kept == Typed /\ ListKept /\ JobsGrow /\ OptKept

-----------------------------------------------------------------------------
(***************************************************************************)
(* First and Last: a finite set of numbers that is not empty has both.     *)
(***************************************************************************)
LEMMA Extremes ==
    ASSUME NEW S \in SUBSET Nat, IsFiniteSet(S), S # {}
    PROVE  (\E c \in S : \A d \in S : c <= d) /\ (\E c \in S : \A d \in S : c >= d)
<1> DEFINE Has(T) == (\E c \in T : \A d \in T : c <= d) /\ (\E c \in T : \A d \in T : c >= d)
           Bad == {T \in SUBSET S : T # {} /\ ~Has(T)}
<1>1. SUFFICES Bad = {}
  <2>1. S \notin Bad
    BY <1>1
  <2> QED BY <2>1
<1>2. SUFFICES ASSUME Bad # {} PROVE FALSE
  OBVIOUS
<1>3. FiniteSubsetsOf(S) = SUBSET S
  BY FS_FiniteSubsetsOfFinite
<1>4. IsWellFoundedOn(StrictSubsetOrdering(S), SUBSET S)
  BY <1>3, FS_StrictSubsetOrderingWellFounded
<1>5. Bad \subseteq SUBSET S
  OBVIOUS
<1>6. \E T \in Bad : \A U \in Bad : ~(<<U, T>> \in StrictSubsetOrdering(S))
  <2> HIDE DEF Bad
  <2> QED BY <1>2, <1>4, <1>5, WFMin
<1>7. PICK T \in Bad : \A U \in Bad : ~(<<U, T>> \in StrictSubsetOrdering(S))
  BY <1>6
<1>8. PICK x \in T : TRUE
  OBVIOUS
<1> DEFINE V == T \ {x}
<1>9. V \in SUBSET S /\ V \subseteq T /\ V # T
  BY <1>8
<1>10. <<V, T>> \in StrictSubsetOrdering(S)
  BY <1>9 DEF StrictSubsetOrdering
<1>11. V = {} \/ Has(V)
  BY <1>7, <1>9, <1>10
<1>12. x \in Nat /\ V \subseteq Nat /\ T = V \cup {x}
  BY <1>8, <1>9
<1>13. T # {} /\ ~Has(T)
  OBVIOUS
<1> HIDE DEF V, Bad
<1>14. CASE V = {}
  BY <1>12, <1>13, <1>14
<1>15. CASE Has(V)
  <2>1. PICK a \in V : \A d \in V : a <= d
    BY <1>15
  <2>2. PICK b \in V : \A d \in V : b >= d
    BY <1>15
  <2>3. \E c \in T : \A d \in T : c <= d
    <3>1. CASE a <= x
      BY <1>12, <2>1, <3>1
    <3>2. CASE x <= a
      BY <1>12, <2>1, <3>2
    <3> QED BY <1>12, <2>1, <3>1, <3>2
  <2>4. \E c \in T : \A d \in T : c >= d
    <3>1. CASE b >= x
      BY <1>12, <2>2, <3>1
    <3>2. CASE x >= b
      BY <1>12, <2>2, <3>2
    <3> QED BY <1>12, <2>2, <3>1, <3>2
  <2> QED BY <1>13, <2>3, <2>4
<1> QED BY <1>11, <1>14, <1>15

LEMMA FirstAndLast ==
    ASSUME NEW S \in SUBSET Nat, IsFiniteSet(S), S # {}
    PROVE  First(S) \in S /\ Last(S) \in S
BY Extremes DEF First, Last

LEMMA NumbersSuffice ==
    ASSUME Typed, ops < MaxOps
    PROVE  FreeNumber \in 1 .. MaxOps
<1> DEFINE Used == {r.n : r \in reqs}
           f == [r \in reqs |-> r.n]
<1>1. MaxOps \in Nat /\ ops \in Nat /\ IsFiniteSet(reqs) /\ Cardinality(reqs) <= ops
  BY DetailsAssumption DEF Typed, TypeOK
<1>2. f \in Surjection(reqs, Used)
  BY DEF Surjection
<1>3. IsFiniteSet(Used) /\ Cardinality(Used) <= Cardinality(reqs)
  <2> HIDE DEF f, Used
  <2> QED BY <1>1, <1>2, FS_Surjection
<1>4. IsFiniteSet(1 .. MaxOps) /\ Cardinality(1 .. MaxOps) = MaxOps
  <2>1. 1 \in Int /\ MaxOps \in Int
    BY <1>1
  <2>2. IsFiniteSet(1 .. MaxOps) /\ Cardinality(1 .. MaxOps) = IF 1 > MaxOps THEN 0 ELSE MaxOps - 1 + 1
    BY <2>1, FS_Interval
  <2> QED BY <1>1, <2>2
<1> HIDE DEF Used, f
<1>5. (1 .. MaxOps) \ Used # {}
  <2>1. SUFFICES ASSUME (1 .. MaxOps) \subseteq Used PROVE FALSE
    OBVIOUS
  <2>2. Cardinality(1 .. MaxOps) <= Cardinality(Used)
    BY <1>3, <2>1, FS_Subset
  <2>3. Cardinality(Used) \in Nat /\ Cardinality(reqs) \in Nat
    BY <1>1, <1>3, FS_CardinalityType
  <2> QED BY <1>1, <1>3, <1>4, <2>2, <2>3
<1>6. IsFiniteSet((1 .. MaxOps) \ Used)
  BY <1>4, FS_Difference
<1>7. (1 .. MaxOps) \ Used \in SUBSET Nat
  OBVIOUS
<1>8. First((1 .. MaxOps) \ Used) \in (1 .. MaxOps) \ Used
  BY <1>5, <1>6, <1>7, FirstAndLast
<1> QED BY <1>8 DEF FreeNumber, Used

-----------------------------------------------------------------------------
(***************************************************************************)
(* A request is sent: the others stay under way, with another "last".      *)
(***************************************************************************)
LEMMA SendKeepsOthers ==
    ASSUME Typed, NEW op \in Ops, NEW ids \in SUBSET Chapters, Send(op, ids)
    PROVE  /\ reqs' \subseteq RequestTypes /\ IsFiniteSet(reqs') /\ Cardinality(reqs') <= ops'
           /\ ops' \in 0 .. MaxOps
           /\ \A r \in reqs : \E q \in reqs' : q.op = r.op /\ q.ids = r.ids /\ q.stage = r.stage
           /\ \E q \in reqs' : q.op = op /\ q.ids = ids /\ q.stage = "sent"
<1> DEFINE Older(r) == [r EXCEPT !.last = @ /\ r.op # op]
           Olds == {Older(r) : r \in reqs}
           new == [n |-> FreeNumber, op |-> op, ids |-> ids, stage |-> "sent", last |-> TRUE,
                   todo |-> {}, copy |-> NoCopy]
           f == [r \in reqs |-> Older(r)]
<1>1. /\ ops < MaxOps /\ ops' = ops + 1 /\ reqs' = Olds \cup {new}
  BY DEF Send, Acts
<1>2. /\ MaxOps \in Nat /\ ops \in Nat /\ IsFiniteSet(reqs) /\ Cardinality(reqs) <= ops
      /\ reqs \subseteq RequestTypes
  BY DetailsAssumption DEF Typed, TypeOK
<1>3. FreeNumber \in 1 .. MaxOps
  BY <1>1, NumbersSuffice
<1>4. new \in RequestTypes /\ new.op = op /\ new.ids = ids /\ new.stage = "sent"
  <2>1. NoCopy \in Copies /\ {} \in SUBSET Chapters
    BY DEF NoCopy, Copies
  <2> QED BY <1>3, <2>1 DEF RequestTypes
<1>5. \A r \in reqs : /\ Older(r) \in RequestTypes
                      /\ Older(r).op = r.op /\ Older(r).ids = r.ids /\ Older(r).stage = r.stage
  <2>1. SUFFICES ASSUME NEW r \in RequestTypes
                 PROVE  /\ Older(r) \in RequestTypes
                        /\ Older(r).op = r.op /\ Older(r).ids = r.ids /\ Older(r).stage = r.stage
    BY <1>2, <2>1
  <2>2. (r.last /\ r.op # op) \in BOOLEAN
    OBVIOUS
  <2> QED BY <2>2 DEF RequestTypes
<1> HIDE DEF new, Older
<1>6. f \in Surjection(reqs, Olds)
  BY DEF Surjection
<1> HIDE DEF f
<1>7. IsFiniteSet(Olds) /\ Cardinality(Olds) <= Cardinality(reqs)
  <2> HIDE DEF Olds
  <2> QED BY <1>2, <1>6, FS_Surjection
<1>8. Olds \subseteq RequestTypes
  BY <1>5
<1>9. \A r \in reqs : \E q \in Olds : q.op = r.op /\ q.ids = r.ids /\ q.stage = r.stage
  BY <1>5
<1> HIDE DEF Olds
<1>10. /\ IsFiniteSet(Olds \cup {new})
       /\ Cardinality(Olds \cup {new}) = IF new \in Olds THEN Cardinality(Olds) ELSE Cardinality(Olds) + 1
  BY <1>7, FS_AddElement
<1>11. Cardinality(Olds) \in Nat /\ Cardinality(reqs) \in Nat
  BY <1>2, <1>7, FS_CardinalityType
<1>12. Cardinality(reqs') <= ops' /\ ops' \in 0 .. MaxOps
  BY <1>1, <1>2, <1>7, <1>10, <1>11
<1>13. reqs' \subseteq RequestTypes /\ IsFiniteSet(reqs')
  BY <1>1, <1>4, <1>8, <1>10
<1>14. \E q \in reqs' : q.op = op /\ q.ids = ids /\ q.stage = "sent"
  BY <1>1, <1>4
<1>15. \A r \in reqs : \E q \in reqs' : q.op = r.op /\ q.ids = r.ids /\ q.stage = r.stage
  BY <1>1, <1>9
<1> QED BY <1>12, <1>13, <1>14, <1>15

LEMMA SendCounts ==
    ASSUME Typed, NEW op \in Ops, NEW ids \in SUBSET Chapters, Send(op, ids)
    PROVE  /\ pulls' \in 0 .. MaxPulls /\ opt' \subseteq Chapters /\ toldFailed' \subseteq Chapters
           /\ \/ op \in PullOps /\ opt' = opt \cup ids /\ toldFailed' = toldFailed \ ids
              \/ opt' = opt /\ toldFailed' = toldFailed
           /\ UNCHANGED <<serverVars, listVars, jobsVars, query, behind>>
<1>1. MaxPulls \in Nat /\ pulls \in Nat /\ pulls <= MaxPulls /\ opt \subseteq Chapters
      /\ toldFailed \subseteq Chapters
  BY DetailsAssumption DEF Typed, TypeOK
<1>2. UNCHANGED <<serverVars, listVars, jobsVars, query, behind>>
  BY DEF Send
<1>3. CASE op \in {"pull", "batchPull"}
  <2>1. /\ pulls + Cardinality(ids) <= MaxPulls /\ pulls' = pulls + Cardinality(ids)
        /\ opt' = opt \cup ids /\ toldFailed' = toldFailed \ ids
    BY <1>3 DEF Send
  <2>2. IsFiniteSet(ids)
    BY DetailsAssumption, FS_Subset
  <2>3. Cardinality(ids) \in Nat
    BY <2>2, FS_CardinalityType
  <2>4. pulls' \in 0 .. MaxPulls
    BY <1>1, <2>1, <2>3
  <2> QED BY <1>1, <1>2, <1>3, <2>1, <2>4 DEF PullOps
<1>4. CASE op \notin {"pull", "batchPull"}
  <2>1. pulls' = pulls /\ opt' = opt /\ toldFailed' = toldFailed
    BY <1>4 DEF Send
  <2> QED BY <1>1, <1>2, <2>1
<1> QED BY <1>3, <1>4

\* Sending leaves what is owed to the list, the jobs and the spinners.
LEMMA SendKeeps ==
    ASSUME Kept, NEW op \in Ops, NEW ids \in SUBSET Chapters, Send(op, ids),
           sel' \in Selections, sel'.ids # {} => sel'.on, sel'.dialog => sel'.ids # {}
    PROVE  Kept'
<1>1. Typed
  BY DEF Kept
<1>2. /\ reqs' \subseteq RequestTypes /\ IsFiniteSet(reqs') /\ Cardinality(reqs') <= ops'
      /\ ops' \in 0 .. MaxOps
      /\ \A r \in reqs : \E q \in reqs' : q.op = r.op /\ q.ids = r.ids /\ q.stage = r.stage
      /\ \E q \in reqs' : q.op = op /\ q.ids = ids /\ q.stage = "sent"
  BY <1>1, SendKeepsOthers
<1>3. /\ pulls' \in 0 .. MaxPulls /\ opt' \subseteq Chapters /\ toldFailed' \subseteq Chapters
      /\ \/ op \in PullOps /\ opt' = opt \cup ids /\ toldFailed' = toldFailed \ ids
         \/ opt' = opt /\ toldFailed' = toldFailed
      /\ UNCHANGED <<serverVars, listVars, jobsVars, query, behind>>
  BY <1>1, SendCounts
<1>4. /\ server' = server /\ jobs' = jobs /\ stamp' = stamp /\ list' = list /\ listFetch' = listFetch
      /\ listErr' = listErr /\ jobsSeen' = jobsSeen /\ jobsFetch' = jobsFetch
      /\ query' = query /\ behind' = behind
  BY <1>3 DEF serverVars, listVars, jobsVars
<1>5. Typed'
  BY <1>1, <1>2, <1>3, <1>4 DEF Typed, TypeOK
<1>6. JobsGrow'
  BY <1>4 DEF Kept, JobsGrow
<1>7. ListKept'
  <2>1. \A c \in Chapters : \A l : Agrees(l, c)' <=> Agrees(l, c)
    BY <1>4 DEF Agrees
  <2>2. Owed => Owed'
    BY <1>2 DEF Owed
  <2> QED BY <1>4, <2>1, <2>2 DEF Kept, ListKept, Agrees
<1>8. OptKept'
  <2>1. SUFFICES ASSUME NEW c \in (opt \ toldFailed)' PROVE OptimisticEnds(c)'
    BY DEF OptKept
  <2>2. CASE c \in ids /\ op \in PullOps
    BY <1>2, <2>2 DEF OptimisticEnds, PullUnderWay
  <2>3. CASE c \in opt \ toldFailed
    <3>1. OptimisticEnds(c)
      BY <2>3 DEF Kept, OptKept
    <3>2. \A S : PullUnderWay(c, S) => PullUnderWay(c, S)'
      BY <1>2 DEF PullUnderWay
    <3>3. JobIsDue(c) => JobIsDue(c)'
      BY <1>4, <3>2 DEF JobIsDue
    <3>4. NewestIsPull(jobsSeen, c) => NewestIsPull(jobsSeen, c)'
      BY <1>4 DEF NewestIsPull
    <3> QED BY <3>1, <3>2, <3>3, <3>4 DEF OptimisticEnds
  <2> QED BY <1>3, <2>1, <2>2, <2>3
<1> QED BY <1>5, <1>6, <1>7, <1>8 DEF Kept

-----------------------------------------------------------------------------
(***************************************************************************)
(* Requests are handled and answered                                       *)
(***************************************************************************)
\* A request takes a step: the others are left alone.
LEMMA StepKeepsOthers ==
    ASSUME Typed, NEW r \in reqs, NEW q \in RequestTypes, reqs' = (reqs \ {r}) \cup {q}, ops' = ops
    PROVE  /\ reqs' \subseteq RequestTypes /\ IsFiniteSet(reqs') /\ Cardinality(reqs') <= ops'
           /\ \A x \in reqs : x # r => x \in reqs'
           /\ q \in reqs'
<1> DEFINE rest == reqs \ {r}
<1>1. reqs' = rest \cup {q}
  OBVIOUS
<1>2. /\ ops \in Nat /\ IsFiniteSet(reqs) /\ Cardinality(reqs) <= ops /\ reqs \subseteq RequestTypes
  BY DEF Typed, TypeOK
<1>4. IsFiniteSet(rest) /\ Cardinality(rest) = Cardinality(reqs) - 1
  BY <1>2, FS_RemoveElement
<1>5. rest \subseteq reqs /\ \A x \in reqs : x # r => x \in rest
  OBVIOUS
<1> HIDE DEF rest
<1>6. /\ IsFiniteSet(rest \cup {q})
      /\ Cardinality(rest \cup {q}) = IF q \in rest THEN Cardinality(rest) ELSE Cardinality(rest) + 1
  BY <1>4, FS_AddElement
<1>7. Cardinality(rest) \in Nat /\ Cardinality(reqs) \in Nat
  BY <1>2, <1>4, FS_CardinalityType
<1>8. Cardinality(reqs') <= ops'
  BY <1>1, <1>2, <1>4, <1>6, <1>7
<1>9. reqs' \subseteq RequestTypes /\ IsFiniteSet(reqs')
  BY <1>1, <1>2, <1>5, <1>6
<1> QED BY <1>1, <1>5, <1>8, <1>9

LEMMA StagedKeeps ==
    ASSUME Typed, NEW r \in reqs, NEW st \in {"ok", "refused"}, reqs' = Staged(r, st), ops' = ops
    PROVE  /\ reqs' \subseteq RequestTypes /\ IsFiniteSet(reqs') /\ Cardinality(reqs') <= ops'
           /\ \A q \in reqs : q # r => q \in reqs'
           /\ \E q \in reqs' : q.op = r.op /\ q.ids = r.ids /\ q.stage = st
<1> DEFINE new == [r EXCEPT !.stage = st]
<1>1. reqs' = (reqs \ {r}) \cup {new}
  BY DEF Staged
<1>2. r \in RequestTypes
  BY DEF Typed, TypeOK
<1>3. new \in RequestTypes /\ new.op = r.op /\ new.ids = r.ids /\ new.stage = st
  BY <1>2 DEF RequestTypes
<1> HIDE DEF new
<1> QED BY <1>1, <1>3, StepKeepsOthers

LEMMA AppliedTyped ==
    ASSUME server \in Lists, NEW r, NEW c \in Chapters
    PROVE  Applied(r, c) \in ChapterState
<1> DEFINE ch == server[c]
<1>1. ch \in ChapterState
  BY DEF Lists
<1> HIDE DEF ch
<1>2. /\ [ch EXCEPT !.here = TRUE] \in ChapterState /\ [ch EXCEPT !.files = "none"] \in ChapterState
      /\ Gone \in ChapterState
  BY <1>1 DEF ChapterState, Gone
<1>3. /\ [ch EXCEPT !.read = TRUE, !.page = 0] \in ChapterState
      /\ [ch EXCEPT !.read = FALSE, !.page = 0] \in ChapterState
  BY <1>1 DEF ChapterState
<1> QED BY <1>1, <1>2, <1>3 DEF Applied, ch

LEMMA NewJobsTyped ==
    ASSUME jobs \in JobLists, NEW r, NEW c \in Chapters
    PROVE  /\ NewJobs(r, c) \in Seq(JobState) /\ Len(jobs[c]) <= Len(NewJobs(r, c))
           /\ r.op \in PullOps /\ c \in r.ids => Len(jobs[c]) < Len(NewJobs(r, c))
<1>1. jobs[c] \in Seq(JobState)
  BY DEF JobLists
<1> DEFINE js == jobs[c]
<1> HIDE DEF js
<1>2. <<"pull">> \in Seq(JobState)
  BY DEF JobState, ShownState
<1>3. js \in Seq(JobState)
  BY <1>1 DEF js
<1>4. <<"pull">> \o js \in Seq(JobState) /\ Len(<<"pull">> \o js) = 1 + Len(js) /\ Len(js) \in Nat
  BY <1>2, <1>3
<1> QED BY <1>3, <1>4 DEF NewJobs, PullOps, js

LEMMA HandleKeeps ==
    ASSUME Kept, NEW r \in reqs, Handle(r)
    PROVE  Kept'
<1>1. Typed /\ ListKept /\ JobsGrow /\ OptKept
  BY DEF Kept
<1>2. /\ r.stage = "sent" /\ stamp' = stamp /\ ops' = ops /\ pulls' = pulls /\ list' = list /\ listFetch' = listFetch
      /\ listErr' = listErr /\ jobsSeen' = jobsSeen /\ jobsFetch' = jobsFetch /\ opt' = opt
      /\ sel' = sel /\ query' = query /\ toldFailed' = toldFailed /\ behind' = behind
  BY DEF Handle, listVars, jobsVars
<1>3. PICK st \in {"ok", "refused"} :
        /\ reqs' = Staged(r, st)
        /\ st = "ok" => /\ server' = [c \in Chapters |-> Applied(r, c)]
                        /\ jobs' = [c \in Chapters |-> NewJobs(r, c)]
        /\ st = "refused" => server' = server /\ jobs' = jobs
  BY DEF Handle
<1>4. /\ reqs' \subseteq RequestTypes /\ IsFiniteSet(reqs') /\ Cardinality(reqs') <= ops'
      /\ \A q \in reqs : q # r => q \in reqs'
      /\ \E q \in reqs' : q.op = r.op /\ q.ids = r.ids /\ q.stage = st
  BY <1>1, <1>2, <1>3, StagedKeeps
<1>5. server \in Lists /\ jobs \in JobLists /\ jobsSeen \in ShownLists
  BY <1>1 DEF Typed, TypeOK
<1>6. server' \in Lists
  <2>1. \A c \in Chapters : Applied(r, c) \in ChapterState
    BY <1>5, AppliedTyped
  <2>2. CASE st = "ok"
    BY <1>3, <2>1, <2>2 DEF Lists
  <2> QED BY <1>3, <1>5, <2>2
<1>7. /\ jobs' \in JobLists
      /\ \A c \in Chapters :
            /\ Len(jobs[c]) \in Nat /\ Len(jobs'[c]) \in Nat /\ Len(jobsSeen[c]) \in Nat
            /\ Len(jobs[c]) <= Len(jobs'[c])
            /\ st = "ok" /\ r.op \in PullOps /\ c \in r.ids => Len(jobs[c]) < Len(jobs'[c])
  <2>1. \A c \in Chapters :
           /\ NewJobs(r, c) \in Seq(JobState) /\ Len(jobs[c]) <= Len(NewJobs(r, c))
           /\ r.op \in PullOps /\ c \in r.ids => Len(jobs[c]) < Len(NewJobs(r, c))
    BY <1>5, NewJobsTyped
  <2>2. \A c \in Chapters : jobs[c] \in Seq(JobState) /\ jobsSeen[c] \in Seq(ShownState)
    BY <1>5 DEF JobLists, ShownLists
  <2>3. (\A s \in Seq(JobState) : Len(s) \in Nat) /\ \A s \in Seq(ShownState) : Len(s) \in Nat
    OBVIOUS
  <2>4. CASE st = "ok"
    <3>1. jobs' \in JobLists /\ \A c \in Chapters : jobs'[c] = NewJobs(r, c)
      BY <1>3, <2>1, <2>4 DEF JobLists
    <3> QED BY <2>1, <2>2, <2>3, <3>1
  <2>5. CASE st = "refused"
    BY <1>3, <1>5, <2>2, <2>3, <2>5
  <2> QED BY <1>3, <2>4, <2>5
<1>8. Typed'
  BY <1>1, <1>2, <1>4, <1>6, <1>7 DEF Typed, TypeOK
<1>9. ListKept'
  <2>1. CASE st = "ok"
    BY <1>4, <2>1 DEF ListKept, Owed
  <2>2. CASE st = "refused"
    <3>1. Owed => Owed'
      BY <1>2, <1>4 DEF Owed
    <3>2. server' = server
      BY <1>3, <2>2
    <3> QED BY <1>1, <1>2, <3>1, <3>2 DEF ListKept, Agrees
  <2> QED BY <1>3, <2>1, <2>2
<1>10. JobsGrow'
  <2>1. SUFFICES ASSUME NEW c \in Chapters
                 PROVE  /\ Len(jobsSeen[c]) <= Len(jobs'[c])
                        /\ jobsFetch.st = "served" =>
                              /\ Len(jobsSeen[c]) <= Len(jobsFetch.data[c])
                              /\ Len(jobsFetch.data[c]) <= Len(jobs'[c])
    BY <1>2, <2>1 DEF JobsGrow
  <2>2. jobsFetch.st = "served" => Len(jobsFetch.data[c]) \in Nat
    <3>1. jobsFetch \in FetchOf(ShownLists)
      BY <1>1 DEF Typed, TypeOK
    <3>2. jobsFetch.st = "served" => jobsFetch.data \in ShownLists
      BY <3>1 DEF FetchOf, Idle, Asked
    <3>3. jobsFetch.st = "served" => jobsFetch.data[c] \in Seq(ShownState)
      BY <3>2 DEF ShownLists
    <3> QED BY <3>3
  <2>3. /\ Len(jobsSeen[c]) <= Len(jobs[c])
        /\ jobsFetch.st = "served" =>
              Len(jobsSeen[c]) <= Len(jobsFetch.data[c]) /\ Len(jobsFetch.data[c]) <= Len(jobs[c])
    BY <1>1 DEF JobsGrow
  <2>4. /\ Len(jobs[c]) \in Nat /\ Len(jobs'[c]) \in Nat /\ Len(jobsSeen[c]) \in Nat
        /\ Len(jobs[c]) <= Len(jobs'[c])
    BY <1>7
  <2> QED BY <2>2, <2>3, <2>4
<1>11. OptKept'
  <2>1. SUFFICES ASSUME NEW c \in opt \ toldFailed PROVE OptimisticEnds(c)'
    BY <1>2 DEF OptKept
  <2>2. c \in Chapters /\ OptimisticEnds(c)
    BY <1>1 DEF OptKept, Typed, TypeOK
  <2>3. /\ Len(jobs[c]) \in Nat /\ Len(jobs'[c]) \in Nat /\ Len(jobsSeen[c]) \in Nat
        /\ Len(jobs[c]) <= Len(jobs'[c]) /\ Len(jobsSeen[c]) <= Len(jobs[c])
        /\ st = "ok" /\ r.op \in PullOps /\ c \in r.ids => Len(jobs[c]) < Len(jobs'[c])
    BY <1>1, <1>7, <2>2 DEF JobsGrow
  <2>4. PullUnderWay(c, {"ok"}) => PullUnderWay(c, {"ok"})'
    BY <1>2, <1>4 DEF PullUnderWay
  <2>5. CASE PullUnderWay(c, {"sent", "refused"})
    <3>1. PICK q \in reqs : q.op \in PullOps /\ c \in q.ids /\ q.stage \in {"sent", "refused"}
      BY <2>5 DEF PullUnderWay
    <3>2. CASE q # r
      BY <1>4, <3>1, <3>2 DEF OptimisticEnds, PullUnderWay
    <3>3. CASE q = r /\ st = "ok"
      <4>1. PullUnderWay(c, {"ok"})'
        BY <1>4, <3>1, <3>3 DEF PullUnderWay
      <4>2. Len(jobsSeen[c]) < Len(jobs'[c])
        BY <2>3, <3>1, <3>3
      <4> QED BY <1>2, <4>1, <4>2 DEF OptimisticEnds, JobIsDue
    <3>4. CASE q = r /\ st = "refused"
      BY <1>4, <3>1, <3>4 DEF OptimisticEnds, PullUnderWay
    <3> QED BY <1>3, <3>2, <3>3, <3>4
  <2>6. CASE NewestIsPull(jobsSeen, c)
    BY <1>2, <2>6 DEF OptimisticEnds, NewestIsPull
  <2>7. CASE JobIsDue(c)
    <3>1. Len(jobsSeen[c]) < Len(jobs'[c])
      BY <2>3, <2>7 DEF JobIsDue
    <3>2. JobIsDue(c)'
      BY <1>2, <2>4, <2>7, <3>1 DEF JobIsDue
    <3> QED BY <3>2 DEF OptimisticEnds
  <2> QED BY <2>2, <2>5, <2>6, <2>7 DEF OptimisticEnds
<1> QED BY <1>8, <1>9, <1>10, <1>11 DEF Kept

\* An answer leaves the other requests.
LEMMA AnswerKeepsOthers ==
    ASSUME Typed, NEW r \in reqs, reqs' = reqs \ {r}, ops' = ops
    PROVE  /\ reqs' \subseteq RequestTypes /\ IsFiniteSet(reqs') /\ Cardinality(reqs') <= ops'
           /\ r \in RequestTypes
<1>1. ops \in Nat /\ IsFiniteSet(reqs) /\ Cardinality(reqs) <= ops /\ reqs \subseteq RequestTypes
  BY DEF Typed, TypeOK
<1>2. IsFiniteSet(reqs \ {r}) /\ Cardinality(reqs \ {r}) = Cardinality(reqs) - 1
  BY <1>1, FS_RemoveElement
<1>3. Cardinality(reqs) \in Nat
  BY <1>1, FS_CardinalityType
<1>4. Cardinality(reqs') <= ops'
  BY <1>1, <1>2, <1>3
<1> QED BY <1>1, <1>2, <1>4

LEMMA OnSuccessKeeps ==
    ASSUME Kept, NEW r \in reqs, OnSuccess(r)
    PROVE  Kept'
<1>1. Typed /\ ListKept /\ JobsGrow /\ OptKept
  BY DEF Kept
<1>2. /\ r.stage = "ok" /\ reqs' = reqs \ {r} /\ listFetch' = Asked
      /\ ops' = ops /\ pulls' = pulls /\ server' = server /\ jobs' = jobs /\ stamp' = stamp /\ list' = list
      /\ listErr' = listErr /\ jobsSeen' = jobsSeen /\ opt' = opt /\ sel' = sel
      /\ query' = query /\ toldFailed' = toldFailed /\ behind' = behind
  BY DEF OnSuccess, serverVars, Invalidate
<1>3. jobsFetch' \in {jobsFetch, Asked} /\ (r.op \in PullOps => jobsFetch' = Asked)
  BY DEF OnSuccess, Invalidate, PullOps, BatchOps
<1>4. /\ reqs' \subseteq RequestTypes /\ IsFiniteSet(reqs') /\ Cardinality(reqs') <= ops'
      /\ r \in RequestTypes
  BY <1>1, <1>2, AnswerKeepsOthers
<1>5. Asked \in FetchOf(Lists) /\ Asked \in FetchOf(ShownLists) /\ Asked.st = "asked"
  BY DEF FetchOf, Asked
<1>6. Typed'
  BY <1>1, <1>2, <1>3, <1>4, <1>5 DEF Typed, TypeOK
<1>7. ListKept'
  BY <1>2 DEF ListKept
<1>8. JobsGrow'
  BY <1>1, <1>2, <1>3, <1>5 DEF JobsGrow
<1>9. OptKept'
  <2>1. SUFFICES ASSUME NEW c \in opt \ toldFailed PROVE OptimisticEnds(c)'
    BY <1>2 DEF OptKept
  <2>2. OptimisticEnds(c)
    BY <1>1 DEF OptKept
  <2>3. CASE PullUnderWay(c, {"sent", "refused"})
    BY <1>2, <2>3 DEF OptimisticEnds, PullUnderWay
  <2>4. CASE NewestIsPull(jobsSeen, c)
    BY <1>2, <2>4 DEF OptimisticEnds, NewestIsPull
  <2>5. CASE JobIsDue(c)
    <3>1. PullUnderWay(c, {"ok"}) => PullUnderWay(c, {"ok"})' \/ jobsFetch' = Asked
      BY <1>2, <1>3 DEF PullUnderWay
    <3> QED BY <1>2, <1>3, <2>5, <3>1 DEF OptimisticEnds, JobIsDue
  <2> QED BY <2>2, <2>3, <2>4, <2>5 DEF OptimisticEnds
<1> QED BY <1>6, <1>7, <1>8, <1>9 DEF Kept

LEMMA OnErrorKeeps ==
    ASSUME Kept, NEW r \in reqs, OnError(r)
    PROVE  Kept'
<1>1. Typed /\ ListKept /\ JobsGrow /\ OptKept
  BY DEF Kept
<1>2. /\ reqs' = reqs \ {r} /\ ops' = ops /\ pulls' = pulls /\ server' = server /\ jobs' = jobs /\ stamp' = stamp
      /\ list' = list /\ listFetch' = listFetch /\ listErr' = listErr /\ jobsSeen' = jobsSeen
      /\ jobsFetch' = jobsFetch /\ opt' = opt /\ sel' = sel /\ query' = query
  BY DEF OnError, serverVars, listVars, jobsVars
<1>3. /\ toldFailed' = IF r.op \in PullOps THEN toldFailed \cup r.ids ELSE toldFailed
      /\ behind' = IF r.stage = "ok" THEN behind \cup {"list"} ELSE behind
  BY DEF OnError, PullOps
<1>4. /\ reqs' \subseteq RequestTypes /\ IsFiniteSet(reqs') /\ Cardinality(reqs') <= ops'
      /\ r \in RequestTypes
  BY <1>1, <1>2, AnswerKeepsOthers
<1>5. toldFailed' \subseteq Chapters /\ behind' \subseteq {"list", "jobs"}
  <2>1. r.ids \subseteq Chapters
    BY <1>4 DEF RequestTypes
  <2> QED BY <1>1, <1>3, <2>1 DEF Typed, TypeOK
<1>6. Typed'
  BY <1>1, <1>2, <1>4, <1>5 DEF Typed, TypeOK
<1>7. ListKept'
  <2>1. CASE r.stage = "ok"
    BY <1>3, <2>1 DEF ListKept
  <2>2. CASE r.stage # "ok"
    <3>1. behind' = behind /\ (Owed => Owed')
      <4>1. r.stage \in {"sent", "refused"}
        BY <2>2 DEF OnError
      <4> QED BY <1>2, <1>3, <2>2, <4>1 DEF Owed
    <3> QED BY <1>1, <1>2, <3>1 DEF ListKept, Agrees
  <2> QED BY <2>1, <2>2
<1>8. JobsGrow'
  BY <1>1, <1>2 DEF JobsGrow
<1>9. OptKept'
  <2>1. SUFFICES ASSUME NEW c \in opt \ toldFailed, ~(r.op \in PullOps /\ c \in r.ids)
                 PROVE  OptimisticEnds(c)'
    BY <1>2, <1>3 DEF OptKept
  <2>2. OptimisticEnds(c)
    BY <1>1 DEF OptKept
  <2>3. \A S : PullUnderWay(c, S) => PullUnderWay(c, S)'
    BY <1>2, <2>1 DEF PullUnderWay
  <2>4. JobIsDue(c) => JobIsDue(c)'
    BY <1>2, <1>3, <2>3 DEF JobIsDue
  <2>5. NewestIsPull(jobsSeen, c) => NewestIsPull(jobsSeen, c)'
    BY <1>2 DEF NewestIsPull
  <2> QED BY <2>2, <2>3, <2>4, <2>5 DEF OptimisticEnds
<1> QED BY <1>6, <1>7, <1>8, <1>9 DEF Kept

-----------------------------------------------------------------------------
(***************************************************************************)
(* The two queries                                                         *)
(***************************************************************************)
LEMMA FetchTyped ==
    ASSUME NEW S, NEW f \in FetchOf(S)
    PROVE  /\ f.st = "served" => f.data \in S
           /\ f = Idle => f.st = "idle"
           /\ f = Asked => f.st = "asked"
BY DEF FetchOf, Idle, Asked

LEMMA FetchOfTyped ==
    ASSUME NEW S
    PROVE  /\ Idle \in FetchOf(S) /\ Asked \in FetchOf(S) /\ Idle.st = "idle" /\ Asked.st = "asked"
           /\ \A d \in S : /\ Served(d) \in FetchOf(S)
                           /\ Served(d).st = "served" /\ Served(d).data = d
BY DEF FetchOf, Idle, Asked, Served

\* A step of the list query that leaves the jobs and the optimistic pulls.
LEMMA ListStepKeeps ==
    ASSUME Kept, UNCHANGED <<serverVars, mutVars, jobsVars, sel, query, toldFailed>>,
           list' \in Lists, listFetch' \in FetchOf(Lists), listErr' \in BOOLEAN,
           behind' \subseteq {"list", "jobs"}, "jobs" \in behind => "jobs" \in behind',
           opt' \subseteq opt, ListKept'
    PROVE  Kept'
<1>1. Typed /\ JobsGrow /\ OptKept
  BY DEF Kept
<1>2. /\ server' = server /\ jobs' = jobs /\ stamp' = stamp /\ reqs' = reqs /\ ops' = ops /\ pulls' = pulls
      /\ jobsSeen' = jobsSeen /\ jobsFetch' = jobsFetch /\ sel' = sel /\ query' = query
      /\ toldFailed' = toldFailed
  BY DEF serverVars, mutVars, jobsVars
<1>3. Typed'
  BY <1>1, <1>2 DEF Typed, TypeOK
<1>4. JobsGrow'
  BY <1>1, <1>2 DEF JobsGrow
<1>5. OptKept'
  <2>1. SUFFICES ASSUME NEW c \in opt \ toldFailed PROVE OptimisticEnds(c)'
    BY <1>2 DEF OptKept
  <2>2. OptimisticEnds(c)
    BY <1>1 DEF OptKept
  <2>3. \A S : PullUnderWay(c, S) => PullUnderWay(c, S)'
    BY <1>2 DEF PullUnderWay
  <2>4. JobIsDue(c) => JobIsDue(c)'
    BY <1>2, <2>3 DEF JobIsDue
  <2>5. NewestIsPull(jobsSeen, c) => NewestIsPull(jobsSeen, c)'
    BY <1>2 DEF NewestIsPull
  <2> QED BY <2>2, <2>3, <2>4, <2>5 DEF OptimisticEnds
<1> QED BY <1>3, <1>4, <1>5 DEF Kept

LEMMA ListStepsKeep ==
    ASSUME Kept, ListServed \/ ListArrives \/ ListFails \/ ListPoll \/ Focus
    PROVE  Kept'
<1>1. /\ Typed /\ ListKept
      /\ list \in Lists /\ listFetch \in FetchOf(Lists) /\ listErr \in BOOLEAN /\ server \in Lists
      /\ behind \subseteq {"list", "jobs"}
  BY DEF Kept, Typed, TypeOK
<1>2. /\ Idle \in FetchOf(Lists) /\ Asked \in FetchOf(Lists) /\ Idle.st = "idle" /\ Asked.st = "asked"
      /\ \A d \in Lists : Served(d) \in FetchOf(Lists) /\ Served(d).st = "served" /\ Served(d).data = d
  BY FetchOfTyped
<1>3. CASE ListServed
  <2>1. Snapshot \in Lists
    <3>1. Gone \in ChapterState
      BY DEF Gone, ChapterState
    <3> QED BY <1>1, <3>1 DEF Snapshot, Lists
  <2>2. \A c \in Chapters : Agrees(Snapshot, c)
    <3>1. SUFFICES ASSUME NEW c \in Chapters PROVE Agrees(Snapshot, c)
      OBVIOUS
    <3>2. server[c] \in ChapterState
      BY <1>1 DEF Lists
    <3>3. CASE server[c].here
      <4>1. Snapshot[c] = server[c]
        BY <3>3 DEF Snapshot
      <4>2. Size(server[c].files) <= Size(server[c].files)
        BY <3>2 DEF Size, ChapterState
      <4> QED BY <4>1, <4>2 DEF Agrees
    <3>4. CASE ~server[c].here
      <4>1. Snapshot[c] = Gone
        BY <3>4 DEF Snapshot
      <4>2. Gone.here = FALSE
        BY DEF Gone
      <4>3. server[c].here = FALSE
        BY <3>2, <3>4 DEF ChapterState
      <4> QED BY <4>1, <4>2, <4>3 DEF Agrees
    <3> QED BY <3>3, <3>4
  <2>3. /\ listFetch' = Served(Snapshot) /\ behind' = behind \ {"list"} /\ server' = server
        /\ list' = list /\ listErr' = listErr /\ opt' = opt
        /\ UNCHANGED <<serverVars, mutVars, jobsVars, sel, query, toldFailed>>
    BY <1>3 DEF ListServed, serverVars
  <2>4. listFetch' \in FetchOf(Lists) /\ listFetch'.st = "served" /\ listFetch'.data = Snapshot
    BY <1>2, <2>1, <2>3
  <2>5. \A c \in Chapters : Agrees(listFetch.data, c)'
    BY <2>2, <2>3, <2>4 DEF Agrees
  <2>6. ListKept'
    BY <2>4, <2>5 DEF ListKept
  <2> QED BY <1>1, <2>3, <2>4, <2>6, ListStepKeeps
<1>4. CASE ListArrives
  <2>1. /\ listFetch.st = "served" /\ list' = listFetch.data /\ listErr' = FALSE /\ listFetch' = Idle
        /\ opt' \subseteq opt /\ behind' = behind /\ server' = server /\ reqs' = reqs
        /\ UNCHANGED <<serverVars, mutVars, jobsVars, sel, query, toldFailed>>
    BY <1>4 DEF ListArrives, CleanupEffect, serverVars, mutVars
  <2>2. list' \in Lists /\ listFetch # Asked /\ listFetch # Idle
    BY <1>1, <2>1, FetchTyped
  <2>3. ListKept'
    <3>1. SUFFICES ASSUME NEW c \in Chapters,
                          ~Owed, "list" \notin behind
                   PROVE  Agrees(list, c)'
      BY <2>1 DEF ListKept, Owed
    <3>2. Agrees(listFetch.data, c)
      BY <1>1, <2>2, <3>1 DEF ListKept
    <3> QED BY <2>1, <3>2 DEF Agrees
  <2> QED BY <1>1, <1>2, <2>1, <2>2, <2>3, ListStepKeeps
<1>5. CASE ListFails
  <2>1. /\ listFetch' = Idle /\ listErr' = TRUE /\ behind' = behind \cup {"list"}
        /\ list' = list /\ opt' = opt
        /\ UNCHANGED <<serverVars, mutVars, jobsVars, sel, query, toldFailed>>
    BY <1>5 DEF ListFails
  <2>2. ListKept'
    BY <2>1 DEF ListKept
  <2> QED BY <1>1, <1>2, <2>1, <2>2, ListStepKeeps
<1>6. CASE ListPoll \/ Focus
  <2>1. /\ listFetch' = Asked /\ listErr' = listErr /\ behind' = behind
        /\ list' = list /\ opt' = opt
        /\ UNCHANGED <<serverVars, mutVars, jobsVars, sel, query, toldFailed>>
    BY <1>6 DEF ListPoll, Focus
  <2>2. ListKept'
    BY <2>1 DEF ListKept
  <2> QED BY <1>1, <1>2, <2>1, <2>2, ListStepKeeps
<1> QED BY <1>3, <1>4, <1>5, <1>6

\* A step of the jobs query that leaves the list and the requests.
LEMMA JobsStepKeeps ==
    ASSUME Kept, UNCHANGED <<serverVars, mutVars, listVars, sel, query, toldFailed>>,
           jobsSeen' \in ShownLists, jobsFetch' \in FetchOf(ShownLists),
           behind' \subseteq {"list", "jobs"}, "list" \in behind <=> "list" \in behind',
           opt' \subseteq opt, JobsGrow', OptKept'
    PROVE  Kept'
<1>1. Typed /\ ListKept
  BY DEF Kept
<1>2. /\ server' = server /\ jobs' = jobs /\ stamp' = stamp /\ reqs' = reqs /\ ops' = ops /\ pulls' = pulls
      /\ list' = list /\ listFetch' = listFetch /\ listErr' = listErr /\ sel' = sel
      /\ query' = query /\ toldFailed' = toldFailed
  BY DEF serverVars, mutVars, listVars
<1>3. Typed'
  BY <1>1, <1>2 DEF Typed, TypeOK
<1>4. ListKept'
  BY <1>1, <1>2 DEF ListKept, Agrees, Owed
<1> QED BY <1>3, <1>4 DEF Kept

LEMMA JobLengths ==
    ASSUME NEW c \in Chapters
    PROVE  /\ \A js \in JobLists : js[c] \in Seq(JobState) /\ Len(js[c]) \in Nat
           /\ \A js \in ShownLists : js[c] \in Seq(ShownState) /\ Len(js[c]) \in Nat
BY DEF JobLists, ShownLists

\* What the page is told of the jobs: as many, each with the state it shows.
LEMMA JobsShownTyped ==
    ASSUME jobs \in JobLists
    PROVE  JobsShown \in ShownLists /\ \A c \in Chapters : Len(JobsShown[c]) = Len(jobs[c])
<1>1. SUFFICES ASSUME NEW c \in Chapters
               PROVE  JobsShown[c] \in Seq(ShownState) /\ Len(JobsShown[c]) = Len(jobs[c])
  BY DEF JobsShown, ShownLists
<1> DEFINE js == jobs[c]
<1>2. js \in Seq(JobState)
  BY JobLengths
<1>3. JobsShown[c] = [i \in DOMAIN js |-> Shown(js[i])]
  BY DEF JobsShown
<1> HIDE DEF js
<1>4. \A j \in JobState : Shown(j) \in ShownState
  BY DEF Shown, JobState, ShownState, PageSteps
<1>5. Len(js) \in Nat /\ DOMAIN js = 1 .. Len(js) /\ \A i \in DOMAIN js : js[i] \in JobState
  BY <1>2
<1>6. JobsShown[c] \in [1 .. Len(js) -> ShownState]
  BY <1>3, <1>4, <1>5
<1> QED BY <1>5, <1>6 DEF js

\* The newest job of a chapter is active, or the effect takes the chapter out.
LEMMA NewestJob ==
    ASSUME NEW js \in ShownLists, NEW c \in Chapters, Len(js[c]) > 0, ~JobFinished(js, c)
    PROVE  NewestIsPull(js, c)
<1>1. js[c] \in Seq(ShownState)
  BY JobLengths
<1>2. js[c] # <<>>
  BY <1>1
<1>3. Head(js[c]) \in ShownState
  BY <1>1, <1>2
<1> QED BY <1>2, <1>3 DEF JobFinished, NewestIsPull, ShownState

LEMMA JobsArriveKeeps ==
    ASSUME Kept, JobsArrive
    PROVE  Kept'
<1>1. /\ Typed /\ JobsGrow /\ OptKept
      /\ jobs \in JobLists /\ jobsSeen \in ShownLists /\ jobsFetch \in FetchOf(ShownLists)
      /\ behind \subseteq {"list", "jobs"} /\ opt \subseteq Chapters
  BY DEF Kept, Typed, TypeOK
<1>2. /\ jobsFetch.st = "served" /\ jobsSeen' = jobsFetch.data /\ jobsFetch' = Idle
      /\ behind' = behind /\ jobs' = jobs /\ reqs' = reqs /\ list' = list /\ toldFailed' = toldFailed
      /\ UNCHANGED <<serverVars, mutVars, listVars, sel, query, toldFailed>>
      /\ opt' = IF list # list \/ jobsFetch.data # jobsSeen
                THEN opt \ Cleared(list, jobsFetch.data) ELSE opt
  BY DEF JobsArrive, CleanupEffect, serverVars, mutVars, listVars
<1> DEFINE data == jobsFetch.data
<1>3. data \in ShownLists /\ jobsFetch # Asked
  BY <1>1, <1>2, FetchTyped
<1>4. /\ Idle \in FetchOf(ShownLists) /\ Idle.st = "idle"
  BY FetchOfTyped
<1>5. /\ opt' \subseteq opt
      /\ \A c \in opt' : data = jobsSeen \/ ~JobFinished(data, c)
  BY <1>2 DEF Cleared
<1>6. jobsSeen' = data
  BY <1>2
<1>7. \A c \in Chapters : /\ Len(jobsSeen[c]) <= Len(data[c]) /\ Len(data[c]) <= Len(jobs[c])
                          /\ Len(jobsSeen[c]) \in Nat /\ Len(data[c]) \in Nat /\ Len(jobs[c]) \in Nat
  <2>1. \A c \in Chapters : Len(jobsSeen[c]) <= Len(data[c]) /\ Len(data[c]) <= Len(jobs[c])
    BY <1>1, <1>2 DEF JobsGrow
  <2>2. \A c \in Chapters : /\ \A js \in JobLists : Len(js[c]) \in Nat
                            /\ \A js \in ShownLists : Len(js[c]) \in Nat
    BY JobLengths
  <2> QED BY <1>1, <1>3, <2>1, <2>2
<1>8. JobsGrow'
  BY <1>2, <1>4, <1>7 DEF JobsGrow
<1>9. OptKept'
  <2>1. SUFFICES ASSUME NEW c \in opt', c \notin toldFailed PROVE OptimisticEnds(c)'
    BY <1>2 DEF OptKept
  <2>2. c \in Chapters /\ c \in opt /\ OptimisticEnds(c)
    BY <1>1, <1>5, <2>1 DEF OptKept
  <2>3. \A S : PullUnderWay(c, S) <=> PullUnderWay(c, S)'
    BY <1>2 DEF PullUnderWay
  <2>4. /\ Len(jobsSeen[c]) <= Len(data[c]) /\ Len(data[c]) <= Len(jobs[c])
        /\ Len(jobsSeen[c]) \in Nat /\ Len(data[c]) \in Nat /\ Len(jobs[c]) \in Nat
    BY <1>7, <2>2
  <2>5. Len(data[c]) > 0 /\ ~JobFinished(data, c) => NewestIsPull(data, c)
    BY <1>3, <2>2, NewestJob
  <2>6. data = jobsSeen \/ ~JobFinished(data, c)
    BY <1>5
  <2>7. NewestIsPull(data, c) => OptimisticEnds(c)'
    BY <1>6 DEF OptimisticEnds, NewestIsPull
  <2> HIDE DEF data
  <2>8. CASE PullUnderWay(c, {"sent", "refused"})
    BY <2>3, <2>8 DEF OptimisticEnds
  <2>9. CASE NewestIsPull(jobsSeen, c)
    <3>1. Len(jobsSeen[c]) > 0
      <4>1. jobsSeen[c] \in Seq(ShownState) /\ jobsSeen[c] # <<>>
        BY <1>1, <2>2, <2>9, JobLengths DEF NewestIsPull
      <4> QED BY <4>1
    <3>2. NewestIsPull(data, c)
      BY <2>4, <2>5, <2>6, <2>9, <3>1
    <3> QED BY <2>7, <3>2
  <2>10. CASE JobIsDue(c) /\ Len(jobsSeen[c]) < Len(data[c])
    <3>1. Len(data[c]) > 0 /\ data # jobsSeen
      BY <2>4, <2>10
    <3> QED BY <2>5, <2>6, <2>7, <3>1
  <2>11. CASE JobIsDue(c) /\ ~(Len(jobsSeen[c]) < Len(data[c]))
    <3>1. Len(data[c]) < Len(jobs[c])
      BY <2>4, <2>11 DEF JobIsDue
    <3>2. "jobs" \in behind \/ PullUnderWay(c, {"ok"})
      BY <1>3, <2>11 DEF JobIsDue, data
    <3>3. JobIsDue(c)'
      BY <1>2, <1>6, <2>3, <3>1, <3>2 DEF JobIsDue
    <3> QED BY <3>3 DEF OptimisticEnds
  <2> QED BY <2>2, <2>8, <2>9, <2>10, <2>11 DEF OptimisticEnds
<1> QED BY <1>1, <1>2, <1>3, <1>4, <1>5, <1>8, <1>9, JobsStepKeeps

LEMMA JobsStepsKeep ==
    ASSUME Kept, JobsServed \/ JobsFail \/ JobsPollTick
    PROVE  Kept'
<1>1. /\ Typed /\ JobsGrow /\ OptKept
      /\ jobs \in JobLists /\ jobsSeen \in ShownLists /\ jobsFetch \in FetchOf(ShownLists)
      /\ behind \subseteq {"list", "jobs"} /\ opt \subseteq Chapters
  BY DEF Kept, Typed, TypeOK
<1>2. /\ Idle \in FetchOf(ShownLists) /\ Asked \in FetchOf(ShownLists)
      /\ Idle.st = "idle" /\ Asked.st = "asked"
      /\ Served(JobsShown) \in FetchOf(ShownLists) /\ Served(JobsShown).st = "served" /\ Served(JobsShown).data = JobsShown
  BY <1>1, FetchOfTyped, JobsShownTyped
<1>3. \A c \in Chapters : /\ Len(jobsSeen[c]) <= Len(jobs[c]) /\ Len(jobs[c]) \in Nat
                          /\ Len(JobsShown[c]) = Len(jobs[c])
  BY <1>1, JobLengths, JobsShownTyped DEF JobsGrow
<1>4. /\ jobsSeen' = jobsSeen /\ jobs' = jobs /\ reqs' = reqs /\ opt' = opt /\ toldFailed' = toldFailed
      /\ UNCHANGED <<serverVars, mutVars, listVars, sel, query, toldFailed>>
  BY DEF JobsServed, JobsFail, JobsPollTick, serverVars, mutVars
<1>5. /\ jobsFetch' \in FetchOf(ShownLists) /\ behind' \subseteq {"list", "jobs"}
      /\ "list" \in behind <=> "list" \in behind'
      /\ \/ jobsFetch = Asked /\ jobsFetch' = Served(JobsShown)
         \/ jobsFetch' = Idle /\ "jobs" \in behind'
         \/ jobsFetch = Idle /\ jobsFetch' = Asked /\ behind' = behind
  BY <1>1, <1>2 DEF JobsServed, JobsFail, JobsPollTick
<1>6. /\ jobsFetch'.st = "served" => jobsFetch'.data = JobsShown
      /\ jobsFetch' = Asked \/ "jobs" \in behind' \/ jobsFetch'.st = "served"
  BY <1>2, <1>5
<1>7. JobsGrow'
  BY <1>3, <1>4, <1>6 DEF JobsGrow
<1>8. OptKept'
  <2>1. SUFFICES ASSUME NEW c \in opt \ toldFailed PROVE OptimisticEnds(c)'
    BY <1>4 DEF OptKept
  <2>2. OptimisticEnds(c)
    BY <1>1 DEF OptKept
  <2>3. \A S : PullUnderWay(c, S) => PullUnderWay(c, S)'
    BY <1>4 DEF PullUnderWay
  <2>4. JobIsDue(c) => JobIsDue(c)'
    <3>1. c \in Chapters
      BY <1>1
    <3> QED BY <1>3, <1>4, <1>6, <3>1 DEF JobIsDue
  <2>5. NewestIsPull(jobsSeen, c) => NewestIsPull(jobsSeen, c)'
    BY <1>4 DEF NewestIsPull
  <2> QED BY <2>2, <2>3, <2>4, <2>5 DEF OptimisticEnds
<1> QED BY <1>1, <1>4, <1>5, <1>7, <1>8, JobsStepKeeps

-----------------------------------------------------------------------------
(***************************************************************************)
(* The pull jobs                                                           *)
(***************************************************************************)
LEMMA JobEndsKeeps ==
    ASSUME Kept, UnchangedByJobs, server' \in Lists, stamp' \in Copies,
           behind' \in {behind, behind \cup {"list"}},
           NEW c \in Chapters, NEW i \in DOMAIN jobs[c], NEW st \in JobState, Becomes(c, i, st),
           "list" \notin behind' =>
              \A d \in Chapters : /\ server'[d].here = server[d].here /\ server'[d].read = server[d].read
                                  /\ server'[d].page = server[d].page
                                  /\ Size(server[d].files) <= Size(server'[d].files)
    PROVE  Kept'
<1>1. Typed /\ ListKept /\ JobsGrow /\ OptKept /\ jobs \in JobLists /\ server \in Lists
      /\ list \in Lists /\ listFetch \in FetchOf(Lists)
  BY DEF Kept, Typed, TypeOK
<1>2. /\ reqs' = reqs /\ ops' = ops /\ pulls' = pulls /\ list' = list /\ listFetch' = listFetch
      /\ listErr' = listErr /\ jobsSeen' = jobsSeen /\ jobsFetch' = jobsFetch /\ opt' = opt
      /\ sel' = sel /\ query' = query /\ toldFailed' = toldFailed
      /\ behind' \subseteq {"list", "jobs"} /\ ("jobs" \in behind => "jobs" \in behind')
  BY <1>1 DEF UnchangedByJobs, mutVars, listVars, jobsVars, Typed, TypeOK
<1>3. jobs' \in JobLists /\ \A d \in Chapters : Len(jobs'[d]) = Len(jobs[d])
  <2> DEFINE js == jobs[c]
             new == [js EXCEPT ![i] = st]
  <2>1. js \in Seq(JobState)
    BY <1>1, JobLengths
  <2>2. jobs' = [jobs EXCEPT ![c] = new]
    BY DEF Becomes
  <2>3. new \in Seq(JobState) /\ Len(new) = Len(js)
    <3>1. i \in DOMAIN js
      OBVIOUS
    <3> HIDE DEF js
    <3> QED BY <2>1, <3>1
  <2> HIDE DEF new
  <2>4. jobs' \in JobLists
    BY <1>1, <2>2, <2>3 DEF JobLists
  <2>5. \A d \in Chapters : jobs'[d] = IF d = c THEN new ELSE jobs[d]
    BY <1>1, <2>2 DEF JobLists
  <2> QED BY <2>3, <2>4, <2>5
<1>4. Typed'
  BY <1>1, <1>2, <1>3 DEF Typed, TypeOK
<1>5. JobsGrow'
  BY <1>1, <1>2, <1>3 DEF JobsGrow
<1>8. OptKept'
  <2>1. SUFFICES ASSUME NEW d \in opt \ toldFailed PROVE OptimisticEnds(d)'
    BY <1>2 DEF OptKept
  <2>2. OptimisticEnds(d) /\ d \in Chapters
    BY <1>1 DEF OptKept, Typed, TypeOK
  <2>3. \A S : PullUnderWay(d, S) => PullUnderWay(d, S)'
    BY <1>2 DEF PullUnderWay
  <2>4. JobIsDue(d) => JobIsDue(d)'
    BY <1>2, <1>3, <2>2, <2>3 DEF JobIsDue
  <2>5. NewestIsPull(jobsSeen, d) => NewestIsPull(jobsSeen, d)'
    BY <1>2 DEF NewestIsPull
  <2> QED BY <2>2, <2>3, <2>4, <2>5 DEF OptimisticEnds
<1>6. CASE "list" \in behind'
  <2>1. ListKept'
    BY <1>6 DEF ListKept
  <2> QED BY <1>4, <1>5, <1>8, <2>1 DEF Kept
<1>7. CASE "list" \notin behind'
  <2>0. "list" \notin behind
    BY <1>7
  <2>1. \A l \in Lists : \A d \in Chapters : Agrees(l, d) => Agrees(l, d)'
    <3>1. SUFFICES ASSUME NEW l \in Lists, NEW d \in Chapters, Agrees(l, d) PROVE Agrees(l, d)'
      OBVIOUS
    <3>2. l[d].files \in {"none", "part", "full"} /\ server[d].files \in {"none", "part", "full"}
          /\ server'[d].files \in {"none", "part", "full"}
      BY <1>1 DEF Lists, ChapterState
    <3>3. \A f \in {"none", "part", "full"} : Size(f) \in Nat
      BY DEF Size
    <3>4. Size(l[d].files) <= Size(server[d].files) => Size(l[d].files) <= Size(server'[d].files)
      BY <1>7, <3>2, <3>3
    <3> QED BY <1>7, <3>1, <3>4 DEF Agrees
  <2>2. listFetch.st = "served" => listFetch.data \in Lists
    BY <1>1, FetchTyped
  <2>3. SUFFICES ASSUME NEW d \in Chapters, ~Owed, listFetch # Asked
                 PROVE  \/ listFetch.st = "served" /\ Agrees(listFetch.data, d)'
                        \/ listFetch = Idle /\ Agrees(list, d)'
    <3>1. ListKept'
      BY <1>2, <2>3 DEF ListKept, Owed
    <3> QED BY <1>4, <1>5, <1>8, <3>1 DEF Kept
  <2>4. \/ listFetch.st = "served" /\ Agrees(listFetch.data, d)
        \/ listFetch = Idle /\ Agrees(list, d)
    BY <1>1, <2>0, <2>3 DEF ListKept
  <2>5. listFetch.st = "served" /\ Agrees(listFetch.data, d) => Agrees(listFetch.data, d)'
    <3>1. SUFFICES ASSUME listFetch.st = "served", Agrees(listFetch.data, d)
                   PROVE  Agrees(listFetch.data, d)'
      OBVIOUS
    <3>2. PICK l \in Lists : l = listFetch.data
      BY <2>2, <3>1
    <3>3. Agrees(l, d)'
      BY <2>1, <3>1, <3>2
    <3> QED BY <1>2, <3>2, <3>3 DEF Agrees
  <2>6. Agrees(list, d) => Agrees(list, d)'
    <3>1. PICK l \in Lists : l = list
      BY <1>1
    <3>2. Agrees(list, d) => Agrees(l, d)'
      BY <2>1, <3>1
    <3> QED BY <1>2, <3>1, <3>2 DEF Agrees
  <2> QED BY <2>4, <2>5, <2>6
<1> QED BY <1>6, <1>7

\* A copy of a meta.json is saved: a chapter is there, with the copy's read mark
\* and page.
LEMMA CopiesTyped ==
    ASSUME server \in Lists
    PROVE  /\ NoCopy \in Copies
           /\ \A c \in Chapters : CopyOf(c) \in Copies /\ [NoCopy EXCEPT !.ch = c] \in Copies
           /\ \A k \in Copies : SavedCopy(k) \in Lists
<1>1. NoCopy \in Copies /\ \A c \in Chapters : [NoCopy EXCEPT !.ch = c] \in Copies
  BY DEF NoCopy, Copies
<1>2. ASSUME NEW c \in Chapters PROVE CopyOf(c) \in Copies
  <2>1. server[c] \in ChapterState
    BY DEF Lists
  <2> QED BY <2>1 DEF CopyOf, Copies, ChapterState
<1>3. ASSUME NEW k \in Copies PROVE SavedCopy(k) \in Lists
  <2>1. k.read \in BOOLEAN /\ k.page \in {0, LeftAt}
    BY <1>3 DEF Copies
  <2>2. \A ch \in ChapterState :
           [[[ch EXCEPT !.here = TRUE] EXCEPT !.read = k.read] EXCEPT !.page = k.page] \in ChapterState
    BY <2>1 DEF ChapterState
  <2>3. \A c \in Chapters : server[c] \in ChapterState
    BY DEF Lists
  <2>4. CASE k.ch \in Chapters
    <3> DEFINE new == [[[server[k.ch] EXCEPT !.here = TRUE] EXCEPT !.read = k.read] EXCEPT !.page = k.page]
    <3>1. SavedCopy(k) = [server EXCEPT ![k.ch] = new]
      BY <2>4 DEF SavedCopy, Lists
    <3>2. new \in ChapterState
      BY <2>2, <2>3, <2>4
    <3> HIDE DEF new
    <3> QED BY <3>1, <3>2 DEF Lists
  <2>5. CASE k.ch \notin Chapters
    <3>1. SavedCopy(k) = server
      BY <2>5 DEF SavedCopy, Lists
    <3> QED BY <3>1
  <2> QED BY <2>4, <2>5
<1> QED BY <1>1, <1>2, <1>3

LEMMA PullJobsKeep ==
    ASSUME Kept, NEW c \in Chapters, NEW i \in DOMAIN jobs[c],
           \/ PullChapterEnds(c, i) \/ PullPage(c, i) \/ PullPageFails(c, i)
           \/ PullPageReads(c, i) \/ PullPageStamps(c, i)
    PROVE  Kept'
<1>1. server \in Lists /\ stamp \in Copies /\ UnchangedByJobs
  BY DEF Kept, Typed, TypeOK, PullChapterEnds, PullPage, PullPageFails, PullPageReads, PullPageStamps
<1>2. \A d \in Chapters : server[d] \in ChapterState
  BY <1>1 DEF Lists
<1>3. Size("none") = 0 /\ Size("part") = 1 /\ Size("full") = 2
  BY DEF Size
<1>4. {"pull", "pages", "stored", "stamping", "done", "failed"} = JobState
  BY DEF JobState, ShownState, PageSteps
<1>5. \A d \in Chapters : Size(server[d].files) <= Size(server[d].files)
  BY <1>2, <1>3 DEF ChapterState
<1>6. CASE PullChapterEnds(c, i) \/ PullPageFails(c, i) \/ PullPageReads(c, i)
  <2>1. server' = server /\ behind' = behind /\ \E st \in JobState : Becomes(c, i, st)
    BY <1>4, <1>6 DEF PullChapterEnds, PullPageFails, PullPageReads
  <2>2. PICK st \in JobState : Becomes(c, i, st)
    BY <2>1
  <2>3. stamp' \in Copies
    <3>1. stamp' \in {stamp, CopyOf(c)}
      BY <1>6 DEF PullChapterEnds, PullPageFails, PullPageReads
    <3> QED BY <1>1, <3>1, CopiesTyped
  <2>4. \A d \in Chapters : /\ server'[d].here = server[d].here /\ server'[d].read = server[d].read
                            /\ server'[d].page = server[d].page
                            /\ Size(server[d].files) <= Size(server'[d].files)
    BY <1>5, <2>1
  <2> QED BY <1>1, <2>1, <2>2, <2>3, <2>4, JobEndsKeeps
<1>7. CASE PullPage(c, i)
  <2> DEFINE f == IF server[c].files = "none" THEN "part" ELSE "full"
             new == [server[c] EXCEPT !.files = f]
  <2>1. /\ server' = [server EXCEPT ![c] = new] /\ \E st \in JobState : Becomes(c, i, st)
        /\ stamp' = stamp /\ behind' = behind
    BY <1>1, <1>4, <1>7 DEF PullPage, Lists
  <2>2. PICK st \in JobState : Becomes(c, i, st)
    BY <2>1
  <2>3. f \in {"part", "full"} /\ Size(server[c].files) <= Size(f)
    BY <1>2, <1>3 DEF ChapterState
  <2> HIDE DEF f
  <2>4. /\ new \in ChapterState /\ new.here = server[c].here /\ new.read = server[c].read
        /\ new.page = server[c].page /\ new.files = f
    BY <1>2, <2>3 DEF ChapterState
  <2> HIDE DEF new
  <2>5. server' \in Lists /\ \A d \in Chapters : server'[d] = IF d = c THEN new ELSE server[d]
    BY <1>1, <2>1, <2>4 DEF Lists
  <2>6. \A d \in Chapters : /\ server'[d].here = server[d].here /\ server'[d].read = server[d].read
                            /\ server'[d].page = server[d].page
                            /\ Size(server[d].files) <= Size(server'[d].files)
    BY <1>5, <2>3, <2>4, <2>5
  <2> QED BY <1>1, <2>1, <2>2, <2>5, <2>6, JobEndsKeeps
<1>8. CASE PullPageStamps(c, i)
  <2>1. /\ server' = SavedCopy(stamp) /\ stamp' = NoCopy /\ \E st \in JobState : Becomes(c, i, st)
        /\ behind' = IF server' # server THEN behind \cup {"list"} ELSE behind
    BY <1>4, <1>8 DEF PullPageStamps
  <2>2. PICK st \in JobState : Becomes(c, i, st)
    BY <2>1
  <2>3. server' \in Lists /\ stamp' \in Copies
    BY <1>1, <2>1, CopiesTyped
  <2>4. "list" \notin behind' => server' = server
    BY <2>1
  <2>5. "list" \notin behind' =>
          \A d \in Chapters : /\ server'[d].here = server[d].here /\ server'[d].read = server[d].read
                              /\ server'[d].page = server[d].page
                              /\ Size(server[d].files) <= Size(server'[d].files)
    BY <1>5, <2>4
  <2>6. behind' \in {behind, behind \cup {"list"}}
    BY <2>1
  <2> QED BY <1>1, <2>2, <2>3, <2>5, <2>6, JobEndsKeeps
<1> QED BY <1>6, <1>7, <1>8

-----------------------------------------------------------------------------
(***************************************************************************)
(* A refresh: whatever it saves, its answer is still to come               *)
(***************************************************************************)
LEMMA RefreshStepKeeps ==
    ASSUME Kept, UnchangedByRefresh, server' \in Lists, NEW r \in reqs,
           r.stage \in {"busy", "cut"} \/ r.op \notin PullOps,
           reqs' \subseteq RequestTypes, IsFiniteSet(reqs'), Cardinality(reqs') <= ops,
           \A x \in reqs : x # r => x \in reqs',
           behind' \in {behind, behind \cup {"list"}},
           "list" \in behind' \/ Owed' \/ (server' = server /\ ~Owed)
    PROVE  Kept'
<1>1. Typed /\ ListKept /\ JobsGrow /\ OptKept
  BY DEF Kept
<1>2. /\ jobs' = jobs /\ stamp' = stamp /\ ops' = ops /\ pulls' = pulls /\ list' = list
      /\ listFetch' = listFetch /\ listErr' = listErr /\ jobsSeen' = jobsSeen
      /\ jobsFetch' = jobsFetch /\ opt' = opt /\ sel' = sel /\ query' = query
      /\ toldFailed' = toldFailed
      /\ behind' \subseteq {"list", "jobs"} /\ ("jobs" \in behind => "jobs" \in behind')
  BY <1>1 DEF UnchangedByRefresh, listVars, jobsVars, Typed, TypeOK
<1>3. Typed'
  BY <1>1, <1>2 DEF Typed, TypeOK
<1>4. JobsGrow'
  BY <1>1, <1>2 DEF JobsGrow
<1>5. ListKept'
  <2>1. CASE "list" \in behind' \/ Owed'
    BY <2>1 DEF ListKept
  <2>2. CASE server' = server /\ ~Owed /\ "list" \notin behind'
    BY <1>1, <1>2, <2>2 DEF ListKept, Agrees
  <2> QED BY <2>1, <2>2
<1>6. OptKept'
  <2>1. SUFFICES ASSUME NEW c \in opt \ toldFailed PROVE OptimisticEnds(c)'
    BY <1>2 DEF OptKept
  <2>2. OptimisticEnds(c)
    BY <1>1 DEF OptKept
  <2>3. \A S \in SUBSET {"sent", "refused", "ok"} : PullUnderWay(c, S) => PullUnderWay(c, S)'
    BY DEF PullUnderWay
  <2>4. JobIsDue(c) => JobIsDue(c)'
    BY <1>2, <2>3 DEF JobIsDue
  <2>5. NewestIsPull(jobsSeen, c) => NewestIsPull(jobsSeen, c)'
    BY <1>2 DEF NewestIsPull
  <2> QED BY <2>2, <2>3, <2>4, <2>5 DEF OptimisticEnds
<1> QED BY <1>3, <1>4, <1>5, <1>6 DEF Kept

LEMMA RefreshKeeps ==
    ASSUME Kept, NEW r \in reqs, RefreshSteps(r)
    PROVE  Kept'
<1>1. Typed /\ server \in Lists /\ r \in RequestTypes /\ behind \subseteq {"list", "jobs"}
  BY DEF Kept, Typed, TypeOK
<1>2. /\ r.n \in 1 .. MaxOps /\ r.op \in Ops /\ r.ids \in SUBSET Chapters /\ r.last \in BOOLEAN
      /\ r.todo \in SUBSET Chapters /\ r.copy \in Copies
  BY <1>1 DEF RequestTypes
<1>3. /\ UnchangedByRefresh /\ ops' = ops
      /\ r.stage \in {"busy", "cut"} \/ r.op \in RefreshOps
  BY DEF RefreshSteps, RefreshBegins, RefreshReads, RefreshSaves, RefreshEnds, ConnectionBreaks,
         UnchangedByRefresh, Works
<1>4. r.stage \in {"busy", "cut"} \/ r.op \notin PullOps
  BY <1>3 DEF RefreshOps, PullOps
<1>5. ASSUME NEW q \in RequestTypes, q.stage \in {"busy", "cut", "ok"}, reqs' = (reqs \ {r}) \cup {q},
             server' \in Lists, behind' = behind
      PROVE  Kept'
  <2>1. /\ reqs' \subseteq RequestTypes /\ IsFiniteSet(reqs') /\ Cardinality(reqs') <= ops
        /\ (\A x \in reqs : x # r => x \in reqs') /\ q \in reqs'
    BY <1>1, <1>3, <1>5, StepKeepsOthers
  <2>2. Owed'
    BY <1>5, <2>1 DEF Owed
  <2> QED BY <1>3, <1>4, <1>5, <2>1, <2>2, RefreshStepKeeps
<1>6. CASE RefreshBegins(r)
  <2> DEFINE todo == IF r.op = "refresh" THEN {c \in Chapters : ~server[c].here} ELSE r.ids
             q == [r EXCEPT !.stage = "busy", !.todo = todo]
  <2>1. reqs' = (reqs \ {r}) \cup {q} /\ server' = server /\ behind' = behind
    BY <1>6 DEF RefreshBegins
  <2>2. todo \in SUBSET Chapters
    BY <1>2
  <2> HIDE DEF todo
  <2>3. q \in RequestTypes /\ q.stage = "busy"
    BY <1>1, <2>2 DEF RequestTypes
  <2> HIDE DEF q
  <2> QED BY <1>1, <1>5, <2>1, <2>3
<1>7. CASE \E c \in Chapters : RefreshReads(r, c)
  <2>1. PICK c \in Chapters : RefreshReads(r, c)
    BY <1>7
  <2> DEFINE k == IF r.op = "batchRefresh" THEN CopyOf(c) ELSE [NoCopy EXCEPT !.ch = c]
             q == [r EXCEPT !.todo = r.todo \ {c}, !.copy = k]
  <2>2. /\ reqs' = (reqs \ {r}) \cup {q} /\ server' = server /\ behind' = behind
        /\ r.stage \in {"busy", "cut"}
    BY <2>1 DEF RefreshReads, Works
  <2>3. k \in Copies
    BY <1>1, CopiesTyped
  <2> HIDE DEF k
  <2>4. q \in RequestTypes /\ q.stage = r.stage
    BY <1>1, <1>2, <2>3 DEF RequestTypes
  <2> HIDE DEF q
  <2> QED BY <1>1, <1>5, <2>2, <2>4
<1>8. CASE RefreshSaves(r)
  <2> DEFINE q == [r EXCEPT !.copy = NoCopy]
  <2>1. /\ reqs' = (reqs \ {r}) \cup {q} /\ server' = SavedCopy(r.copy) /\ behind' = behind
        /\ r.stage \in {"busy", "cut"}
    BY <1>8 DEF RefreshSaves, Works
  <2>2. server' \in Lists /\ NoCopy \in Copies
    BY <1>1, <1>2, <2>1, CopiesTyped
  <2>3. q \in RequestTypes /\ q.stage = r.stage
    BY <1>1, <2>2 DEF RequestTypes
  <2> HIDE DEF q
  <2> QED BY <1>5, <2>1, <2>2, <2>3
<1>9. CASE ConnectionBreaks(r)
  <2> DEFINE q == [r EXCEPT !.stage = "cut", !.last = FALSE]
  <2>1. reqs' = (reqs \ {r}) \cup {q} /\ server' = server /\ behind' = behind
    BY <1>9 DEF ConnectionBreaks
  <2>2. q \in RequestTypes /\ q.stage = "cut"
    BY <1>1 DEF RequestTypes
  <2> HIDE DEF q
  <2> QED BY <1>1, <1>5, <2>1, <2>2
<1>10. CASE RefreshEnds(r)
  <2>1. server' = server /\ r.stage \in {"busy", "cut"}
    BY <1>10 DEF RefreshEnds, Works
  <2>2. CASE reqs' = Staged(r, "ok") /\ behind' = behind
    <3> DEFINE q == [r EXCEPT !.stage = "ok"]
    <3>1. reqs' = (reqs \ {r}) \cup {q}
      BY <2>2 DEF Staged
    <3>2. q \in RequestTypes /\ q.stage = "ok"
      BY <1>1 DEF RequestTypes
    <3> HIDE DEF q
    <3> QED BY <1>1, <1>5, <2>1, <2>2, <3>1, <3>2
  <2>3. CASE reqs' = Staged(r, "refused") /\ behind' = behind \cup {"list"}
    <3>1. /\ reqs' \subseteq RequestTypes /\ IsFiniteSet(reqs') /\ Cardinality(reqs') <= ops
          /\ \A x \in reqs : x # r => x \in reqs'
      BY <1>1, <1>3, <2>3, StagedKeeps
    <3> QED BY <1>1, <1>3, <1>4, <2>1, <2>3, <3>1, RefreshStepKeeps
  <2>4. CASE reqs' = reqs \ {r} /\ behind' = behind \cup {"list"}
    <3>1. reqs' \subseteq RequestTypes /\ IsFiniteSet(reqs') /\ Cardinality(reqs') <= ops
      BY <1>1, <1>3, <2>4, AnswerKeepsOthers
    <3>2. \A x \in reqs : x # r => x \in reqs'
      BY <2>4
    <3> QED BY <1>1, <1>3, <1>4, <2>1, <2>4, <3>1, <3>2, RefreshStepKeeps
  <2> QED BY <1>10, <2>2, <2>3, <2>4 DEF RefreshEnds
<1> QED BY <1>6, <1>7, <1>8, <1>9, <1>10 DEF RefreshSteps

-----------------------------------------------------------------------------
(***************************************************************************)
(* The user                                                                *)
(***************************************************************************)
\* A step that touches neither requests nor queries.
LEMMA ViewStepKeeps ==
    ASSUME Kept, UNCHANGED <<serverVars, reqs, pulls, listVars, jobsVars, opt, toldFailed, behind>>,
           ops' \in 0 .. MaxOps, ops <= ops', query' \in Queries,
           sel' \in Selections, sel'.ids # {} => sel'.on, sel'.dialog => sel'.ids # {}
    PROVE  Kept'
<1>1. Typed /\ ListKept /\ JobsGrow /\ OptKept
  BY DEF Kept
<1>2. /\ server' = server /\ jobs' = jobs /\ stamp' = stamp /\ reqs' = reqs /\ pulls' = pulls
      /\ list' = list /\ listFetch' = listFetch /\ listErr' = listErr /\ jobsSeen' = jobsSeen
      /\ jobsFetch' = jobsFetch /\ opt' = opt /\ toldFailed' = toldFailed /\ behind' = behind
  BY DEF serverVars, listVars, jobsVars
<1>3. Cardinality(reqs') <= ops' /\ IsFiniteSet(reqs')
  <2>1. Cardinality(reqs) \in Nat /\ IsFiniteSet(reqs) /\ Cardinality(reqs) <= ops /\ ops \in Nat
    BY <1>1, FS_CardinalityType DEF Typed, TypeOK
  <2>2. ops' \in Nat
    OBVIOUS
  <2> QED BY <1>2, <2>1, <2>2
<1>4. Typed'
  BY <1>1, <1>2, <1>3 DEF Typed, TypeOK
<1>5. ListKept'
  BY <1>1, <1>2 DEF ListKept, Agrees, Owed
<1>6. JobsGrow'
  BY <1>1, <1>2 DEF JobsGrow
<1>7. OptKept'
  BY <1>1, <1>2 DEF OptKept, OptimisticEnds, PullUnderWay, JobIsDue, NewestIsPull
<1> QED BY <1>4, <1>5, <1>6, <1>7 DEF Kept

LEMMA SelectKeeps ==
    ASSUME Kept, NEW s \in Selections, Select(s), s.ids # {} => s.on, s.dialog => s.ids # {}
    PROVE  Kept'
<1>1. /\ sel' = s /\ ops' = ops /\ query' = query
      /\ UNCHANGED <<serverVars, reqs, pulls, listVars, jobsVars, opt, toldFailed, behind>>
  BY DEF Select, mutVars
<1>2. ops \in 0 .. MaxOps /\ query \in Queries
  BY DEF Kept, Typed, TypeOK
<1>3. ops' \in 0 .. MaxOps /\ ops <= ops'
  BY <1>1, <1>2
<1> QED BY <1>1, <1>2, <1>3, ViewStepKeeps

LEMMA SelectionKeeps ==
    ASSUME Kept, Selection
    PROVE  Kept'
<1>1. /\ sel \in Selections /\ (sel.ids # {} => sel.on) /\ (sel.dialog => sel.ids # {})
      /\ Filtered \subseteq Chapters
  BY DEF Kept, Typed, TypeOK, Filtered, Listed
<1>2. NoSelection \in Selections /\ NoSelection.ids = {} /\ NoSelection.dialog = FALSE
  BY DEF NoSelection, Selections
<1>3. CASE EnterSelection
  <2> DEFINE s == [sel EXCEPT !.on = TRUE]
  <2>1. s \in Selections /\ s.on /\ s.ids = sel.ids /\ s.dialog = sel.dialog
    BY <1>1 DEF Selections
  <2>2. Select(s)
    BY <1>3 DEF EnterSelection
  <2> HIDE DEF s
  <2> QED BY <1>1, <2>1, <2>2, SelectKeeps
<1>4. CASE HandleExitSelectionMode
  <2>1. Select(NoSelection)
    BY <1>4 DEF HandleExitSelectionMode
  <2> QED BY <1>2, <2>1, SelectKeeps
<1>5. CASE HandleSelectAll \/ HandleInvertSelection \/ \E c \in Chapters, shift \in BOOLEAN : HandleToggleRow(c, shift)
  <2>1. PICK ids \in SUBSET Chapters, last \in Chapters \cup {0} :
            sel.on /\ ~sel.dialog /\ Select([sel EXCEPT !.ids = ids, !.last = last])
    <3>1. sel.last \in Chapters \cup {0} /\ sel.ids \subseteq Chapters
          /\ \A x : [sel EXCEPT !.ids = x] = [sel EXCEPT !.ids = x, !.last = sel.last]
      BY <1>1 DEF Selections
    <3>2. CASE HandleSelectAll
      <4>1. sel.on /\ ~sel.dialog /\ Select([sel EXCEPT !.ids = Filtered])
        BY <3>2 DEF HandleSelectAll, Free
      <4>2. Select([sel EXCEPT !.ids = Filtered, !.last = sel.last])
        BY <3>1, <4>1
      <4> QED BY <1>1, <3>1, <4>1, <4>2
    <3>3. CASE HandleInvertSelection
      <4>1. sel.on /\ ~sel.dialog /\ Select([sel EXCEPT !.ids = Filtered \ sel.ids])
        BY <3>3 DEF HandleInvertSelection, Free
      <4>2. Select([sel EXCEPT !.ids = Filtered \ sel.ids, !.last = sel.last])
        BY <3>1, <4>1
      <4>3. Filtered \ sel.ids \in SUBSET Chapters
        BY <1>1
      <4> QED BY <3>1, <4>1, <4>2, <4>3
    <3>4. CASE \E c \in Chapters, shift \in BOOLEAN : HandleToggleRow(c, shift)
      <4>1. PICK c \in Chapters, shift \in BOOLEAN : HandleToggleRow(c, shift)
        BY <3>4
      <4> DEFINE ids == IF shift /\ sel.last \in Filtered
                        THEN sel.ids \cup ShownBetween(sel.last, c) ELSE Toggled(c)
      <4>2. sel.on /\ ~sel.dialog /\ Select([sel EXCEPT !.ids = ids, !.last = c])
        BY <4>1 DEF HandleToggleRow, Free
      <4>3. ids \in SUBSET Chapters
        BY <1>1, <3>1 DEF ShownBetween, Toggled
      <4>4. c \in Chapters \cup {0}
        OBVIOUS
      <4> HIDE DEF ids
      <4> QED BY <4>2, <4>3, <4>4
    <3> QED BY <1>5, <3>2, <3>3, <3>4
  <2> DEFINE s == [sel EXCEPT !.ids = ids, !.last = last]
  <2>2. s \in Selections /\ s.on = sel.on /\ s.dialog = sel.dialog
    BY <1>1 DEF Selections
  <2>3. Select(s)
    BY <2>1
  <2> HIDE DEF s
  <2> QED BY <1>1, <2>1, <2>2, <2>3, SelectKeeps
<1>6. CASE HandleSelectNone
  <2> DEFINE s == [sel EXCEPT !.ids = {}, !.last = 0]
  <2>1. s \in Selections /\ s.ids = {} /\ s.dialog = sel.dialog
    BY <1>1 DEF Selections
  <2>2. Select(s) /\ ~sel.dialog
    BY <1>6 DEF HandleSelectNone, Free
  <2> HIDE DEF s
  <2> QED BY <1>1, <2>1, <2>2, SelectKeeps
<1>7. CASE \E op \in BatchOps : BatchButton(op)
  <2>1. PICK op \in BatchOps : BatchButton(op)
    BY <1>7
  <2>2. Send(op, sel.ids) /\ sel' = sel
    BY <2>1 DEF BatchButton
  <2>3. op \in Ops /\ sel.ids \in SUBSET Chapters
    BY <1>1 DEF Ops, Selections
  <2> QED BY <1>1, <2>2, <2>3, SendKeeps
<1>8. CASE OpenRemoveDialog
  <2> DEFINE s == [sel EXCEPT !.dialog = TRUE]
  <2>1. s \in Selections /\ s.ids = sel.ids /\ s.on = sel.on
    BY <1>1 DEF Selections
  <2>2. Select(s) /\ sel.ids # {}
    BY <1>8 DEF OpenRemoveDialog
  <2> HIDE DEF s
  <2> QED BY <1>1, <2>1, <2>2, SelectKeeps
<1>9. CASE CancelRemove
  <2> DEFINE s == [sel EXCEPT !.dialog = FALSE]
  <2>1. s \in Selections /\ s.ids = sel.ids /\ s.on = sel.on /\ s.dialog = FALSE
    BY <1>1 DEF Selections
  <2>2. Select(s)
    BY <1>9 DEF CancelRemove
  <2> HIDE DEF s
  <2> QED BY <1>1, <2>1, <2>2, SelectKeeps
<1>10. CASE HandleConfirmRemove
  <2> DEFINE s == [NoSelection EXCEPT !.on = sel.on]
  <2>1. s \in Selections /\ s.ids = {} /\ s.dialog = FALSE
    BY <1>1 DEF Selections, NoSelection
  <2>2. Send("batchRemove", sel.ids) /\ sel' = s
    BY <1>10 DEF HandleConfirmRemove
  <2>3. "batchRemove" \in Ops /\ sel.ids \in SUBSET Chapters
    BY <1>1 DEF Ops, BatchOps, Selections
  <2> HIDE DEF s
  <2> QED BY <2>1, <2>2, <2>3, SendKeeps
<1> QED BY <1>3, <1>4, <1>5, <1>6, <1>7, <1>8, <1>9, <1>10 DEF Selection

LEMMA UserKeeps ==
    ASSUME Kept, User
    PROVE  Kept'
<1>1. /\ sel \in Selections /\ (sel.ids # {} => sel.on) /\ (sel.dialog => sel.ids # {})
      /\ ops \in 0 .. MaxOps
  BY DEF Kept, Typed, TypeOK
<1>2. CASE Refresh
  <2>1. Send("refresh", {}) /\ sel' = sel
    BY <1>2 DEF Refresh
  <2>2. "refresh" \in Ops /\ {} \in SUBSET Chapters
    BY DEF Ops, RefreshOps
  <2> QED BY <1>1, <2>1, <2>2, SendKeeps
<1>3. CASE \E c \in Chapters, op \in RowOps : RowMenu(c, op)
  <2>1. PICK c \in Chapters, op \in RowOps : RowMenu(c, op)
    BY <1>3
  <2>2. Send(op, {c}) /\ sel' = sel
    BY <2>1 DEF RowMenu
  <2>3. op \in Ops /\ {c} \in SUBSET Chapters
    BY DEF Ops
  <2> QED BY <1>1, <2>2, <2>3, SendKeeps
<1>4. CASE \E q \in Queries : SetFilter(q)
  <2>1. PICK q \in Queries : SetFilter(q)
    BY <1>4
  <2>2. /\ ops < MaxOps /\ ops' = ops + 1 /\ query' = q /\ sel' = sel
        /\ UNCHANGED <<serverVars, reqs, pulls, listVars, jobsVars, opt, toldFailed, behind>>
    BY <2>1 DEF SetFilter, Acts
  <2>3. ops' \in 0 .. MaxOps /\ ops <= ops'
    BY <1>1, <2>2, DetailsAssumption
  <2> QED BY <1>1, <2>2, <2>3, ViewStepKeeps
<1>5. CASE Selection
  BY <1>5, SelectionKeeps
<1> QED BY <1>2, <1>3, <1>4, <1>5 DEF User

-----------------------------------------------------------------------------
LEMMA InitKept == Init => Kept
<1>1. SUFFICES ASSUME Init PROVE Kept
  OBVIOUS
<1>2. server \in Lists /\ list = server
  <2>1. SUFFICES ASSUME NEW c \in Chapters
                 PROVE  [Gone EXCEPT !.here = TRUE, !.read = c \in Finished,
                                     !.page = IF c \in Begun THEN LeftAt ELSE 0] \in ChapterState
    BY <1>1 DEF Init, Lists
  <2>2. (c \in Finished) \in BOOLEAN /\ (IF c \in Begun THEN LeftAt ELSE 0) \in {0, LeftAt}
    OBVIOUS
  <2> QED BY <2>2 DEF Gone, ChapterState
<1>3. jobs \in JobLists /\ jobsSeen \in ShownLists /\ jobsSeen = jobs
  <2>1. jobs = [c \in Chapters |-> <<>>] /\ jobsSeen = jobs
    BY <1>1 DEF Init
  <2>2. <<>> \in Seq(JobState) /\ <<>> \in Seq(ShownState)
    OBVIOUS
  <2> QED BY <2>1, <2>2 DEF JobLists, ShownLists
<1>4. /\ Idle \in FetchOf(Lists) /\ Idle \in FetchOf(ShownLists) /\ Idle.st = "idle"
  BY FetchOfTyped
<1>5. NoSelection \in Selections /\ NoSelection.ids = {} /\ NoSelection.dialog = FALSE
  BY DEF NoSelection, Selections
<1>6. IsFiniteSet({}) /\ Cardinality({}) = 0
  BY FS_EmptySet
<1>7. /\ reqs = {} /\ ops = 0 /\ pulls = 0 /\ listFetch = Idle /\ listErr = FALSE /\ jobsFetch = Idle
      /\ opt = {} /\ sel = NoSelection /\ query = Chapters /\ toldFailed = {} /\ behind = {}
      /\ stamp = NoCopy
  BY <1>1 DEF Init
<1>8. TypeOK
  <2>1. 0 \in 0 .. MaxOps /\ 0 \in 0 .. MaxPulls /\ Chapters \in Queries
    BY DetailsAssumption
  <2>2. NoCopy \in Copies
    BY DEF NoCopy, Copies
  <2> QED BY <1>2, <1>3, <1>4, <1>5, <1>7, <2>1, <2>2 DEF TypeOK
<1>9. Typed
  BY <1>6, <1>7, <1>8 DEF Typed
<1>10. ListKept
  <2>1. \A c \in Chapters : Size(server[c].files) <= Size(server[c].files)
    BY <1>2 DEF Lists, ChapterState, Size
  <2> QED BY <1>2, <1>7, <2>1 DEF ListKept, Agrees
<1>11. JobsGrow
  <2>1. \A c \in Chapters : Len(jobs[c]) \in Nat
    BY <1>3, JobLengths
  <2> QED BY <1>3, <1>4, <1>7, <2>1 DEF JobsGrow
<1>12. OptKept
  BY <1>7 DEF OptKept
<1> QED BY <1>9, <1>10, <1>11, <1>12 DEF Kept

LEMMA NextKeeps == Kept /\ [Next]_vars => Kept'
<1>1. SUFFICES ASSUME Kept, [Next]_vars PROVE Kept'
  OBVIOUS
<1>2. CASE Requests
  BY <1>1, <1>2, HandleKeeps, RefreshKeeps, OnSuccessKeeps, OnErrorKeeps DEF Requests
<1>3. CASE Fetches
  BY <1>1, <1>3, ListStepsKeep, JobsStepsKeep, JobsArriveKeeps DEF Fetches
<1>4. CASE Jobs
  BY <1>1, <1>4, PullJobsKeep DEF Jobs
<1>5. CASE User
  BY <1>1, <1>5, UserKeeps
<1>6. CASE UNCHANGED vars
  <2>1. /\ UNCHANGED <<serverVars, reqs, pulls, listVars, jobsVars, opt, toldFailed, behind>>
        /\ ops' = ops /\ query' = query /\ sel' = sel
    BY <1>6 DEF vars, mutVars
  <2>2. /\ ops \in 0 .. MaxOps /\ query \in Queries /\ sel \in Selections
        /\ (sel.ids # {} => sel.on) /\ (sel.dialog => sel.ids # {})
    BY <1>1 DEF Kept, Typed, TypeOK
  <2>3. ops' \in 0 .. MaxOps /\ ops <= ops'
    BY <2>1, <2>2
  <2> QED BY <1>1, <2>1, <2>2, <2>3, ViewStepKeeps
<1> QED BY <1>1, <1>2, <1>3, <1>4, <1>5, <1>6 DEF Next

\* The inductive invariant of the page: every chapter the list or a spinner is
\* wrong about has a request, a fetch or a lost answer to account for it.
THEOREM PageInvariant == Spec => []Kept
BY InitKept, NextKeeps, PTL DEF Spec

\* The state of the page is well formed, requests never run out of numbers and
\* the remove dialog is only open over a selection (useChapterSelection).
THEOREM TypeCorrect == Spec => []TypeOK
<1>1. Kept => TypeOK
  BY DEF Kept, Typed
<1> QED BY <1>1, PageInvariant, PTL

\* A list that nothing is about to refetch shows what the server has: each of
\* the ten mutations invalidates it, and the invalidation drops the fetch that
\* was answered before the change (useChapterOperations, api/hooks.ts). A lost
\* answer, a refresh stopped half-way and an old meta.json that a page job saves
\* over a later change (pull_handler.go) are the exceptions, until the next fetch.
THEOREM QuietListStaysFresh == Spec => []QuietListIsFresh
<1>1. Kept => QuietListIsFresh
  <2>1. SUFFICES ASSUME Kept, reqs = {}, listFetch = Idle, "list" \notin behind,
                        NEW c \in Chapters
                 PROVE  Agrees(list, c)
    BY DEF QuietListIsFresh, Agrees
  <2>2. Idle # Asked /\ Idle.st # "served"
    BY DEF Idle, Asked
  <2>3. ~Owed
    BY <2>1 DEF Owed
  <2> QED BY <2>1, <2>2, <2>3 DEF Kept, ListKept
<1> QED BY <1>1, PageInvariant, PTL

\* A spinner ends: once requests and jobs are settled it stands for stored
\* pages or for a pull that failed, because the job of every other optimistic
\* pull reaches the effect that clears it (useChapterOperations).
THEOREM SpinnersStayHonest == Spec => []SpinnerIsHonest
<1>1. Kept => SpinnerIsHonest
  <2>1. SUFFICES ASSUME Kept, reqs = {}, jobsFetch = Idle, "jobs" \notin behind,
                        ~HasActivePullJobs, NEW c \in Listed, Badge(c) = "pulling"
                 PROVE  c \in toldFailed \/ list[c].files = "part"
    BY DEF SpinnerIsHonest
  <2>2. c \in Chapters
    BY DEF Listed
  <2>3. \A op : PendingIds(op) = {}
    BY <2>1 DEF PendingIds
  <2>4. c \in Pulling \/ list[c].files = "part"
    BY <2>1 DEF Badge
  <2>5. Pulling \subseteq opt
    BY <2>1, <2>3 DEF Pulling, HasActivePullJobs
  <2>6. SUFFICES ASSUME c \in opt, c \notin toldFailed PROVE FALSE
    BY <2>4, <2>5
  <2>7. OptimisticEnds(c)
    BY <2>1, <2>6 DEF Kept, OptKept
  <2>8. Idle # Asked /\ Idle.st # "served"
    BY DEF Idle, Asked
  <2>9. \A S : ~PullUnderWay(c, S)
    BY <2>1 DEF PullUnderWay
  <2>10. ~JobIsDue(c)
    BY <2>1, <2>8, <2>9 DEF JobIsDue
  <2>11. ~NewestIsPull(jobsSeen, c)
    <3>1. SUFFICES ASSUME NewestIsPull(jobsSeen, c) PROVE FALSE
      OBVIOUS
    <3>2. jobsSeen[c] \in Seq(ShownState) /\ jobsSeen[c] # <<>> /\ Head(jobsSeen[c]) = "pull"
      BY <2>1, <2>2, <3>1, JobLengths DEF Kept, Typed, TypeOK, NewestIsPull
    <3>3. 1 \in DOMAIN jobsSeen[c] /\ jobsSeen[c][1] = "pull"
      BY <3>2
    <3> QED BY <2>1, <2>2, <3>3 DEF HasActivePullJobs, ActivePull
  <2> QED BY <2>7, <2>9, <2>10, <2>11 DEF OptimisticEnds
<1> QED BY <1>1, PageInvariant, PTL

-----------------------------------------------------------------------------
(***************************************************************************)
(* The reading button                                                      *)
(***************************************************************************)
LEMMA ChapterSets ==
    ASSUME NEW S \in SUBSET Chapters, S # {}
    PROVE  First(S) \in S /\ Last(S) \in S
<1>1. IsFiniteSet(S) /\ S \in SUBSET Nat
  BY DetailsAssumption, FS_Subset
<1> QED BY <1>1, FirstAndLast

LEMMA NextIsUnread ==
    ASSUME Unread # {}, NEW last
    PROVE  NextUnread(last) \in Unread
<1> DEFINE from == IF last \in Listed \ Unread /\ After(Unread, last) # {} THEN last ELSE Last(Listed \ Unread)
<1>1. Unread \in SUBSET Chapters /\ After(Unread, from) \in SUBSET Unread
  BY DEF Unread, Listed, After
<1>2. First(Unread) \in Unread
  BY <1>1, ChapterSets
<1>3. After(Unread, from) # {} => First(After(Unread, from)) \in Unread
  <2>1. After(Unread, from) \in SUBSET Chapters
    BY <1>1
  <2> QED BY <1>1, <2>1, ChapterSets
<1>4. NextUnread(last) = IF After(Unread, from) # {} THEN First(After(Unread, from)) ELSE First(Unread)
  BY DEF NextUnread
<1> HIDE DEF from
<1> QED BY <1>2, <1>3, <1>4

\* Whatever the details call the last read chapter, the reading button leads to
\* a listed one, to an unread one while there is one, and back to the page of
\* one in progress (getReadingCtaInfo, src/web/src/utils/readingCta.ts).
THEOREM CtaAlwaysLeadsOn == Spec => []CtaLeadsOn
<1>1. Kept => CtaLeadsOn
  <2>1. SUFFICES ASSUME Kept, Listed # {}, NEW last \in Chapters \cup {0}
                 PROVE  LET cta == ReadingCta(last)
                        IN  /\ cta.ch \in Listed
                            /\ Unread # {} => cta.ch \in Unread
                            /\ (\E c \in Unread : list[c].page > 1) =>
                                  list[cta.ch].page = cta.page /\ cta.page > 1
    BY DEF CtaLeadsOn
  <2> DEFINE cta == ReadingCta(last)
  <2>2. Listed \in SUBSET Chapters /\ Unread \subseteq Listed /\ InProgress \subseteq Unread
    BY DEF Listed, Unread, InProgress
  <2>3. (\E c \in Unread : list[c].page > 1) <=> InProgress # {}
    BY DEF InProgress
  <2>4. CASE InProgress # {}
    <3> DEFINE c == IF last \in InProgress THEN last ELSE Last(InProgress)
    <3>1. InProgress \in SUBSET Chapters
      BY <2>2
    <3>2. c \in InProgress
      BY <2>4, <3>1, ChapterSets
    <3>3. cta = [type |-> "resume", ch |-> c, page |-> list[c].page]
      BY <2>4 DEF ReadingCta
    <3>4. cta.ch = c /\ cta.page = list[c].page
      BY <3>3
    <3> HIDE DEF c, cta
    <3>5. list[c].page > 1
      BY <3>2 DEF InProgress
    <3> QED BY <2>2, <3>2, <3>4, <3>5 DEF cta
  <2>5. CASE InProgress = {} /\ (Unread = Listed \/ Unread = {})
    <3>1. cta.ch = First(Listed)
      BY <2>5 DEF ReadingCta
    <3>2. First(Listed) \in Listed
      BY <2>1, <2>2, ChapterSets
    <3> HIDE DEF cta
    <3>3. cta.ch \in Listed /\ (Unread # {} => cta.ch \in Unread)
      BY <2>5, <3>1, <3>2
    <3> QED BY <2>3, <2>5, <3>3 DEF cta
  <2>6. CASE InProgress = {} /\ Unread # Listed /\ Unread # {}
    <3>1. cta.ch = NextUnread(last)
      BY <2>6 DEF ReadingCta
    <3>2. NextUnread(last) \in Unread
      BY <2>6, NextIsUnread
    <3> HIDE DEF cta
    <3>3. cta.ch \in Listed /\ cta.ch \in Unread
      BY <2>2, <3>1, <3>2
    <3> QED BY <2>3, <2>6, <3>3 DEF cta
  <2> QED BY <2>4, <2>5, <2>6
<1> QED BY <1>1, PageInvariant, PTL

=============================================================================
