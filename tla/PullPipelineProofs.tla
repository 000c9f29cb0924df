------------------------- MODULE PullPipelineProofs -------------------------
(***************************************************************************)
(* Proofs about the pull pipeline, for any chapters and pages, any number  *)
(* of overlapping pulls, requests, failures and restarts.                  *)
(*                                                                         *)
(* The argument for the chapters is about the manga lock: what pull_manga  *)
(* listed as missing gets no pull_chapter from anybody else while it has   *)
(* the lock, and stays missing unless a refresh adds it. The one for the   *)
(* files is about the order of the jobs: PageCount is on disk before there *)
(* is a job that could bring a page, the copies that pull_page writes back *)
(* were read after that, and whoever else writes a copy without it marks   *)
(* the chapter as lost.                                                    *)
(***************************************************************************)
EXTENDS PullPipeline, SequenceTheorems, FiniteSetTheorems, TLAPS

USE DEF outside

\* Where the handler of each kind of job may stand, and what the job names.
StepsOf(kind) ==
    CASE kind = "manga"   -> {"idle", "fetch", "chapters", "saved", "claimed", "bindings", "stamp"}
      [] kind = "chapter" -> {"idle", "fetch", "pages"}
      [] kind = "page"    -> {"idle", "fetch", "downloaded", "stamp"}
      [] kind = "cover"   -> {"idle", "fetch", "release"}

Placed(j) ==
    /\ j.pc \in StepsOf(j.kind)
    /\ j.kind = "manga" => j.todo \subseteq Chapters
    /\ j.kind = "chapter" => j.ch \in Chapters /\ j.todo \subseteq Pages
    /\ j.kind = "page" => j.ch \in Chapters /\ j.pg \in Pages
    /\ j.pc = "saved" => j.ch \in j.todo
    /\ j.st \in {"pending", "running"} => j.tries < MaxRetries

\* A chapter with a job that was not deleted since is known, with its PageCount
\* once there may be pages of it, unless that was overwritten.
Prepared(j) ==
    j.ch \notin deleted =>
       /\ j.kind \in {"chapter", "page"} => HasMeta(j.ch)
       /\ j.kind = "page" /\ j.pc = "stamp" => j.metaCopy.there
       /\ j.ch \notin lost =>
             /\ j.kind = "page" \/ (j.kind = "chapter" /\ j.pc = "pages") => meta[j.ch].paged
             /\ j.kind = "page" /\ j.pc = "stamp" => j.metaCopy.paged

\* What pull_manga has still to save is missing, or was added by a refresh.
Missed(j) ==
    j.kind = "manga" /\ j.pc \in {"chapters", "saved"} =>
       \A c \in j.todo \ deleted :
          /\ HasMeta(c) => c \in added \/ (j.pc = "saved" /\ c = j.ch)
          /\ j.pc = "saved" /\ c = j.ch => HasMeta(c)

\* Nobody but the pull_manga that listed a chapter enqueues its pull_chapter.
Scheduled(c) == \E k \in Ids : jobs[k].kind = "chapter" /\ jobs[k].ch = c /\ jobs[k].parent # 0
Unscheduled(j) ==
    j.kind = "manga" /\ j.pc \in {"chapters", "saved"} =>
       \A c \in j.todo \ deleted : ~Scheduled(c)

PagesHaveCount ==
    \A c \in Chapters \ deleted, p \in Pages :
       <<c, p>> \in files => HasMeta(c) /\ (c \notin lost => meta[c].paged)

Sound(j) == Placed(j) /\ Prepared(j) /\ Missed(j) /\ Unscheduled(j)

Pipeline ==
    /\ TypeOK
    /\ \A i \in Ids : Sound(jobs[i])
    /\ PagesHaveCount
    /\ NoDuplicateChapterPull

\* While nothing failed, every chapter that a pull added has its pull_chapter, or
\* the pull_manga that has the lock is about to make it.
HasJob(c) == \E k \in Ids : jobs[k].kind = "chapter" /\ jobs[k].ch = c
Fresh == Chapters \ (Imported \cup added)
Covered(j) ==
    /\ j.kind = "manga" /\ j.pc \in {"chapters", "saved"} =>
          \A c \in Fresh : HasJob(c) \/ c \in j.todo
    /\ j.kind = "manga" /\ (j.pc \in {"claimed", "bindings", "stamp"} \/ j.st = "done") =>
          \A c \in Fresh : HasJob(c)
    /\ j.kind = "page" => HasJob(j.ch)
Undisturbed ==
    spent.faults = 0 /\ spent.crashes = 0 =>
       /\ \A i \in Ids : Covered(jobs[i])
       /\ \A c \in Fresh : HasMeta(c) =>
             HasJob(c) \/ \E i \in Ids : At(i, "manga", "saved") /\ jobs[i].ch = c

----------------------------------------------------------------------------
(***************************************************************************)
(* The job table                                                           *)
(***************************************************************************)
LEMMA ChangeJob ==
    ASSUME jobs \in Seq(JobTypes), NEW i \in Ids, NEW j \in JobTypes
    PROVE  /\ [jobs EXCEPT ![i] = j] \in Seq(JobTypes)
           /\ DOMAIN [jobs EXCEPT ![i] = j] = Ids
           /\ Len([jobs EXCEPT ![i] = j]) = Len(jobs)
           /\ [jobs EXCEPT ![i] = j][i] = j
           /\ \A k \in Ids \ {i} : [jobs EXCEPT ![i] = j][k] = jobs[k]
BY DEF Ids

LEMMA AddJob ==
    ASSUME NEW s \in Seq(JobTypes), NEW j \in JobTypes
    PROVE  /\ Append(s, j) \in Seq(JobTypes)
           /\ DOMAIN Append(s, j) = DOMAIN s \cup {Len(s) + 1}
           /\ Len(s) + 1 \notin DOMAIN s
           /\ Append(s, j)[Len(s) + 1] = j
           /\ \A k \in DOMAIN s : Append(s, j)[k] = s[k]
BY AppendProperties

LEMMA JobsTyped ==
    ASSUME jobs \in Seq(JobTypes), NEW i \in Ids
    PROVE  jobs[i] \in JobTypes /\ i \in Nat \ {0}
BY DEF Ids

LEMMA NewJobTyped ==
    ASSUME NEW kind \in Kinds, NEW c \in Chapters \cup {None}, NEW p \in Pages \cup {None},
           NEW parent \in Nat
    PROVE  LET j == NewJob(kind, c, p, parent)
           IN  /\ j \in JobTypes
               /\ j.kind = kind /\ j.ch = c /\ j.pg = p /\ j.parent = parent
               /\ j.st = "pending" /\ j.pc = "idle" /\ j.todo = {} /\ j.tries = 0
<1>1. NoMeta \in MetaTypes /\ NoSource \in SourceTypes
  BY DEF NoMeta, NoSource, MetaTypes, SourceTypes
<1>2. 0 \in 0..MaxRetries /\ "idle" \in Steps
  BY PullAssumption DEF Steps
<1> QED BY <1>1, <1>2 DEF NewJob, JobTypes

\* finalizeJob leaves a job that may be tried again with an attempt to spare.
LEMMA EndedTyped ==
    ASSUME NEW j \in JobTypes, Placed(j), NEW r \in {"ok", "transient", "permanent"}
    PROVE  LET e == Ended(j, r)
           IN  /\ e \in JobTypes /\ e.pc = "idle" /\ e.todo = {}
               /\ e.kind = j.kind /\ e.ch = j.ch /\ e.pg = j.pg /\ e.parent = j.parent
               /\ e.st \in {"pending", "running"} => e.tries < MaxRetries
               /\ e.st = "done" => j.st = "done" \/ r = "ok"
               /\ e.st = "pending" => j.st \in {"pending", "running"}
<1> DEFINE n == IF r = "ok" \/ j.st # "running" THEN j.tries ELSE j.tries + 1
           s == After(j, r)
<1>1. /\ j.st \in {"pending", "running", "done", "failed", "cancelled"} /\ j.tries \in 0..MaxRetries
      /\ j.st \in {"pending", "running"} => j.tries < MaxRetries
      /\ MaxRetries \in Nat \ {0}
  BY PullAssumption DEF JobTypes, Placed
<1>2. /\ s \in {"pending", "running", "done", "failed", "cancelled"} /\ n \in 0..MaxRetries
      /\ s \in {"pending", "running"} => n < MaxRetries
      /\ s = "done" => j.st = "done" \/ r = "ok"
      /\ s = "pending" => j.st \in {"pending", "running"}
  BY <1>1 DEF After
<1>3. NoMeta \in MetaTypes /\ NoSource \in SourceTypes /\ "idle" \in Steps
  BY DEF NoMeta, NoSource, MetaTypes, SourceTypes, Steps
<1>4. Ended(j, r) = [j EXCEPT !.pc = "idle", !.todo = {}, !.metaCopy = NoMeta,
                              !.bindCopy = NoSource, !.st = s, !.tries = n]
  BY DEF Ended
<1> HIDE DEF n, s
<1> QED BY <1>2, <1>3, <1>4 DEF JobTypes

\* The types of everything but the job table and the lock.
DiskTypes ==
    /\ meta \in [Chapters -> MetaTypes]
    /\ files \subseteq Chapters \X Pages
    /\ cover \in BOOLEAN /\ claim \in BOOLEAN /\ leaked \in BOOLEAN
    /\ bindings \in SourceTypes
    /\ spent \in [pulls : Nat, ops : Nat, fetches : Nat, faults : Nat, crashes : Nat]
    /\ deleted \subseteq Chapters /\ added \subseteq Chapters /\ lost \subseteq Chapters
    /\ refreshing \subseteq RefreshTypes

\* A step that changes the lock only for job i, which takes it or gives it up, or
\* leaves it as it is.
LEMMA TypeStep ==
    ASSUME TypeOK, DiskTypes', jobs' \in Seq(JobTypes), Ids \subseteq Ids',
           NEW i \in Ids, \A k \in Ids \ {i} : jobs'[k].pc = jobs[k].pc,
           \A k \in Ids' \ Ids : jobs'[k].pc = "idle",
           \/ lock' = lock /\ (jobs'[i].pc \in Inside <=> jobs[i].pc \in Inside)
           \/ lock = 0 /\ lock' = i /\ jobs'[i].pc \in Inside
           \/ lock' = Unlocked(i) /\ jobs'[i].pc \notin Inside
    PROVE  TypeOK'
<1>1. i \in Nat \ {0} /\ lock \in Ids \cup {0} /\ \A k \in Ids : lock = k <=> jobs[k].pc \in Inside
  BY JobsTyped DEF TypeOK
<1>2. lock' \in Ids' \cup {0}
  BY <1>1 DEF Unlocked
<1>3. \A k \in Ids' : lock' = k <=> jobs'[k].pc \in Inside
  <2>1. "idle" \notin Inside
    BY DEF Inside
  <2>2. 0 \notin Ids'
    BY DEF Ids
  <2> QED BY <1>1, <2>1, <2>2 DEF Unlocked
<1> QED BY <1>2, <1>3 DEF TypeOK, DiskTypes

\* A step that leaves the chapters' files alone and moves job i or adds a job
\* keeps the invariant, if what it moves or adds is sound, and if only the
\* holder of the lock adds a pull_chapter.
LEMMA TableStep ==
    ASSUME Pipeline, TypeOK', UNCHANGED <<meta, deleted, added, lost>>, PagesHaveCount',
           NEW i, Ids \subseteq Ids', \A k \in Ids \ {i} : jobs'[k] = jobs[k],
           \A k \in Ids' : k \notin Ids \/ k = i =>
              /\ Placed(jobs'[k]) /\ Prepared(jobs'[k]) /\ Missed(jobs'[k])
              /\ Unscheduled(jobs'[k]),
           i \in Ids => /\ jobs'[i].kind = jobs[i].kind /\ jobs'[i].parent = jobs[i].parent
                        /\ jobs[i].kind = "chapter" => jobs'[i].ch = jobs[i].ch,
           \A k \in Ids' \ Ids : jobs'[k].kind = "chapter" /\ jobs'[k].parent # 0 =>
              /\ i \in Ids /\ lock = i
              /\ jobs'[k].ch \notin deleted =>
                    ~Scheduled(jobs'[k].ch) /\ jobs'[k].ch \notin jobs'[i].todo
              /\ \A m \in Ids' \ Ids : m = k
    PROVE  Pipeline'
<1>1. \A k \in Ids' : Placed(jobs'[k])
  BY DEF Pipeline, Sound
<1>2. \A k \in Ids' : Prepared(jobs[k])' /\ Missed(jobs[k])'
  <2>1. \A k \in Ids' : Prepared(jobs'[k]) /\ Missed(jobs'[k])
    BY DEF Pipeline, Sound
  <2> QED BY <2>1 DEF Prepared, Missed, HasMeta
<1>3. \A k \in Ids' : Unscheduled(jobs[k])'
  <2> SUFFICES ASSUME NEW k \in Ids', jobs'[k].kind = "manga",
                      jobs'[k].pc \in {"chapters", "saved"}, NEW c \in jobs'[k].todo \ deleted,
                      NEW m \in Ids', jobs'[m].kind = "chapter", jobs'[m].ch = c,
                      jobs'[m].parent # 0
               PROVE  FALSE
    BY DEF Unscheduled, Scheduled
  <2>1. m \in Ids => Scheduled(c)
    BY DEF Scheduled
  <2>2. CASE k \notin Ids \/ k = i
    <3>1. m \notin Ids
      BY <2>1, <2>2 DEF Unscheduled
    <3>2. CASE k = i
      BY <3>1, <3>2
    <3>3. CASE k \notin Ids
      BY <3>1, <3>3
    <3> QED BY <2>2, <3>2, <3>3
  <2>3. CASE k \in Ids /\ k # i
    <3>1. jobs'[k] = jobs[k] /\ lock = k /\ Unscheduled(jobs[k])
      BY <2>3 DEF Pipeline, TypeOK, Inside, Sound
    <3>2. m \in Ids
      BY <2>3, <3>1
    <3> QED BY <2>1, <3>1, <3>2 DEF Unscheduled
  <2> QED BY <2>2, <2>3
<1>4. NoDuplicateChapterPull'
  <2> SUFFICES ASSUME NEW k \in Ids', NEW m \in Ids',
                      jobs'[k].kind = "chapter", jobs'[k].parent # 0,
                      jobs'[m].kind = "chapter", jobs'[m].parent # 0,
                      jobs'[k].ch = jobs'[m].ch, jobs'[k].ch \notin deleted
               PROVE  k = m
    BY DEF NoDuplicateChapterPull
  <2>1. \A q \in Ids : /\ jobs'[q].kind = jobs[q].kind /\ jobs'[q].parent = jobs[q].parent
                       /\ jobs[q].kind = "chapter" => jobs'[q].ch = jobs[q].ch
    OBVIOUS
  <2>2. CASE k \in Ids /\ m \in Ids
    BY <2>1, <2>2 DEF Pipeline, NoDuplicateChapterPull
  <2>3. CASE k \in Ids /\ m \notin Ids
    BY <2>1, <2>3 DEF Scheduled
  <2>4. CASE k \notin Ids /\ m \in Ids
    BY <2>1, <2>4 DEF Scheduled
  <2>5. CASE k \notin Ids /\ m \notin Ids
    BY <2>5
  <2> QED BY <2>2, <2>3, <2>4, <2>5
<1> QED BY <1>1, <1>2, <1>3, <1>4 DEF Pipeline, Sound, Placed

\* Job i goes on as j.
LEMMA MoveStep ==
    ASSUME Pipeline, DiskTypes', UNCHANGED <<meta, deleted, added, lost>>, PagesHaveCount',
           NEW i \in Ids, NEW j \in JobTypes, jobs' = [jobs EXCEPT ![i] = j],
           Placed(j), Prepared(j), Missed(j), Unscheduled(j),
           j.kind = jobs[i].kind, j.parent = jobs[i].parent,
           jobs[i].kind = "chapter" => j.ch = jobs[i].ch,
           \/ lock' = lock /\ (j.pc \in Inside <=> jobs[i].pc \in Inside)
           \/ lock = 0 /\ lock' = i /\ j.pc \in Inside
           \/ lock' = Unlocked(i) /\ j.pc \notin Inside
    PROVE  Pipeline'
<1>1. /\ jobs' \in Seq(JobTypes) /\ Ids' = Ids /\ jobs'[i] = j
      /\ \A k \in Ids \ {i} : jobs'[k] = jobs[k]
  BY ChangeJob DEF Pipeline, TypeOK, Ids
<1>2. TypeOK'
  <2>1. /\ Ids \subseteq Ids' /\ \A k \in Ids \ {i} : jobs'[k].pc = jobs[k].pc
        /\ \A k \in Ids' \ Ids : jobs'[k].pc = "idle"
    BY <1>1
  <2>2. TypeOK
    BY DEF Pipeline
  <2> QED BY <1>1, <2>1, <2>2, TypeStep
<1>3. Ids \subseteq Ids'
  BY <1>1
<1> QED BY <1>1, <1>2, <1>3, TableStep

\* Job i goes on as j, and a child is enqueued.
LEMMA SpawnStep ==
    ASSUME Pipeline, DiskTypes', UNCHANGED <<meta, deleted, added, lost>>, PagesHaveCount',
           NEW i \in Ids, NEW j \in JobTypes, NEW child \in JobTypes, WithChild(i, j, child),
           Placed(j), Prepared(j), Missed(j), Unscheduled(j),
           j.kind = jobs[i].kind, j.parent = jobs[i].parent,
           jobs[i].kind = "chapter" => j.ch = jobs[i].ch,
           Placed(child), Prepared(child), child.pc = "idle",
           child.kind = "chapter" =>
              lock = i /\ (child.ch \notin deleted => ~Scheduled(child.ch) /\ child.ch \notin j.todo),
           \/ lock' = lock /\ (j.pc \in Inside <=> jobs[i].pc \in Inside)
           \/ lock' = Unlocked(i) /\ j.pc \notin Inside
    PROVE  Pipeline'
<1> DEFINE s == [jobs EXCEPT ![i] = j]
           n == Len(jobs) + 1
<1>1. /\ s \in Seq(JobTypes) /\ DOMAIN s = Ids /\ s[i] = j /\ Len(s) = Len(jobs)
      /\ \A k \in Ids \ {i} : s[k] = jobs[k]
  BY ChangeJob DEF Pipeline, TypeOK
<1>2. jobs' = Append(s, child)
  BY DEF WithChild
<1> HIDE DEF s
<1>3. /\ jobs' \in Seq(JobTypes) /\ Ids' = Ids \cup {n} /\ n \notin Ids
      /\ jobs'[i] = j /\ jobs'[n] = child /\ \A k \in Ids \ {i} : jobs'[k] = jobs[k]
  <2>1. /\ Append(s, child) \in Seq(JobTypes)
        /\ DOMAIN Append(s, child) = DOMAIN s \cup {Len(s) + 1}
        /\ Len(s) + 1 \notin DOMAIN s
        /\ Append(s, child)[Len(s) + 1] = child
        /\ \A k \in DOMAIN s : Append(s, child)[k] = s[k]
    BY <1>1, AddJob
  <2>2. Ids' = DOMAIN jobs'
    BY DEF Ids
  <2> QED BY <1>1, <1>2, <2>1, <2>2
<1> HIDE DEF n
<1>4. TypeOK'
  <2>1. /\ Ids \subseteq Ids' /\ \A k \in Ids \ {i} : jobs'[k].pc = jobs[k].pc
        /\ \A k \in Ids' \ Ids : jobs'[k].pc = "idle"
    BY <1>3
  <2> QED BY <1>3, <2>1, TypeStep DEF Pipeline
<1>5. Missed(child) /\ Unscheduled(child)
  BY DEF Missed, Unscheduled
<1> QED BY <1>3, <1>4, <1>5, TableStep

\* A request adds a job.
LEMMA RequestStep ==
    ASSUME Pipeline, DiskTypes', UNCHANGED <<meta, files, deleted, added, lost, lock>>,
           NEW child \in JobTypes, jobs' = Append(jobs, child),
           Placed(child), Prepared(child), child.pc = "idle", child.parent = 0
    PROVE  Pipeline'
<1> DEFINE n == Len(jobs) + 1
<1>1. jobs \in Seq(JobTypes)
  BY DEF Pipeline, TypeOK
<1>2. /\ jobs' \in Seq(JobTypes) /\ Ids' = Ids \cup {n} /\ n \notin Ids /\ n # 0
      /\ jobs'[n] = child /\ \A k \in Ids : jobs'[k] = jobs[k]
  BY <1>1, AddJob DEF Ids
<1> HIDE DEF n
<1>3. TypeOK'
  <2>1. "idle" \notin Inside
    BY DEF Inside
  <2>2. /\ lock \in Ids \cup {0} /\ \A k \in Ids : lock = k <=> jobs[k].pc \in Inside
    BY DEF Pipeline, TypeOK
  <2>3. \A k \in Ids' : lock' = k <=> jobs'[k].pc \in Inside
    BY <1>2, <2>1, <2>2
  <2> QED BY <1>2, <2>2, <2>3 DEF TypeOK, DiskTypes
<1>4. PagesHaveCount'
  BY DEF Pipeline, PagesHaveCount, HasMeta
<1>5. Missed(child) /\ Unscheduled(child)
  BY DEF Missed, Unscheduled
<1>6. 0 \notin Ids
  BY <1>1 DEF Ids
<1> QED BY <1>2, <1>3, <1>4, <1>5, <1>6, TableStep

\* The handler of job i returns.
LEMMA EndStep ==
    ASSUME Pipeline, DiskTypes', UNCHANGED <<meta, deleted, added, lost>>, PagesHaveCount',
           NEW i \in Ids, NEW r \in {"ok", "transient", "permanent"}, End(i, r),
           \/ lock' = Unlocked(i)
           \/ lock' = lock /\ jobs[i].pc \notin Inside
    PROVE  Pipeline'
<1> DEFINE j == Ended(jobs[i], r)
<1>1. jobs[i] \in JobTypes /\ Placed(jobs[i]) /\ Prepared(jobs[i])
  BY JobsTyped DEF Pipeline, TypeOK, Sound
<1>2. /\ j \in JobTypes /\ j.pc = "idle" /\ j.todo = {}
      /\ j.kind = jobs[i].kind /\ j.ch = jobs[i].ch /\ j.pg = jobs[i].pg
      /\ j.parent = jobs[i].parent
      /\ j.st \in {"pending", "running"} => j.tries < MaxRetries
  BY <1>1, EndedTyped
<1>3. jobs' = [jobs EXCEPT ![i] = j]
  BY DEF End
<1> HIDE DEF j
<1>4. Placed(j)
  BY <1>1, <1>2 DEF Placed, StepsOf, JobTypes, Kinds
<1>5. Prepared(j) /\ Missed(j) /\ Unscheduled(j) /\ j.pc \notin Inside
  BY <1>1, <1>2 DEF Prepared, Missed, Unscheduled, Inside
<1> QED BY <1>2, <1>3, <1>4, <1>5, MoveStep

----------------------------------------------------------------------------
(***************************************************************************)
(* Steps of the handlers                                                   *)
(***************************************************************************)
LEMMA ClaimPipeline ==
    ASSUME Pipeline, NEW i \in Ids, Claim(i)
    PROVE  Pipeline'
<1> DEFINE j == [jobs[i] EXCEPT !.st = "running", !.pc = "fetch"]
<1>1. /\ jobs[i] \in JobTypes /\ Placed(jobs[i]) /\ Prepared(jobs[i])
      /\ jobs \in Seq(JobTypes) /\ jobs[i].st = "pending" /\ jobs[i].pc = "idle"
  BY JobsTyped DEF Pipeline, TypeOK, Sound, Claim
<1>2. /\ j \in JobTypes /\ j.pc = "fetch" /\ j.st = "running" /\ j.todo = jobs[i].todo
      /\ j.kind = jobs[i].kind /\ j.ch = jobs[i].ch /\ j.pg = jobs[i].pg
      /\ j.parent = jobs[i].parent /\ j.tries = jobs[i].tries
  BY <1>1 DEF JobTypes, Steps
<1>3. jobs' = [jobs EXCEPT ![i] = j]
  BY <1>1 DEF Claim
<1> HIDE DEF j
<1>4. Placed(j)
  BY <1>1, <1>2 DEF Placed, StepsOf, JobTypes, Kinds
<1>5. Prepared(j) /\ Missed(j) /\ Unscheduled(j) /\ j.pc \notin Inside /\ jobs[i].pc \notin Inside
  BY <1>1, <1>2 DEF Prepared, Missed, Unscheduled, Inside
<1>6. UNCHANGED <<meta, deleted, refreshing, added, lost, lock>> /\ DiskTypes' /\ PagesHaveCount'
  BY DEF Claim, disk, Pipeline, TypeOK, DiskTypes, PagesHaveCount, HasMeta
<1> QED BY <1>2, <1>3, <1>4, <1>5, <1>6, MoveStep

LEMMA MangaMoves ==
    ASSUME Pipeline, NEW i \in Ids, ListChapters(i) \/ ClaimCover(i) \/ GetBindings(i)
                                    \/ SaveBindings(i)
    PROVE  Pipeline'
<1>1. /\ jobs[i] \in JobTypes /\ Placed(jobs[i]) /\ Prepared(jobs[i])
      /\ jobs[i].kind = "manga" /\ jobs \in Seq(JobTypes)
  BY JobsTyped DEF Pipeline, TypeOK, Sound, ListChapters, ClaimCover, GetBindings, SaveBindings, At
<1>2. UNCHANGED <<meta, files, deleted, refreshing, added, lost, cover, spent, leaked>> /\ PagesHaveCount'
  BY DEF ListChapters, ClaimCover, GetBindings, SaveBindings, disk, Pipeline, PagesHaveCount,
         HasMeta
<1>3. CASE ListChapters(i)
  <2> DEFINE j == [jobs[i] EXCEPT !.pc = "chapters", !.todo = Missing]
  <2>1. /\ j \in JobTypes /\ j.pc = "chapters" /\ j.todo = Missing /\ j.kind = "manga"
        /\ j.parent = jobs[i].parent /\ j.st = jobs[i].st /\ j.tries = jobs[i].tries
    BY <1>1 DEF JobTypes, Steps, Missing
  <2>2. jobs' = [jobs EXCEPT ![i] = j] /\ lock = 0 /\ lock' = i
    BY <1>1, <1>3 DEF ListChapters
  <2> HIDE DEF j
  <2>3. Placed(j) /\ j.pc \in Inside
    BY <1>1, <2>1 DEF Placed, StepsOf, Missing, Inside
  <2>4. Prepared(j) /\ Missed(j)
    BY <2>1 DEF Prepared, Missed, Missing
  <2>6. Unscheduled(j)
    <3>1. \A c \in Missing \ deleted : ~Scheduled(c)
      BY DEF Missing, Scheduled, Pipeline, Sound, Prepared
    <3> QED BY <2>1, <3>1 DEF Unscheduled
  <2>5. DiskTypes'
    BY <1>2, <1>3 DEF ListChapters, disk, Pipeline, TypeOK, DiskTypes
  <2> QED BY <1>1, <1>2, <2>1, <2>2, <2>3, <2>4, <2>5, <2>6, MoveStep
<1>4. CASE ClaimCover(i)
  <2>1. PICK q \in {"claimed", "bindings"} : jobs' = [jobs EXCEPT ![i].pc = q]
    BY <1>4 DEF ClaimCover, Goto
  <2> DEFINE j == [jobs[i] EXCEPT !.pc = q]
  <2>2. /\ j \in JobTypes /\ j.pc = q /\ j.todo = jobs[i].todo /\ j.kind = "manga"
        /\ j.parent = jobs[i].parent /\ j.st = jobs[i].st /\ j.tries = jobs[i].tries
    BY <1>1 DEF JobTypes, Steps
  <2>3. jobs' = [jobs EXCEPT ![i] = j]
    BY <1>1, <2>1
  <2> HIDE DEF j
  <2>4. Placed(j) /\ j.pc \in Inside /\ jobs[i].pc \in Inside
    BY <1>1, <1>4, <2>2 DEF Placed, StepsOf, Inside, ClaimCover, At
  <2>5. Prepared(j) /\ Missed(j) /\ Unscheduled(j)
    BY <2>2 DEF Prepared, Missed, Unscheduled
  <2>6. DiskTypes' /\ lock' = lock
    BY <1>2, <1>4, PullAssumption DEF ClaimCover, Pipeline, TypeOK, DiskTypes
  <2> QED BY <1>1, <1>2, <2>2, <2>3, <2>4, <2>5, <2>6, MoveStep
<1>5. CASE GetBindings(i)
  <2>1. DiskTypes'
    BY <1>2, <1>5 DEF GetBindings, disk, Pipeline, TypeOK, DiskTypes
  <2>2. CASE End(i, "ok") /\ lock' = Unlocked(i)
    BY <1>2, <2>1, <2>2, EndStep
  <2>3. CASE jobs' = [jobs EXCEPT ![i].pc = "stamp", ![i].bindCopy = bindings] /\ UNCHANGED lock
    <3> DEFINE j == [jobs[i] EXCEPT !.pc = "stamp", !.bindCopy = bindings]
    <3>1. /\ j \in JobTypes /\ j.pc = "stamp" /\ j.todo = jobs[i].todo /\ j.kind = "manga"
          /\ j.parent = jobs[i].parent /\ j.st = jobs[i].st /\ j.tries = jobs[i].tries
      BY <1>1 DEF JobTypes, Steps, Pipeline, TypeOK
    <3>2. jobs' = [jobs EXCEPT ![i] = j]
      BY <1>1, <2>3
    <3> HIDE DEF j
    <3>3. Placed(j) /\ j.pc \in Inside /\ jobs[i].pc \in Inside
      BY <1>1, <1>5, <3>1 DEF Placed, StepsOf, Inside, GetBindings, At
    <3>4. Prepared(j) /\ Missed(j) /\ Unscheduled(j)
      BY <3>1 DEF Prepared, Missed, Unscheduled
    <3> QED BY <1>1, <1>2, <2>1, <2>3, <3>1, <3>2, <3>3, <3>4, MoveStep
  <2> QED BY <1>5, <2>2, <2>3 DEF GetBindings
<1>6. CASE SaveBindings(i)
  <2>1. [jobs[i].bindCopy EXCEPT !.synced = TRUE] \in SourceTypes
    BY <1>1 DEF JobTypes, SourceTypes
  <2>2. DiskTypes'
    BY <1>2, <1>6, <2>1 DEF SaveBindings, Pipeline, TypeOK, DiskTypes
  <2> QED BY <1>2, <1>6, <2>2, EndStep DEF SaveBindings
<1> QED BY <1>3, <1>4, <1>5, <1>6

\* A child that a handler enqueues is sound: its chapter is known, and there is
\* no pull_chapter for it yet.
LEMMA ChildSound ==
    ASSUME Pipeline, NEW i \in Ids, NEW child \in ChildOf(i)
    PROVE  /\ child \in JobTypes /\ Placed(child) /\ Prepared(child) /\ child.pc = "idle"
           /\ child.kind = "chapter" =>
                 lock = i /\ (child.ch \notin deleted => ~Scheduled(child.ch))
           /\ child.parent = i
<1>1. /\ jobs[i] \in JobTypes /\ i \in Nat \ {0} /\ Placed(jobs[i]) /\ Prepared(jobs[i])
      /\ Missed(jobs[i]) /\ Unscheduled(jobs[i])
      /\ lock = i <=> jobs[i].pc \in Inside
  BY JobsTyped DEF Pipeline, TypeOK, Sound
<1>2. MaxRetries \in Nat \ {0}
  BY PullAssumption
<1>3. CASE jobs[i].pc = "saved"
  <2>1. child = NewJob("chapter", jobs[i].ch, None, i)
    BY <1>3 DEF ChildOf
  <2>2. jobs[i].kind = "manga" /\ jobs[i].ch \in Chapters /\ jobs[i].ch \in jobs[i].todo
    BY <1>1, <1>3 DEF Placed, StepsOf, JobTypes, Kinds
  <2>3. /\ child \in JobTypes /\ child.kind = "chapter" /\ child.ch = jobs[i].ch
        /\ child.parent = i /\ child.pc = "idle" /\ child.todo = {} /\ child.tries = 0
    <3>1. /\ "chapter" \in Kinds /\ jobs[i].ch \in Chapters \cup {None}
          /\ None \in Pages \cup {None} /\ i \in Nat
      BY <1>1, <2>2 DEF Kinds
    <3> QED BY <2>1, <3>1, NewJobTyped
  <2>4. Placed(child)
    BY <1>2, <2>2, <2>3 DEF Placed, StepsOf
  <2>5. child.ch \notin deleted => HasMeta(child.ch) /\ ~Scheduled(child.ch)
    BY <1>1, <1>3, <2>2, <2>3 DEF Missed, Unscheduled
  <2>6. lock = i
    BY <1>1, <1>3 DEF Inside
  <2> QED BY <2>3, <2>4, <2>5, <2>6 DEF Prepared
<1>4. CASE jobs[i].pc = "claimed"
  <2>1. child = NewJob("cover", None, None, i)
    BY <1>4 DEF ChildOf
  <2>2. /\ child \in JobTypes /\ child.kind = "cover" /\ child.pc = "idle" /\ child.tries = 0
        /\ child.parent = i
    BY <1>1, <2>1, NewJobTyped DEF Kinds
  <2>3. Placed(child)
    BY <1>2, <2>2 DEF Placed, StepsOf
  <2> QED BY <2>2, <2>3 DEF Prepared
<1>5. CASE jobs[i].pc = "pages"
  <2>1. PICK p \in jobs[i].todo : child = NewJob("page", jobs[i].ch, p, i)
    BY <1>5 DEF ChildOf
  <2>2. jobs[i].kind = "chapter" /\ jobs[i].ch \in Chapters /\ p \in Pages
    BY <1>1, <1>5 DEF Placed, StepsOf, JobTypes, Kinds
  <2>3. /\ child \in JobTypes /\ child.kind = "page" /\ child.ch = jobs[i].ch /\ child.pg = p
        /\ child.pc = "idle" /\ child.tries = 0 /\ child.parent = i
    BY <1>1, <2>1, <2>2, NewJobTyped DEF Kinds
  <2>4. Placed(child)
    BY <1>2, <2>2, <2>3 DEF Placed, StepsOf
  <2>5. Prepared(child)
    BY <1>1, <1>5, <2>2, <2>3 DEF Prepared
  <2> QED BY <2>3, <2>4, <2>5
<1> QED BY <1>3, <1>4, <1>5 DEF ChildOf

LEMMA Spawns ==
    ASSUME Pipeline, NEW i \in Ids,
           EnqueuePullChapter(i) \/ EnqueuePullCover(i) \/ EnqueuePullPage(i)
    PROVE  Pipeline'
<1>1. /\ jobs[i] \in JobTypes /\ Placed(jobs[i]) /\ Prepared(jobs[i]) /\ Missed(jobs[i])
      /\ jobs \in Seq(JobTypes) /\ Unscheduled(jobs[i])
  BY JobsTyped DEF Pipeline, TypeOK, Sound
<1>2. UNCHANGED <<meta, deleted, refreshing, added, lost, lock>> /\ DiskTypes' /\ PagesHaveCount'
  BY DEF EnqueuePullChapter, EnqueuePullCover, EnqueuePullPage, disk, Pipeline, TypeOK, DiskTypes,
         PagesHaveCount, HasMeta
<1>3. CASE EnqueuePullChapter(i)
  <2> DEFINE j == [jobs[i] EXCEPT !.pc = "chapters", !.todo = @ \ {jobs[i].ch}, !.ch = None]
             child == NewJob("chapter", jobs[i].ch, None, i)
  <2>1. /\ j \in JobTypes /\ j.pc = "chapters" /\ j.todo = jobs[i].todo \ {jobs[i].ch}
        /\ j.kind = jobs[i].kind /\ j.parent = jobs[i].parent /\ j.st = jobs[i].st
        /\ j.tries = jobs[i].tries /\ j.ch = None
    BY <1>1 DEF JobTypes, Steps
  <2>2. jobs[i].kind = "manga" /\ jobs[i].pc = "saved" /\ WithChild(i, j, child)
    BY <1>3 DEF EnqueuePullChapter, At
  <2>3. child \in ChildOf(i)
    BY <2>2 DEF ChildOf
  <2> HIDE DEF j, child
  <2>4. Placed(j) /\ j.pc \in Inside /\ jobs[i].pc \in Inside
    BY <1>1, <2>1, <2>2 DEF Placed, StepsOf, Inside
  <2>5. Prepared(j) /\ Missed(j) /\ Unscheduled(j)
    BY <1>1, <2>1, <2>2 DEF Prepared, Missed, Unscheduled
  <2>6. child.ch \notin j.todo
    BY <2>1 DEF child, NewJob
  <2> QED BY <1>2, <2>1, <2>2, <2>3, <2>4, <2>5, <2>6, ChildSound, SpawnStep
<1>4. CASE EnqueuePullCover(i)
  <2> DEFINE j == [jobs[i] EXCEPT !.pc = "bindings"]
             child == NewJob("cover", None, None, i)
  <2>1. /\ j \in JobTypes /\ j.pc = "bindings" /\ j.todo = jobs[i].todo
        /\ j.kind = jobs[i].kind /\ j.parent = jobs[i].parent /\ j.st = jobs[i].st
        /\ j.tries = jobs[i].tries /\ j.ch = jobs[i].ch
    BY <1>1 DEF JobTypes, Steps
  <2>2. jobs[i].kind = "manga" /\ jobs[i].pc = "claimed" /\ WithChild(i, j, child)
    BY <1>4 DEF EnqueuePullCover, At
  <2>3. child \in ChildOf(i)
    BY <2>2 DEF ChildOf
  <2> HIDE DEF j, child
  <2>4. Placed(j) /\ j.pc \in Inside /\ jobs[i].pc \in Inside
    BY <1>1, <2>1, <2>2 DEF Placed, StepsOf, Inside
  <2>5. Prepared(j) /\ Missed(j) /\ Unscheduled(j)
    BY <1>1, <2>1, <2>2 DEF Prepared, Missed, Unscheduled
  <2>6. child.kind # "chapter"
    BY DEF child, NewJob
  <2> QED BY <1>2, <2>1, <2>2, <2>3, <2>4, <2>5, <2>6, ChildSound, SpawnStep
<1>5. CASE EnqueuePullPage(i)
  <2>1. PICK p \in jobs[i].todo : WithChild(i, [jobs[i] EXCEPT !.todo = @ \ {p}],
                                            NewJob("page", jobs[i].ch, p, i))
    BY <1>5 DEF EnqueuePullPage
  <2> DEFINE j == [jobs[i] EXCEPT !.todo = @ \ {p}]
             child == NewJob("page", jobs[i].ch, p, i)
  <2>2. /\ j \in JobTypes /\ j.pc = jobs[i].pc /\ j.todo = jobs[i].todo \ {p}
        /\ j.kind = jobs[i].kind /\ j.parent = jobs[i].parent /\ j.st = jobs[i].st
        /\ j.tries = jobs[i].tries /\ j.ch = jobs[i].ch
    BY <1>1 DEF JobTypes, Steps
  <2>3. jobs[i].kind = "chapter" /\ jobs[i].pc = "pages" /\ WithChild(i, j, child)
    BY <1>5, <2>1 DEF EnqueuePullPage, At
  <2>4. child \in ChildOf(i)
    BY <2>3 DEF ChildOf
  <2> HIDE DEF j, child
  <2>5. Placed(j)
    BY <1>1, <2>2, <2>3 DEF Placed, StepsOf
  <2>6. Prepared(j) /\ Missed(j) /\ Unscheduled(j)
    BY <1>1, <2>2, <2>3 DEF Prepared, Missed, Unscheduled
  <2>7. child.kind # "chapter" /\ (j.pc \in Inside <=> jobs[i].pc \in Inside)
    BY <2>2, <2>3 DEF child, NewJob
  <2> QED BY <1>2, <2>2, <2>3, <2>4, <2>5, <2>6, <2>7, ChildSound, SpawnStep
<1> QED BY <1>3, <1>4, <1>5

LEMMA PageAndCoverMoves ==
    ASSUME Pipeline, NEW i \in Ids,
           \/ PullChapterDone(i) \/ DownloadPage(i) \/ GetChapter(i)
           \/ DownloadCover(i) \/ ReleaseCoverClaim(i)
    PROVE  Pipeline'
<1>1. /\ jobs[i] \in JobTypes /\ Placed(jobs[i]) /\ Prepared(jobs[i])
      /\ jobs \in Seq(JobTypes)
  BY JobsTyped DEF Pipeline, TypeOK, Sound
<1>2. UNCHANGED <<meta, deleted, refreshing, added, lost>>
  BY DEF PullChapterDone, DownloadPage, GetChapter, DownloadCover, ReleaseCoverClaim, disk
<1>3. files' = files => PagesHaveCount'
  BY <1>2 DEF Pipeline, PagesHaveCount, HasMeta
<1>4. CASE PullChapterDone(i)
  <2>1. DiskTypes' /\ files' = files /\ lock' = lock /\ jobs[i].pc \notin Inside
    BY <1>4 DEF PullChapterDone, At, disk, Inside, Pipeline, TypeOK, DiskTypes
  <2> QED BY <1>2, <1>3, <1>4, <2>1, EndStep DEF PullChapterDone
<1>5. CASE ReleaseCoverClaim(i)
  <2>1. DiskTypes' /\ files' = files /\ lock' = lock /\ jobs[i].pc \notin Inside
    BY <1>5 DEF ReleaseCoverClaim, At, Inside, Pipeline, TypeOK, DiskTypes
  <2> QED BY <1>2, <1>3, <1>5, <2>1, EndStep DEF ReleaseCoverClaim
<1>6. ASSUME NEW q \in Steps \ Inside, q \in StepsOf(jobs[i].kind), Goto(i, q), lock' = lock,
             jobs[i].pc \notin Inside, q # "pages", DiskTypes', PagesHaveCount'
      PROVE  Pipeline'
  <2> DEFINE j == [jobs[i] EXCEPT !.pc = q]
  <2>1. /\ j \in JobTypes /\ j.pc = q /\ j.todo = jobs[i].todo
        /\ j.kind = jobs[i].kind /\ j.parent = jobs[i].parent /\ j.st = jobs[i].st
        /\ j.tries = jobs[i].tries /\ j.ch = jobs[i].ch /\ j.pg = jobs[i].pg
    BY <1>1 DEF JobTypes
  <2>2. jobs' = [jobs EXCEPT ![i] = j]
    BY <1>1, <1>6 DEF Goto
  <2> HIDE DEF j
  <2>3. Placed(j)
    BY <1>1, <1>6, <2>1 DEF Placed, Inside
  <2>4. Prepared(j) /\ Missed(j) /\ Unscheduled(j)
    BY <1>1, <1>6, <2>1 DEF Prepared, Missed, Unscheduled, Inside
  <2> QED BY <1>2, <1>6, <2>1, <2>2, <2>3, <2>4, MoveStep
<1>7. CASE DownloadCover(i)
  <2>1. DiskTypes' /\ files' = files
    BY <1>7 DEF DownloadCover, Pipeline, TypeOK, DiskTypes
  <2>2. /\ "release" \in Steps \ Inside /\ "release" \in StepsOf(jobs[i].kind)
        /\ jobs[i].pc \notin Inside /\ Goto(i, "release") /\ lock' = lock
    BY <1>7 DEF DownloadCover, At, Steps, Inside, StepsOf
  <2> QED BY <1>3, <1>6, <2>1, <2>2
<1>8. CASE DownloadPage(i)
  <2>1. /\ jobs[i].kind = "page" /\ jobs[i].ch \in Chapters /\ jobs[i].pg \in Pages
        /\ files' = files \cup {<<jobs[i].ch, jobs[i].pg>>}
    BY <1>1, <1>8 DEF DownloadPage, At, Placed
  <2>2. DiskTypes'
    BY <1>8, <2>1 DEF DownloadPage, Pipeline, TypeOK, DiskTypes
  <2>3. PagesHaveCount'
    BY <1>1, <1>2, <2>1 DEF Pipeline, PagesHaveCount, HasMeta, Prepared
  <2>4. /\ "downloaded" \in Steps \ Inside /\ "downloaded" \in StepsOf(jobs[i].kind)
        /\ jobs[i].pc \notin Inside /\ Goto(i, "downloaded") /\ lock' = lock
    BY <1>8 DEF DownloadPage, At, Steps, Inside, StepsOf
  <2> QED BY <1>6, <2>2, <2>3, <2>4
<1>9. CASE GetChapter(i)
  <2>1. /\ DiskTypes' /\ files' = files /\ jobs[i].pc \notin Inside
        /\ jobs[i].kind = "page" /\ jobs[i].ch \in Chapters
    BY <1>1, <1>9 DEF GetChapter, At, disk, Inside, Placed, Pipeline, TypeOK, DiskTypes
  <2>2. CASE End(i, "transient") /\ UNCHANGED lock
    BY <1>2, <1>3, <2>1, <2>2, EndStep
  <2>3. CASE /\ HasMeta(jobs[i].ch) /\ lock = 0 /\ lock' = i
             /\ jobs' = [jobs EXCEPT ![i].pc = "stamp", ![i].metaCopy = meta[jobs[i].ch]]
    <3> DEFINE j == [jobs[i] EXCEPT !.pc = "stamp", !.metaCopy = meta[jobs[i].ch]]
    <3>1. meta[jobs[i].ch] \in MetaTypes
      BY <2>1 DEF Pipeline, TypeOK
    <3>2. /\ j \in JobTypes /\ j.pc = "stamp" /\ j.todo = jobs[i].todo
          /\ j.kind = "page" /\ j.parent = jobs[i].parent /\ j.st = jobs[i].st
          /\ j.tries = jobs[i].tries /\ j.ch = jobs[i].ch /\ j.pg = jobs[i].pg
          /\ j.metaCopy = meta[jobs[i].ch]
      BY <1>1, <2>1, <3>1 DEF JobTypes, Steps
    <3>3. jobs' = [jobs EXCEPT ![i] = j]
      BY <1>1, <2>3
    <3> HIDE DEF j
    <3>4. Placed(j) /\ j.pc \in Inside
      BY <1>1, <2>1, <3>2 DEF Placed, Inside, StepsOf
    <3>5. Prepared(j) /\ Missed(j) /\ Unscheduled(j)
      BY <1>1, <2>1, <2>3, <3>2 DEF Prepared, Missed, Unscheduled, HasMeta
    <3> QED BY <1>2, <1>3, <2>1, <2>3, <3>2, <3>3, <3>4, <3>5, MoveStep
  <2> QED BY <1>9, <2>2, <2>3 DEF GetChapter
<1> QED BY <1>4, <1>5, <1>7, <1>8, <1>9

----------------------------------------------------------------------------
(***************************************************************************)
(* Steps that change what is known of a chapter                            *)
(***************************************************************************)
\* Chapters stay known and keep their PageCount, unless they are deleted or
\* marked as lost, and only a refresh makes one known.
MetaKept ==
    /\ deleted \subseteq deleted' /\ added \subseteq added' /\ lost \subseteq lost'
    /\ \A c \in Chapters \ deleted' :
          /\ meta[c].there => meta'[c].there
          /\ meta'[c].there => meta[c].there \/ c \in added'
          /\ meta[c].paged => meta'[c].paged \/ c \in lost'

\* Such a step, in which job i may go on, keeps the invariant.
LEMMA MetaStep ==
    ASSUME Pipeline, TypeOK', MetaKept, files' \subseteq files, Ids' = Ids,
           NEW i, \A k \in Ids \ {i} : jobs'[k] = jobs[k],
           i \in Ids => /\ Placed(jobs'[i]) /\ Prepared(jobs[i])'
                        /\ jobs'[i].pc \notin {"chapters", "saved"}
                        /\ jobs'[i].kind = jobs[i].kind /\ jobs'[i].parent = jobs[i].parent
                        /\ jobs'[i].ch = jobs[i].ch
    PROVE  Pipeline'
<1>1. \A k \in Ids : jobs[k] \in JobTypes /\ Placed(jobs[k]) /\ Prepared(jobs[k])
                     /\ Missed(jobs[k]) /\ Unscheduled(jobs[k])
  BY JobsTyped DEF Pipeline, TypeOK, Sound
<1>2. \A k \in Ids : Placed(jobs'[k])
  BY <1>1
<1>3. \A k \in Ids : Prepared(jobs[k])'
  <2> SUFFICES ASSUME NEW k \in Ids, k # i
               PROVE  Prepared(jobs[k])'
    OBVIOUS
  <2>1. jobs'[k] = jobs[k] /\ jobs[k].kind \in {"chapter", "page"} => jobs[k].ch \in Chapters
    BY <1>1 DEF Placed
  <2> QED BY <1>1, <2>1 DEF Prepared, MetaKept, HasMeta
<1>4. \A k \in Ids : Missed(jobs[k])'
  <2> SUFFICES ASSUME NEW k \in Ids, jobs'[k].kind = "manga",
                      jobs'[k].pc \in {"chapters", "saved"},
                      NEW c \in jobs'[k].todo \ deleted'
               PROVE  /\ meta'[c].there => c \in added' \/ (jobs'[k].pc = "saved" /\ c = jobs'[k].ch)
                      /\ jobs'[k].pc = "saved" /\ c = jobs'[k].ch => meta'[c].there
    BY DEF Missed, HasMeta
  <2>1. jobs'[k] = jobs[k] /\ c \in Chapters /\ c \in jobs[k].todo \ deleted
    BY <1>1 DEF Placed, MetaKept
  <2> QED BY <1>1, <2>1 DEF Missed, HasMeta, MetaKept
<1>5. \A k \in Ids : /\ jobs'[k].kind = jobs[k].kind /\ jobs'[k].parent = jobs[k].parent
                     /\ jobs'[k].ch = jobs[k].ch
  OBVIOUS
<1>6. \A k \in Ids : Unscheduled(jobs[k])'
  <2> SUFFICES ASSUME NEW k \in Ids, jobs'[k].kind = "manga",
                      jobs'[k].pc \in {"chapters", "saved"}, NEW c \in jobs'[k].todo \ deleted',
                      NEW m \in Ids, jobs'[m].kind = "chapter", jobs'[m].ch = c,
                      jobs'[m].parent # 0
               PROVE  FALSE
    BY DEF Unscheduled, Scheduled
  <2>1. jobs'[k] = jobs[k] /\ c \notin deleted
    BY DEF MetaKept
  <2>2. Scheduled(c)
    BY <1>5, <2>1 DEF Scheduled
  <2> QED BY <1>1, <2>1, <2>2 DEF Unscheduled
<1>7. NoDuplicateChapterPull'
  <2> SUFFICES ASSUME NEW k \in Ids, NEW m \in Ids,
                      jobs'[k].kind = "chapter", jobs'[k].parent # 0,
                      jobs'[m].kind = "chapter", jobs'[m].parent # 0,
                      jobs'[k].ch = jobs'[m].ch, jobs'[k].ch \notin deleted'
               PROVE  k = m
    BY DEF NoDuplicateChapterPull
  <2> QED BY <1>5 DEF Pipeline, NoDuplicateChapterPull, MetaKept
<1>8. PagesHaveCount'
  BY DEF Pipeline, PagesHaveCount, HasMeta, MetaKept
<1> QED BY <1>2, <1>3, <1>4, <1>6, <1>7, <1>8 DEF Pipeline, Sound, Placed

LEMMA SaveChapterPagesPipeline ==
    ASSUME Pipeline, NEW i \in Ids, SaveChapterPages(i)
    PROVE  Pipeline'
<1> DEFINE j == [jobs[i] EXCEPT !.pc = "pages", !.todo = Pages]
<1>1. /\ jobs[i] \in JobTypes /\ Placed(jobs[i]) /\ Prepared(jobs[i])
      /\ jobs \in Seq(JobTypes) /\ TypeOK /\ meta \in [Chapters -> MetaTypes]
  BY JobsTyped DEF Pipeline, TypeOK, Sound
<1>2. /\ jobs[i].kind = "chapter" /\ jobs[i].pc = "fetch" /\ jobs[i].ch \in Chapters
      /\ UNCHANGED <<files, cover, claim, bindings, lock, spent, leaked, deleted, refreshing, added, lost>>
  BY <1>1 DEF SaveChapterPages, At, Placed
<1>3. /\ j \in JobTypes /\ j.pc = "pages" /\ j.todo = Pages
      /\ j.kind = jobs[i].kind /\ j.parent = jobs[i].parent /\ j.st = jobs[i].st
      /\ j.tries = jobs[i].tries /\ j.ch = jobs[i].ch
  BY <1>1 DEF JobTypes, Steps
<1>4. jobs' = [jobs EXCEPT ![i] = j]
  BY <1>1 DEF SaveChapterPages
<1> HIDE DEF j
<1>5. /\ jobs' \in Seq(JobTypes) /\ Ids' = Ids /\ jobs'[i] = j
      /\ \A k \in Ids \ {i} : jobs'[k] = jobs[k]
  BY <1>1, <1>3, <1>4, ChangeJob DEF Ids
<1>6. /\ meta' \in [Chapters -> MetaTypes]
      /\ \A c \in Chapters : meta'[c].there = meta[c].there /\ (meta[c].paged => meta'[c].paged)
      /\ HasMeta(jobs[i].ch) => meta'[jobs[i].ch].paged
  <2> DEFINE m == [meta[jobs[i].ch] EXCEPT !.paged = TRUE]
  <2>1. m \in MetaTypes /\ m.there = meta[jobs[i].ch].there /\ m.paged
    BY <1>1, <1>2 DEF MetaTypes
  <2>2. meta' = IF HasMeta(jobs[i].ch) THEN [meta EXCEPT ![jobs[i].ch] = m] ELSE meta
    BY <1>1, <1>2 DEF SaveChapterPages
  <2> HIDE DEF m
  <2> QED BY <1>1, <1>2, <2>1, <2>2
<1>7. MetaKept
  BY <1>2, <1>6 DEF MetaKept
<1>8. TypeOK'
  <2>1. DiskTypes'
    BY <1>2, <1>6 DEF Pipeline, TypeOK, DiskTypes
  <2>2. /\ Ids \subseteq Ids' /\ \A k \in Ids \ {i} : jobs'[k].pc = jobs[k].pc
        /\ \A k \in Ids' \ Ids : jobs'[k].pc = "idle"
    BY <1>5
  <2>3. lock' = lock /\ (jobs'[i].pc \in Inside <=> jobs[i].pc \in Inside)
    BY <1>2, <1>3, <1>5 DEF Inside
  <2> QED BY <1>1, <1>5, <2>1, <2>2, <2>3, TypeStep
<1>9. Placed(j)
  BY <1>1, <1>2, <1>3 DEF Placed, StepsOf
<1>10. Prepared(jobs[i])'
  BY <1>1, <1>2, <1>3, <1>5, <1>6 DEF Prepared, HasMeta
<1>11. files' \subseteq files /\ jobs'[i].pc \notin {"chapters", "saved"}
  BY <1>2, <1>3, <1>5
<1> QED BY <1>3, <1>5, <1>7, <1>8, <1>9, <1>10, <1>11, MetaStep

LEMMA StampChapterPipeline ==
    ASSUME Pipeline, NEW i \in Ids, StampChapter(i)
    PROVE  Pipeline'
<1> DEFINE j == Ended(jobs[i], "ok")
           m == [jobs[i].metaCopy EXCEPT !.stamped = TRUE]
<1>1. /\ jobs[i] \in JobTypes /\ Placed(jobs[i]) /\ Prepared(jobs[i])
      /\ jobs \in Seq(JobTypes) /\ TypeOK /\ meta \in [Chapters -> MetaTypes]
  BY JobsTyped DEF Pipeline, TypeOK, Sound
<1>2. /\ jobs[i].kind = "page" /\ jobs[i].pc = "stamp" /\ jobs[i].ch \in Chapters
      /\ UNCHANGED <<files, cover, claim, bindings, spent, leaked, deleted, refreshing, added, lost>>
      /\ lock' = Unlocked(i)
  BY <1>1 DEF StampChapter, At, Placed
<1>3. /\ j \in JobTypes /\ j.pc = "idle" /\ j.todo = {}
      /\ j.kind = jobs[i].kind /\ j.parent = jobs[i].parent /\ j.ch = jobs[i].ch
      /\ j.pg = jobs[i].pg
      /\ j.st \in {"pending", "running"} => j.tries < MaxRetries
  BY <1>1, EndedTyped
<1>4. /\ m \in MetaTypes /\ m.there = jobs[i].metaCopy.there /\ m.paged = jobs[i].metaCopy.paged
  BY <1>1 DEF JobTypes, MetaTypes
<1>5. jobs' = [jobs EXCEPT ![i] = j] /\ meta' = [meta EXCEPT ![jobs[i].ch] = m]
  BY DEF StampChapter, End
<1> HIDE DEF j, m
<1>6. /\ jobs' \in Seq(JobTypes) /\ Ids' = Ids /\ jobs'[i] = j
      /\ \A k \in Ids \ {i} : jobs'[k] = jobs[k]
  BY <1>1, <1>3, <1>5, ChangeJob DEF Ids
<1>7. jobs[i].ch \notin deleted =>
         meta[jobs[i].ch].there /\ m.there /\ (jobs[i].ch \notin lost => m.paged)
  BY <1>1, <1>2, <1>4 DEF Prepared, HasMeta
<1>8. MetaKept /\ meta' \in [Chapters -> MetaTypes]
  <2>1. \A c \in Chapters : meta'[c] = IF c = jobs[i].ch THEN m ELSE meta[c]
    BY <1>1, <1>5
  <2>2. meta' \in [Chapters -> MetaTypes]
    BY <1>1, <1>2, <1>4, <1>5
  <2>3. m.there \in BOOLEAN /\ \A c \in Chapters : meta[c].there \in BOOLEAN
    BY <1>1, <1>4 DEF MetaTypes
  <2> QED BY <1>2, <1>7, <2>1, <2>2, <2>3 DEF MetaKept
<1>9. TypeOK'
  <2>1. DiskTypes'
    BY <1>2, <1>8 DEF Pipeline, TypeOK, DiskTypes
  <2>2. /\ Ids \subseteq Ids' /\ \A k \in Ids \ {i} : jobs'[k].pc = jobs[k].pc
        /\ \A k \in Ids' \ Ids : jobs'[k].pc = "idle"
    BY <1>6
  <2>3. jobs'[i].pc \notin Inside
    BY <1>3, <1>6 DEF Inside
  <2> QED BY <1>1, <1>2, <1>6, <2>1, <2>2, <2>3, TypeStep
<1>10. Placed(j)
  BY <1>1, <1>2, <1>3 DEF Placed, StepsOf
<1>11. Prepared(jobs[i])'
  <2>1. jobs[i].ch \notin deleted =>
           meta'[jobs[i].ch].there /\ (jobs[i].ch \notin lost => meta'[jobs[i].ch].paged)
    BY <1>1, <1>2, <1>5, <1>7
  <2> QED BY <1>2, <1>3, <1>6, <2>1 DEF Prepared, HasMeta
<1>12. files' \subseteq files /\ jobs'[i].pc \notin {"chapters", "saved"}
  BY <1>2, <1>3, <1>6
<1> QED BY <1>3, <1>6, <1>8, <1>9, <1>10, <1>11, <1>12, MetaStep

\* The pull_manga that has the lock saves a chapter that nobody knew, or one
\* that a refresh has added meanwhile and whose PageCount it may overwrite.
LEMMA SaveChapterPipeline ==
    ASSUME Pipeline, NEW i \in Ids, SaveChapter(i)
    PROVE  Pipeline'
<1>1. PICK c \in jobs[i].todo :
         /\ meta' = [meta EXCEPT ![c] = NewMeta]
         /\ jobs' = [jobs EXCEPT ![i].pc = "saved", ![i].ch = c]
         /\ lost' = IF c \in added /\ meta[c].paged THEN lost \cup {c} ELSE lost
  BY DEF SaveChapter
<1> DEFINE j == [jobs[i] EXCEPT !.pc = "saved", !.ch = c]
<1>2. /\ jobs[i] \in JobTypes /\ Placed(jobs[i]) /\ Missed(jobs[i]) /\ Unscheduled(jobs[i])
      /\ jobs \in Seq(JobTypes) /\ TypeOK /\ meta \in [Chapters -> MetaTypes]
      /\ \A k \in Ids : Sound(jobs[k])
  BY JobsTyped DEF Pipeline, TypeOK, Sound
<1>3. /\ jobs[i].kind = "manga" /\ jobs[i].pc = "chapters" /\ c \in Chapters
      /\ UNCHANGED <<files, cover, claim, bindings, lock, spent, leaked, deleted, refreshing, added>>
  BY <1>2 DEF SaveChapter, At, Placed
<1>4. /\ j \in JobTypes /\ j.pc = "saved" /\ j.todo = jobs[i].todo /\ j.ch = c
      /\ j.kind = jobs[i].kind /\ j.parent = jobs[i].parent /\ j.st = jobs[i].st
      /\ j.tries = jobs[i].tries
  BY <1>2, <1>3 DEF JobTypes, Steps
<1>5. jobs' = [jobs EXCEPT ![i] = j]
  BY <1>1, <1>2
<1> HIDE DEF j
<1>6. /\ jobs' \in Seq(JobTypes) /\ Ids' = Ids /\ jobs'[i] = j
      /\ \A k \in Ids \ {i} : jobs'[k] = jobs[k]
  BY <1>2, <1>4, <1>5, ChangeJob DEF Ids
<1>7. NewMeta \in MetaTypes /\ NewMeta.there
  BY DEF NewMeta, NoMeta, MetaTypes
<1>8. /\ meta' \in [Chapters -> MetaTypes] /\ meta'[c] = NewMeta
      /\ \A d \in Chapters \ {c} : meta'[d] = meta[d]
  BY <1>1, <1>2, <1>3, <1>7
<1>9. /\ c \notin deleted /\ meta[c].there => c \in added
      /\ lost \subseteq lost' /\ lost' \subseteq Chapters
      /\ c \notin deleted \cup lost' /\ meta[c].there => ~meta[c].paged
  <2>1. c \notin deleted /\ meta[c].there => c \in added
    BY <1>2, <1>3 DEF Missed, HasMeta
  <2>2. lost \subseteq lost' /\ lost' \subseteq Chapters
    BY <1>1, <1>2, <1>3 DEF TypeOK
  <2> QED BY <1>1, <2>1, <2>2
<1>10. TypeOK'
  <2>1. DiskTypes'
    BY <1>3, <1>8, <1>9 DEF Pipeline, TypeOK, DiskTypes
  <2>2. /\ Ids \subseteq Ids' /\ \A k \in Ids \ {i} : jobs'[k].pc = jobs[k].pc
        /\ \A k \in Ids' \ Ids : jobs'[k].pc = "idle"
    BY <1>6
  <2>3. lock' = lock /\ (jobs'[i].pc \in Inside <=> jobs[i].pc \in Inside)
    BY <1>3, <1>4, <1>6 DEF Inside
  <2> QED BY <1>2, <1>6, <2>1, <2>2, <2>3, TypeStep
<1>11. \A k \in Ids : Placed(jobs'[k])
  <2>1. Placed(j)
    BY <1>2, <1>3, <1>4 DEF Placed, StepsOf
  <2> QED BY <1>2, <1>6, <2>1 DEF Sound
<1>12. \A k \in Ids : Prepared(jobs[k])'
  <2>1. j.kind = "manga"
    BY <1>3, <1>4
  <2>2. ASSUME NEW k \in Ids \ {i}
        PROVE  Prepared(jobs[k])'
    <3>1. /\ jobs'[k] = jobs[k] /\ Prepared(jobs[k])
          /\ jobs[k].kind \in {"chapter", "page"} => jobs[k].ch \in Chapters
      BY <1>2, <1>6 DEF Sound, Placed
    <3>2. CASE jobs[k].kind \in {"chapter", "page"} /\ jobs[k].ch # c
      <4>1. meta'[jobs[k].ch] = meta[jobs[k].ch]
        BY <1>8, <3>1, <3>2
      <4> QED BY <1>3, <1>9, <3>1, <4>1 DEF Prepared, HasMeta
    <3>3. CASE jobs[k].kind \in {"chapter", "page"} /\ jobs[k].ch = c
      <4>1. c \notin deleted => meta[c].there /\ meta'[c].there
        BY <1>7, <1>8, <3>1, <3>3 DEF Prepared, HasMeta
      <4>2. c \notin deleted \cup lost' => ~meta[c].paged
        BY <1>9, <4>1
      <4> QED BY <1>3, <1>9, <3>1, <3>3, <4>1, <4>2 DEF Prepared, HasMeta
    <3> QED BY <3>1, <3>2, <3>3 DEF Prepared
  <2> QED BY <1>6, <2>1, <2>2 DEF Prepared
<1>13. \A k \in Ids : Missed(jobs[k])'
  <2>1. Missed(jobs[i])'
    <3> SUFFICES ASSUME NEW d \in j.todo \ deleted
                 PROVE  (meta'[d].there => d \in added \/ d = c) /\ (d = c => meta'[d].there)
      BY <1>3, <1>4, <1>6 DEF Missed, HasMeta
    <3>1. d \in Chapters /\ d \in jobs[i].todo
      BY <1>2, <1>3, <1>4 DEF Placed
    <3>2. CASE d = c
      BY <1>7, <1>8, <3>2
    <3>3. CASE d # c
      BY <1>2, <1>3, <1>8, <3>1, <3>3 DEF Missed, HasMeta
    <3> QED BY <3>2, <3>3
  <2>2. ASSUME NEW k \in Ids \ {i}
        PROVE  jobs'[k] = jobs[k] /\ jobs[k].pc \notin {"chapters", "saved"}
    <3>1. lock = i
      BY <1>2, <1>3 DEF TypeOK, Inside
    <3> QED BY <1>2, <1>6, <3>1 DEF TypeOK, Inside
  <2> QED BY <1>6, <2>1, <2>2 DEF Missed
<1>14. \A k \in Ids : /\ jobs'[k].kind = jobs[k].kind /\ jobs'[k].parent = jobs[k].parent
                      /\ jobs[k].kind = "chapter" => jobs'[k].ch = jobs[k].ch
  BY <1>3, <1>4, <1>6
<1>15. \A k \in Ids : Unscheduled(jobs[k])'
  <2> SUFFICES ASSUME NEW k \in Ids, jobs'[k].kind = "manga",
                      jobs'[k].pc \in {"chapters", "saved"}, NEW d \in jobs'[k].todo \ deleted,
                      NEW m \in Ids, jobs'[m].kind = "chapter", jobs'[m].ch = d,
                      jobs'[m].parent # 0
               PROVE  FALSE
    BY <1>3, <1>6 DEF Unscheduled, Scheduled
  <2>1. k = i
    BY <1>10, <1>4, <1>6 DEF TypeOK, Inside
  <2>2. d \in jobs[i].todo \ deleted /\ Scheduled(d)
    BY <1>4, <1>6, <1>14, <2>1 DEF Scheduled
  <2> QED BY <1>2, <1>3, <2>2 DEF Unscheduled
<1>16. NoDuplicateChapterPull'
  <2> SUFFICES ASSUME NEW k \in Ids, NEW m \in Ids,
                      jobs'[k].kind = "chapter", jobs'[k].parent # 0,
                      jobs'[m].kind = "chapter", jobs'[m].parent # 0,
                      jobs'[k].ch = jobs'[m].ch, jobs'[k].ch \notin deleted
               PROVE  k = m
    BY <1>3, <1>6 DEF NoDuplicateChapterPull
  <2> QED BY <1>14 DEF Pipeline, NoDuplicateChapterPull
<1>17. PagesHaveCount'
  <2> SUFFICES ASSUME NEW d \in Chapters \ deleted, NEW p \in Pages, <<d, p>> \in files
               PROVE  meta'[d].there /\ (d \notin lost' => meta'[d].paged)
    BY <1>3 DEF PagesHaveCount, HasMeta
  <2>1. meta[d].there /\ (d \notin lost => meta[d].paged)
    BY DEF Pipeline, PagesHaveCount, HasMeta
  <2>2. CASE d = c
    BY <1>7, <1>8, <1>9, <2>1, <2>2
  <2>3. CASE d # c
    BY <1>8, <1>9, <2>1, <2>3
  <2> QED BY <2>2, <2>3
<1> QED BY <1>6, <1>10, <1>11, <1>12, <1>13, <1>15, <1>16, <1>17 DEF Pipeline, Sound, Placed

----------------------------------------------------------------------------
(***************************************************************************)
(* Failures and requests                                                   *)
(***************************************************************************)
LEMMA FailurePipeline ==
    ASSUME Pipeline, NEW i \in Ids,
           (\E r \in {"transient", "permanent"} : FetchFails(i, r)) \/ LibraryFails(i)
    PROVE  Pipeline'
<1>1. TypeOK /\ claim \in BOOLEAN /\ leaked \in BOOLEAN
      /\ spent \in [pulls : Nat, ops : Nat, fetches : Nat, faults : Nat, crashes : Nat]
  BY DEF Pipeline, TypeOK
<1>2. CASE \E r \in {"transient", "permanent"} : FetchFails(i, r)
  <2>1. PICK r \in {"transient", "permanent"} : FetchFails(i, r)
    BY <1>2
  <2>2. /\ UNCHANGED <<meta, files, cover, bindings, lock, deleted, refreshing, added, lost>> /\ jobs[i].pc \notin Inside
        /\ End(i, r) /\ claim' \in BOOLEAN /\ leaked' \in BOOLEAN
        /\ spent' = [spent EXCEPT !["fetches"] = spent.fetches + 1]
    BY <1>1, <2>1 DEF FetchFails, Inside, Spend
  <2>3. PagesHaveCount'
    BY <2>2 DEF Pipeline, PagesHaveCount, HasMeta
  <2>4. DiskTypes'
    BY <1>1, <2>2 DEF TypeOK, DiskTypes
  <2> QED BY <2>2, <2>3, <2>4, EndStep
<1>3. CASE LibraryFails(i)
  <2>1. PICK r \in {"transient", "permanent"} : End(i, r)
    <3>1. End(i, "permanent") \/ End(i, "transient")
      BY <1>3 DEF LibraryFails
    <3> QED BY <3>1
  <2>2. /\ UNCHANGED <<meta, files, cover, claim, bindings, deleted, refreshing, added, lost>> /\ lock' = Unlocked(i)
        /\ leaked' \in BOOLEAN
        /\ spent' = [spent EXCEPT !["faults"] = spent.faults + 1]
    BY <1>1, <1>3 DEF LibraryFails, Spend, disk
  <2>3. DiskTypes' /\ PagesHaveCount'
    BY <1>1, <2>2 DEF Pipeline, TypeOK, DiskTypes, PagesHaveCount, HasMeta
  <2> QED BY <2>1, <2>2, <2>3, EndStep
<1> QED BY <1>2, <1>3

LEMMA EnqueueChildFailsPipeline ==
    ASSUME Pipeline, NEW i \in Ids, EnqueueChildFails(i)
    PROVE  Pipeline'
<1> DEFINE e == Ended(jobs[i], "transient")
           n == IF jobs[i].kind = "manga" THEN None ELSE e.ch
           j == [e EXCEPT !.ch = n]
<1>1. /\ jobs[i] \in JobTypes /\ Placed(jobs[i]) /\ Prepared(jobs[i])
      /\ TypeOK /\ claim \in BOOLEAN /\ leaked \in BOOLEAN
      /\ spent \in [pulls : Nat, ops : Nat, fetches : Nat, faults : Nat, crashes : Nat]
  BY JobsTyped DEF Pipeline, TypeOK, Sound
<1>2. PICK child \in ChildOf(i) : \/ jobs' = [jobs EXCEPT ![i] = j]
                                  \/ WithChild(i, j, child)
  BY DEF EnqueueChildFails
<1>3. /\ e \in JobTypes /\ e.pc = "idle" /\ e.todo = {}
      /\ e.kind = jobs[i].kind /\ e.ch = jobs[i].ch /\ e.pg = jobs[i].pg
      /\ e.parent = jobs[i].parent
      /\ e.st \in {"pending", "running"} => e.tries < MaxRetries
  BY <1>1, EndedTyped
<1> HIDE DEF e
<1>4. n \in Chapters \cup {None} /\ (jobs[i].kind # "manga" => n = jobs[i].ch)
  BY <1>1, <1>3 DEF JobTypes
<1> HIDE DEF n
<1>5. /\ j \in JobTypes /\ j.pc = "idle" /\ j.todo = {}
      /\ j.kind = jobs[i].kind /\ j.ch = n /\ j.pg = jobs[i].pg
      /\ j.parent = jobs[i].parent
      /\ j.st \in {"pending", "running"} => j.tries < MaxRetries
  BY <1>3, <1>4 DEF JobTypes
<1> HIDE DEF j
<1>6. Placed(j)
  BY <1>1, <1>4, <1>5 DEF Placed, StepsOf, JobTypes, Kinds
<1>7. Prepared(j) /\ Missed(j) /\ Unscheduled(j) /\ j.pc \notin Inside
  BY <1>1, <1>4, <1>5 DEF Prepared, Missed, Unscheduled, Inside
<1>8. jobs[i].kind = "chapter" => j.ch = jobs[i].ch
  BY <1>4, <1>5
<1>9. /\ UNCHANGED <<meta, files, cover, bindings, deleted, refreshing, added, lost>> /\ lock' = Unlocked(i)
      /\ claim' \in BOOLEAN /\ leaked' \in BOOLEAN
      /\ spent' = [spent EXCEPT !["faults"] = spent.faults + 1]
  BY <1>1 DEF EnqueueChildFails, Spend
<1>10. DiskTypes' /\ PagesHaveCount'
  BY <1>1, <1>9 DEF Pipeline, TypeOK, DiskTypes, PagesHaveCount, HasMeta
<1>11. CASE jobs' = [jobs EXCEPT ![i] = j]
  BY <1>5, <1>6, <1>7, <1>8, <1>9, <1>10, <1>11, MoveStep
<1>12. CASE WithChild(i, j, child)
  <2>1. child.ch \notin j.todo
    BY <1>5
  <2> QED BY <1>5, <1>6, <1>7, <1>8, <1>9, <1>10, <1>12, <2>1, ChildSound, SpawnStep
<1> QED BY <1>2, <1>11, <1>12

\* A restart or a cancellation touches many jobs, but only how they stand.
LEMMA SweepStep ==
    ASSUME Pipeline, DiskTypes', UNCHANGED <<meta, files, deleted, added, lost>>,
           jobs' \in Seq(JobTypes), Ids' = Ids,
           \A k \in Ids :
              LET j == jobs'[k]
              IN  /\ j.kind = jobs[k].kind /\ j.ch = jobs[k].ch
                  /\ j.pg = jobs[k].pg /\ j.parent = jobs[k].parent /\ j.tries = jobs[k].tries
                  /\ j.st \in {"pending", "running"} => jobs[k].st \in {"pending", "running"}
                  /\ \/ j.pc = jobs[k].pc /\ j.todo = jobs[k].todo /\ j.metaCopy = jobs[k].metaCopy
                     \/ j.pc = "idle" /\ j.todo = {},
           \/ lock' = lock /\ \A k \in Ids : jobs'[k].pc = jobs[k].pc
           \/ lock' = 0 /\ \A k \in Ids : jobs'[k].pc = "idle"
    PROVE  Pipeline'
<1>1. jobs \in Seq(JobTypes) /\ \A k \in Ids : Sound(jobs[k])
  BY DEF Pipeline, TypeOK
<1>2. TypeOK'
  <2>1. /\ lock \in Ids \cup {0} /\ \A k \in Ids : lock = k <=> jobs[k].pc \in Inside
    BY DEF Pipeline, TypeOK
  <2>2. 0 \notin Ids /\ "idle" \notin Inside
    BY <1>1 DEF Ids, Inside
  <2>3. lock' \in Ids \cup {0} /\ \A k \in Ids : lock' = k <=> jobs'[k].pc \in Inside
    BY <2>1, <2>2
  <2> QED BY <2>3 DEF TypeOK, DiskTypes
<1>3. \A k \in Ids : /\ jobs'[k].kind = jobs[k].kind /\ jobs'[k].ch = jobs[k].ch
                     /\ jobs'[k].parent = jobs[k].parent
  OBVIOUS
<1>4. \A k \in Ids : Placed(jobs'[k])
  <2> SUFFICES ASSUME NEW k \in Ids
               PROVE  Placed(jobs'[k])
    OBVIOUS
  <2> DEFINE j == jobs'[k]
  <2>1. /\ j.kind = jobs[k].kind /\ j.ch = jobs[k].ch
        /\ j.pg = jobs[k].pg /\ j.tries = jobs[k].tries
        /\ j.st \in {"pending", "running"} => jobs[k].st \in {"pending", "running"}
        /\ \/ j.pc = jobs[k].pc /\ j.todo = jobs[k].todo
           \/ j.pc = "idle" /\ j.todo = {}
    OBVIOUS
  <2>2. Placed(jobs[k]) /\ jobs[k].kind \in Kinds
    BY <1>1, JobsTyped DEF Sound, JobTypes
  <2> HIDE DEF j
  <2> QED BY <2>1, <2>2 DEF Placed, StepsOf, Kinds
<1>5. \A k \in Ids : Prepared(jobs[k])' /\ Missed(jobs[k])'
  <2> SUFFICES ASSUME NEW k \in Ids
               PROVE  Prepared(jobs'[k]) /\ Missed(jobs'[k])
    BY DEF Prepared, Missed, HasMeta
  <2> DEFINE j == jobs'[k]
  <2>1. /\ j.kind = jobs[k].kind /\ j.ch = jobs[k].ch
        /\ \/ j.pc = jobs[k].pc /\ j.todo = jobs[k].todo /\ j.metaCopy = jobs[k].metaCopy
           \/ j.pc = "idle" /\ j.todo = {}
    OBVIOUS
  <2>2. Prepared(jobs[k]) /\ Missed(jobs[k])
    BY <1>1 DEF Sound
  <2> HIDE DEF j
  <2> QED BY <2>1, <2>2 DEF Prepared, Missed
<1>6. \A k \in Ids : Unscheduled(jobs[k])'
  <2> SUFFICES ASSUME NEW k \in Ids, jobs'[k].kind = "manga",
                      jobs'[k].pc \in {"chapters", "saved"}, NEW c \in jobs'[k].todo \ deleted,
                      NEW m \in Ids, jobs'[m].kind = "chapter", jobs'[m].ch = c,
                      jobs'[m].parent # 0
               PROVE  FALSE
    BY DEF Unscheduled, Scheduled
  <2>1. jobs[k].pc = jobs'[k].pc /\ jobs[k].todo = jobs'[k].todo
    OBVIOUS
  <2> QED BY <1>1, <1>3, <2>1 DEF Sound, Unscheduled, Scheduled
<1>7. NoDuplicateChapterPull'
  BY <1>3 DEF Pipeline, NoDuplicateChapterPull
<1>8. PagesHaveCount'
  BY DEF Pipeline, PagesHaveCount, HasMeta
<1> QED BY <1>2, <1>4, <1>5, <1>6, <1>7, <1>8 DEF Pipeline, Sound, Placed

LEMMA CrashPipeline ==
    ASSUME Pipeline, Crash
    PROVE  Pipeline'
<1> DEFINE F(k) == [jobs[k] EXCEPT !.pc = "idle", !.todo = {}, !.metaCopy = NoMeta,
                                   !.bindCopy = NoSource]
<1>1. /\ jobs \in Seq(JobTypes) /\ TypeOK /\ \A k \in Ids : jobs[k] \in JobTypes
      /\ leaked \in BOOLEAN
      /\ spent \in [pulls : Nat, ops : Nat, fetches : Nat, faults : Nat, crashes : Nat]
  BY JobsTyped DEF Pipeline, TypeOK
<1>2. NoMeta \in MetaTypes /\ NoSource \in SourceTypes /\ "idle" \in Steps
  BY DEF NoMeta, NoSource, MetaTypes, SourceTypes, Steps
<1>3. \A k \in Ids :
         /\ F(k) \in JobTypes /\ F(k).kind = jobs[k].kind /\ F(k).ch = jobs[k].ch
         /\ F(k).pg = jobs[k].pg /\ F(k).parent = jobs[k].parent /\ F(k).tries = jobs[k].tries
         /\ F(k).st = jobs[k].st /\ F(k).pc = "idle" /\ F(k).todo = {}
  BY <1>1, <1>2 DEF JobTypes
<1>4. jobs' = [k \in Ids |-> IF k \in Working THEN F(k) ELSE jobs[k]]
  BY DEF Crash
<1> HIDE DEF F
<1>5. Ids' = Ids /\ \A k \in Ids : jobs'[k] = IF k \in Working THEN F(k) ELSE jobs[k]
  BY <1>4 DEF Ids
<1>6. jobs' \in Seq(JobTypes)
  <2>1. Ids = 1..Len(jobs) /\ Len(jobs) \in Nat
    BY <1>1 DEF Ids
  <2>2. jobs' \in [1..Len(jobs) -> JobTypes]
    BY <1>1, <1>3, <1>4, <2>1
  <2> QED BY <2>1, <2>2
<1>7. /\ UNCHANGED <<meta, files, cover, claim, bindings, deleted, added, lost>> /\ lock' = 0
      /\ refreshing' = {} /\ leaked' \in BOOLEAN
      /\ spent' = [spent EXCEPT !["crashes"] = spent.crashes + 1]
  BY <1>1 DEF Crash, Spend, disk
<1>8. DiskTypes'
  BY <1>1, <1>7 DEF TypeOK, DiskTypes
<1>9. \A k \in Ids : k \notin Working => jobs[k].pc = "idle"
  BY DEF Working
<1>10. \A k \in Ids : jobs'[k].pc = "idle"
  BY <1>3, <1>5, <1>9
<1>11. \A k \in Ids :
          LET j == jobs'[k]
          IN  /\ j.kind = jobs[k].kind /\ j.ch = jobs[k].ch
              /\ j.pg = jobs[k].pg /\ j.parent = jobs[k].parent /\ j.tries = jobs[k].tries
              /\ j.st \in {"pending", "running"} => jobs[k].st \in {"pending", "running"}
              /\ \/ j.pc = jobs[k].pc /\ j.todo = jobs[k].todo /\ j.metaCopy = jobs[k].metaCopy
                 \/ j.pc = "idle" /\ j.todo = {}
  BY <1>3, <1>5
<1> QED BY <1>5, <1>6, <1>7, <1>8, <1>10, <1>11, SweepStep

LEMMA CancelPipeline ==
    ASSUME Pipeline, NEW i \in Ids, CancelJob(i)
    PROVE  Pipeline'
<1> DEFINE S == {k \in Ids : InTree(k, i) /\ jobs[k].st \in {"pending", "running"}}
           F(k) == [jobs[k] EXCEPT !.st = "cancelled"]
<1>1. /\ jobs \in Seq(JobTypes) /\ TypeOK /\ \A k \in Ids : jobs[k] \in JobTypes
      /\ leaked \in BOOLEAN
      /\ spent \in [pulls : Nat, ops : Nat, fetches : Nat, faults : Nat, crashes : Nat]
  BY JobsTyped DEF Pipeline, TypeOK
<1>2. \A k \in Ids :
         /\ F(k) \in JobTypes /\ F(k).kind = jobs[k].kind /\ F(k).ch = jobs[k].ch
         /\ F(k).pg = jobs[k].pg /\ F(k).parent = jobs[k].parent /\ F(k).tries = jobs[k].tries
         /\ F(k).st = "cancelled" /\ F(k).pc = jobs[k].pc /\ F(k).todo = jobs[k].todo
         /\ F(k).metaCopy = jobs[k].metaCopy
  BY <1>1 DEF JobTypes
<1>3. jobs' = [k \in Ids |-> IF k \in S THEN F(k) ELSE jobs[k]]
  BY DEF CancelJob
<1>4. /\ UNCHANGED <<meta, files, cover, claim, bindings, deleted, refreshing, added, lost, lock>>
      /\ leaked' \in BOOLEAN
      /\ spent' = [spent EXCEPT !["ops"] = spent.ops + 1]
  BY <1>1 DEF CancelJob, Request, Spend, disk
<1> HIDE DEF F, S
<1>5. Ids' = Ids /\ \A k \in Ids : jobs'[k] = IF k \in S THEN F(k) ELSE jobs[k]
  BY <1>3 DEF Ids
<1>6. jobs' \in Seq(JobTypes)
  <2>1. Ids = 1..Len(jobs) /\ Len(jobs) \in Nat
    BY <1>1 DEF Ids
  <2>2. jobs' \in [1..Len(jobs) -> JobTypes]
    BY <1>1, <1>2, <1>3, <2>1
  <2> QED BY <2>1, <2>2
<1>7. DiskTypes'
  BY <1>1, <1>4 DEF TypeOK, DiskTypes
<1>8. \A k \in Ids : jobs'[k].pc = jobs[k].pc
  BY <1>2, <1>5
<1>9. \A k \in Ids :
         LET j == jobs'[k]
         IN  /\ j.kind = jobs[k].kind /\ j.ch = jobs[k].ch
             /\ j.pg = jobs[k].pg /\ j.parent = jobs[k].parent /\ j.tries = jobs[k].tries
             /\ j.st \in {"pending", "running"} => jobs[k].st \in {"pending", "running"}
             /\ \/ j.pc = jobs[k].pc /\ j.todo = jobs[k].todo /\ j.metaCopy = jobs[k].metaCopy
                \/ j.pc = "idle" /\ j.todo = {}
  BY <1>2, <1>5
<1> QED BY <1>4, <1>5, <1>6, <1>7, <1>8, <1>9, SweepStep

LEMMA RequestsPipeline ==
    ASSUME Pipeline, PullManga \/ \E c \in Chapters : PullChapter(c)
    PROVE  Pipeline'
<1>1. TypeOK /\ MaxRetries \in Nat \ {0}
      /\ spent \in [pulls : Nat, ops : Nat, fetches : Nat, faults : Nat, crashes : Nat]
  BY PullAssumption DEF Pipeline, TypeOK
<1>2. CASE PullManga
  <2> DEFINE child == NewJob("manga", None, None, 0)
  <2>1. /\ jobs' = Append(jobs, child)
        /\ UNCHANGED <<meta, files, cover, claim, bindings, deleted, refreshing, added, lost, lock, leaked>>
        /\ spent' = [spent EXCEPT !["pulls"] = spent.pulls + 1]
    BY <1>2 DEF PullManga, Spend, disk
  <2>2. /\ "manga" \in Kinds /\ None \in Chapters \cup {None} /\ None \in Pages \cup {None}
        /\ 0 \in Nat
    BY DEF Kinds
  <2>3. /\ child \in JobTypes /\ child.kind = "manga" /\ child.parent = 0 /\ child.todo = {}
        /\ child.pc = "idle" /\ child.tries = 0
    BY <2>2, NewJobTyped
  <2> HIDE DEF child
  <2>4. DiskTypes'
    <3>1. spent' \in [pulls : Nat, ops : Nat, fetches : Nat, faults : Nat, crashes : Nat]
      BY <1>1, <2>1
    <3> QED BY <1>1, <2>1, <3>1 DEF TypeOK, DiskTypes
  <2>5. Placed(child) /\ Prepared(child)
    BY <1>1, <2>3 DEF Placed, Prepared, StepsOf
  <2> QED BY <2>1, <2>3, <2>4, <2>5, RequestStep
<1>3. CASE \E c \in Chapters : PullChapter(c)
  <2>1. PICK c \in Chapters : PullChapter(c)
    BY <1>3
  <2> DEFINE child == NewJob("chapter", c, None, 0)
  <2>2. /\ jobs' = Append(jobs, child) /\ HasMeta(c)
        /\ UNCHANGED <<meta, files, cover, claim, bindings, deleted, refreshing, added, lost, lock, leaked>>
        /\ spent' = [spent EXCEPT !["ops"] = spent.ops + 1]
    BY <2>1 DEF PullChapter, Request, Spend, disk
  <2>3. /\ "chapter" \in Kinds /\ c \in Chapters \cup {None} /\ None \in Pages \cup {None}
        /\ 0 \in Nat
    BY DEF Kinds
  <2>4. /\ child \in JobTypes /\ child.kind = "chapter" /\ child.parent = 0 /\ child.todo = {}
        /\ child.pc = "idle" /\ child.tries = 0 /\ child.ch = c
    BY <2>3, NewJobTyped
  <2> HIDE DEF child
  <2>5. DiskTypes'
    <3>1. spent' \in [pulls : Nat, ops : Nat, fetches : Nat, faults : Nat, crashes : Nat]
      BY <1>1, <2>2
    <3> QED BY <1>1, <2>2, <3>1 DEF TypeOK, DiskTypes
  <2>6. Placed(child) /\ Prepared(child)
    BY <1>1, <2>2, <2>4 DEF Placed, Prepared, StepsOf
  <2> QED BY <2>2, <2>4, <2>5, <2>6, RequestStep
<1> QED BY <1>2, <1>3

\* Requests that change a chapter or the bindings beside the jobs.
LEMMA EditsPipeline ==
    ASSUME Pipeline,
           \/ SwitchContentProvider
           \/ \E c \in Chapters : \/ UpdateChapterProgress(c) \/ DeleteChapterFiles(c)
                                  \/ DeleteChapter(c)
    PROVE  Pipeline'
<1>1. /\ TypeOK /\ meta \in [Chapters -> MetaTypes] /\ jobs \in Seq(JobTypes)
      /\ spent \in [pulls : Nat, ops : Nat, fetches : Nat, faults : Nat, crashes : Nat]
  BY DEF Pipeline, TypeOK
<1>2. /\ UNCHANGED <<jobs, cover, claim, lock, leaked, refreshing, added, lost>>
      /\ files' \subseteq files /\ spent' = [spent EXCEPT !["ops"] = spent.ops + 1]
  BY DEF SwitchContentProvider, UpdateChapterProgress, DeleteChapterFiles, DeleteChapter,
         Request, Spend
<1>3. /\ bindings' \in SourceTypes /\ meta' \in [Chapters -> MetaTypes]
      /\ deleted' \subseteq Chapters /\ MetaKept
  <2>1. bindings \in SourceTypes /\ deleted \subseteq Chapters
    BY <1>1 DEF TypeOK
  <2>2. CASE SwitchContentProvider
    <3>1. bindings' = [bindings EXCEPT !.source = bindings.source + 1] /\ UNCHANGED <<meta, deleted>>
      BY <2>2 DEF SwitchContentProvider
    <3>2. bindings' \in SourceTypes
      BY <2>1, <3>1 DEF SourceTypes
    <3> QED BY <1>1, <1>2, <2>1, <3>1, <3>2 DEF MetaKept
  <2>3. CASE \E c \in Chapters : UpdateChapterProgress(c)
    <3>1. PICK c \in Chapters : UpdateChapterProgress(c)
      BY <2>3
    <3> DEFINE m == [meta[c] EXCEPT !.progress = @ + 1]
    <3>2. /\ meta[c] \in MetaTypes /\ m \in MetaTypes /\ m.there = meta[c].there
          /\ m.paged = meta[c].paged
      BY <1>1 DEF MetaTypes
    <3>3. meta' = [meta EXCEPT ![c] = m] /\ UNCHANGED <<bindings, deleted>>
      BY <1>1, <3>1 DEF UpdateChapterProgress
    <3> HIDE DEF m
    <3> QED BY <1>1, <2>1, <3>2, <1>2, <3>3 DEF MetaKept
  <2>4. CASE \E c \in Chapters : DeleteChapterFiles(c)
    <3>1. PICK c \in Chapters : DeleteChapterFiles(c)
      BY <2>4
    <3> DEFINE m == [meta[c] EXCEPT !.stamped = FALSE]
    <3>2. /\ meta[c] \in MetaTypes /\ m \in MetaTypes /\ m.there = meta[c].there
          /\ m.paged = meta[c].paged
      BY <1>1 DEF MetaTypes
    <3>3. meta' = [meta EXCEPT ![c] = m] /\ UNCHANGED <<bindings, deleted>>
      BY <1>1, <3>1 DEF DeleteChapterFiles
    <3> HIDE DEF m
    <3> QED BY <1>1, <2>1, <3>2, <1>2, <3>3 DEF MetaKept
  <2>5. CASE \E c \in Chapters : DeleteChapter(c)
    <3>1. PICK c \in Chapters : DeleteChapter(c)
      BY <2>5
    <3>2. NoMeta \in MetaTypes
      BY DEF NoMeta, MetaTypes
    <3>3. /\ meta' = [meta EXCEPT ![c] = NoMeta] /\ UNCHANGED bindings
          /\ deleted' = deleted \cup {c}
      BY <3>1 DEF DeleteChapter
    <3> QED BY <1>1, <2>1, <3>2, <1>2, <3>3 DEF MetaKept
  <2> QED BY <2>2, <2>3, <2>4, <2>5
<1>4. TypeOK'
  <2>1. spent' \in [pulls : Nat, ops : Nat, fetches : Nat, faults : Nat, crashes : Nat]
    BY <1>1, <1>2
  <2> QED BY <1>1, <1>2, <1>3, <2>1 DEF TypeOK, Ids
<1>5. Ids' = Ids /\ 0 \notin Ids /\ \A k \in Ids \ {0} : jobs'[k] = jobs[k]
  BY <1>1, <1>2 DEF Ids
<1> QED BY <1>2, <1>3, <1>4, <1>5, MetaStep

\* Requests that read a chapter or the bindings, and save the copy later.
Refreshes ==
    \/ \E c \in Chapters, op \in UserOps : RefreshChapter(op, c)
    \/ RefreshManga
    \/ \E r \in refreshing : RefreshLists(r) \/ RefreshSaves(r) \/ RefreshBinds(r)

LEMMA RefreshReads ==
    ASSUME Pipeline, RefreshManga \/ \E c \in Chapters, op \in UserOps : RefreshChapter(op, c)
    PROVE  /\ refreshing' \subseteq RefreshTypes /\ UNCHANGED <<jobs, disk, lock, leaked, deleted>>
           /\ UNCHANGED <<added, lost>>
           /\ spent' = [spent EXCEPT !["ops"] = spent.ops + 1]
<1>1. /\ meta \in [Chapters -> MetaTypes] /\ bindings \in SourceTypes /\ spent.ops \in Nat
      /\ refreshing \subseteq RefreshTypes
  BY DEF Pipeline, TypeOK
<1>2. NewMeta \in {m \in MetaTypes : m.there} /\ NoSource \in SourceTypes
  BY DEF NewMeta, NoMeta, NoSource, MetaTypes, SourceTypes
<1>3. CASE RefreshManga
  BY <1>1, <1>2, <1>3 DEF RefreshManga, Refresh, RefreshTypes, Request, Spend, disk
<1>4. CASE \E c \in Chapters, op \in UserOps : RefreshChapter(op, c)
  <2>1. PICK c \in Chapters, op \in UserOps : RefreshChapter(op, c)
    BY <1>4
  <2>2. CopiesFor(op, c) \subseteq {m \in MetaTypes : m.there}
    BY <1>1, <1>2 DEF CopiesFor, HasMeta
  <2> QED BY <1>1, <1>2, <2>1, <2>2 DEF RefreshChapter, Refresh, RefreshTypes, Request, Spend, disk
<1> QED BY <1>3, <1>4

LEMMA RefreshWrites ==
    ASSUME Pipeline, NEW r \in refreshing, RefreshLists(r) \/ RefreshSaves(r) \/ RefreshBinds(r)
    PROVE  /\ refreshing' \subseteq RefreshTypes /\ bindings' \in SourceTypes
           /\ meta' \in [Chapters -> MetaTypes] /\ MetaKept
           /\ added' \subseteq Chapters /\ lost' \subseteq Chapters
           /\ UNCHANGED <<jobs, files, cover, claim, lock, spent, leaked, deleted>>
<1>1. /\ meta \in [Chapters -> MetaTypes] /\ bindings \in SourceTypes
      /\ refreshing \subseteq RefreshTypes /\ added \subseteq Chapters /\ lost \subseteq Chapters
  BY DEF Pipeline, TypeOK
<1>2. r \in RefreshTypes /\ r.copy \in MetaTypes /\ r.copy.there /\ r.todo \subseteq Chapters
      /\ r.binds \in SourceTypes
  BY <1>1 DEF RefreshTypes
<1>3. CASE RefreshLists(r)
  <2>1. PICK todo \in {{}, Missing} :
           refreshing' = (refreshing \ {r}) \cup {[r EXCEPT !.stage = "saving", !.todo = todo]}
    BY <1>3 DEF RefreshLists
  <2>2. todo \subseteq Chapters
    BY DEF Missing
  <2>3. [r EXCEPT !.stage = "saving", !.todo = todo] \in RefreshTypes
    BY <1>2, <2>2 DEF RefreshTypes
  <2> QED BY <1>1, <1>3, <2>1, <2>3 DEF RefreshLists, disk, MetaKept
<1>4. CASE RefreshSaves(r)
  <2>1. PICK c \in r.todo :
           /\ meta' = [meta EXCEPT ![c] = r.copy]
           /\ refreshing' = (refreshing \ {r}) \cup
                 {q \in {[r EXCEPT !.todo = @ \ {c}]} : q.todo # {} \/ q.binds # NoSource}
           /\ added' = IF HasMeta(c) THEN added ELSE added \cup {c}
           /\ lost' = IF meta[c].paged /\ ~r.copy.paged THEN lost \cup {c} ELSE lost
    BY <1>4 DEF RefreshSaves
  <2>2. c \in Chapters /\ [r EXCEPT !.todo = @ \ {c}] \in RefreshTypes
    BY <1>2 DEF RefreshTypes
  <2>3. refreshing' \subseteq RefreshTypes /\ meta' \in [Chapters -> MetaTypes]
    BY <1>1, <1>2, <2>1, <2>2
  <2>4. /\ meta'[c] = r.copy /\ \A d \in Chapters \ {c} : meta'[d] = meta[d]
    BY <1>1, <2>1, <2>2
  <2>5. UNCHANGED <<jobs, files, cover, claim, bindings, lock, spent, leaked, deleted>>
    BY <1>4 DEF RefreshSaves
  <2>6. MetaKept
    BY <1>2, <2>1, <2>4, <2>5 DEF MetaKept, HasMeta
  <2> QED BY <1>1, <2>1, <2>2, <2>3, <2>5, <2>6
<1>5. CASE RefreshBinds(r)
  <2>1. [r.binds EXCEPT !.synced = TRUE] \in SourceTypes
    BY <1>2 DEF SourceTypes
  <2> QED BY <1>1, <1>5, <2>1 DEF RefreshBinds, MetaKept
<1> QED BY <1>3, <1>4, <1>5

LEMMA RefreshesPipeline ==
    ASSUME Pipeline, Refreshes
    PROVE  Pipeline'
<1>1. /\ TypeOK /\ jobs \in Seq(JobTypes)
      /\ spent \in [pulls : Nat, ops : Nat, fetches : Nat, faults : Nat, crashes : Nat]
  BY DEF Pipeline, TypeOK
<1>2. /\ refreshing' \subseteq RefreshTypes /\ bindings' \in SourceTypes
      /\ meta' \in [Chapters -> MetaTypes] /\ MetaKept
      /\ added' \subseteq Chapters /\ lost' \subseteq Chapters
      /\ UNCHANGED <<jobs, files, cover, claim, lock, leaked, deleted>>
      /\ spent' \in [pulls : Nat, ops : Nat, fetches : Nat, faults : Nat, crashes : Nat]
  <2>1. CASE RefreshManga \/ \E c \in Chapters, op \in UserOps : RefreshChapter(op, c)
    BY <1>1, <2>1, RefreshReads DEF TypeOK, disk, MetaKept
  <2>2. CASE \E r \in refreshing : RefreshLists(r) \/ RefreshSaves(r) \/ RefreshBinds(r)
    BY <1>1, <2>2, RefreshWrites
  <2> QED BY <2>1, <2>2 DEF Refreshes
<1>3. TypeOK'
  BY <1>1, <1>2 DEF TypeOK, Ids
<1>4. Ids' = Ids /\ 0 \notin Ids /\ \A k \in Ids \ {0} : jobs'[k] = jobs[k]
  BY <1>1, <1>2 DEF Ids
<1> QED BY <1>2, <1>3, <1>4, MetaStep

----------------------------------------------------------------------------
(***************************************************************************)
(* The invariant                                                           *)
(***************************************************************************)
LEMMA InitPipeline == Init => Pipeline
<1> SUFFICES ASSUME Init
             PROVE  Pipeline
  OBVIOUS
<1>1. /\ NoMeta \in MetaTypes /\ NewMeta \in MetaTypes
      /\ [NoSource EXCEPT !.source = FirstSource] \in SourceTypes
  BY PullAssumption DEF NoMeta, NewMeta, NoSource, MetaTypes, SourceTypes
<1>2. jobs = << >> /\ Ids = {} /\ jobs \in Seq(JobTypes)
  BY DEF Init, Ids
<1>3. meta \in [Chapters -> MetaTypes] /\ bindings \in SourceTypes
  BY <1>1 DEF Init
<1>4. TypeOK
  BY <1>2, <1>3 DEF Init, TypeOK
<1>5. PagesHaveCount
  BY DEF Init, PagesHaveCount
<1> QED BY <1>2, <1>4, <1>5 DEF Pipeline, NoDuplicateChapterPull

LEMMA NextPipeline == Pipeline /\ [Next]_vars => Pipeline'
<1> SUFFICES ASSUME Pipeline, [Next]_vars
             PROVE  Pipeline'
  OBVIOUS
<1>1. CASE \E i \in Ids : Claim(i) \/ Handle(i)
  <2>1. PICK i \in Ids : Claim(i) \/ Handle(i)
    BY <1>1
  <2>2. CASE \/ ListChapters(i) \/ ClaimCover(i) \/ GetBindings(i) \/ SaveBindings(i)
    BY <2>2, MangaMoves
  <2>3. CASE \/ EnqueuePullChapter(i) \/ EnqueuePullCover(i) \/ EnqueuePullPage(i)
    BY <2>3, Spawns
  <2>4. CASE \/ PullChapterDone(i) \/ DownloadPage(i) \/ GetChapter(i) \/ DownloadCover(i)
             \/ ReleaseCoverClaim(i)
    BY <2>4, PageAndCoverMoves
  <2> QED BY <2>1, <2>2, <2>3, <2>4, ClaimPipeline, SaveChapterPipeline,
             SaveChapterPagesPipeline, StampChapterPipeline DEF Handle
<1>2. CASE Failure
  BY <1>2, FailurePipeline, EnqueueChildFailsPipeline, CrashPipeline DEF Failure
<1>3. CASE Requests
  BY <1>3, RequestsPipeline, EditsPipeline, CancelPipeline, RefreshesPipeline
     DEF Requests, Refreshes
<1>4. CASE UNCHANGED vars
  <2>1. /\ UNCHANGED <<jobs, meta, files, cover, claim, bindings, lock, spent, leaked, deleted, refreshing, added, lost>>
        /\ Ids' = Ids
    BY <1>4 DEF vars, Ids
  <2>2. TypeOK'
    BY <2>1 DEF Pipeline, TypeOK
  <2>3. PagesHaveCount' /\ NoDuplicateChapterPull'
    BY <2>1 DEF Pipeline, PagesHaveCount, NoDuplicateChapterPull, HasMeta
  <2>4. \A i \in Ids : Sound(jobs[i])'
    BY <2>1 DEF Pipeline, Sound, Placed, Prepared, Missed, Unscheduled, Scheduled, HasMeta
  <2> QED BY <2>1, <2>2, <2>3, <2>4 DEF Pipeline
<1> QED BY <1>1, <1>2, <1>3, <1>4 DEF Next

\* In every state of the pipeline, whatever overlaps, fails, restarts or is
\* requested meanwhile: what pull_manga has still to save is missing or was
\* added by a refresh, a chapter with a job is known, and no page is there
\* before its PageCount.
THEOREM PipelineInvariant == Spec => []Pipeline
<1> QED BY InitPipeline, NextPipeline, PTL DEF Spec

\* The state is well typed, and the manga lock is held exactly by the handler
\* inside its section: every early return and every error path of
\* HandlePullManga and HandlePullPage gives it back.
THEOREM TypeCorrect == Spec => []TypeOK
<1>1. Pipeline => TypeOK
  BY DEF Pipeline
<1> QED BY <1>1, PipelineInvariant, PTL

\* No chapter gets pull_chapter from pull_manga twice, however many pulls of
\* the manga overlap, are retried, cancelled or cut off by a restart.
THEOREM NoChapterPulledTwice == Spec => []NoDuplicateChapterPull
<1>1. Pipeline => NoDuplicateChapterPull
  BY DEF Pipeline
<1> QED BY <1>1, PipelineInvariant, PTL

LEMMA CountedIsComplete == Pipeline => DownloadedIsComplete
<1> SUFFICES ASSUME Pipeline, NEW c \in Chapters \ (deleted \cup lost), IsDownloaded(c)
             PROVE  DownloadedPages(c) = Pages
  BY DEF DownloadedIsComplete
<1>1. meta[c].paged
  BY DEF IsDownloaded, DownloadedPages, Pipeline, PagesHaveCount
<1>2. IsFiniteSet(Pages) /\ DownloadedPages(c) \subseteq Pages
  BY PullAssumption DEF DownloadedPages
<1>3. /\ Cardinality(DownloadedPages(c)) \in Nat /\ Cardinality(Pages) \in Nat
      /\ Cardinality(DownloadedPages(c)) = Cardinality(Pages) => DownloadedPages(c) = Pages
      /\ Cardinality(DownloadedPages(c)) <= Cardinality(Pages)
  BY <1>2, FS_Subset, FS_CardinalityType
<1> QED BY <1>1, <1>3 DEF IsDownloaded

\* A chapter that the library reports as downloaded has all its pages, at
\* every moment of any number of pulls, refreshes and other requests, as long
\* as it was not deleted and no save from outside the lock has overwritten its
\* PageCount: that is written before there is a job for a page, and the jobs
\* themselves write no copy of meta.json without it back.
THEOREM DownloadedChaptersAreComplete == Spec => []DownloadedIsComplete
<1> QED BY CountedIsComplete, PipelineInvariant, PTL

----------------------------------------------------------------------------
(***************************************************************************)
(* The owner of the claim file, and the chapters of an undisturbed pull    *)
(***************************************************************************)
\* Jobs are never removed, nor is what they are about changed.
JobsStay ==
    /\ Ids \subseteq Ids'
    /\ \A k \in Ids : /\ jobs'[k].kind = jobs[k].kind
                      /\ jobs[k].kind \in {"chapter", "page"} => jobs'[k].ch = jobs[k].ch

Others(i) == \A k \in Ids \ {i} : jobs'[k] = jobs[k]

Owns(j) ==
    \/ j.kind = "manga" /\ j.pc = "claimed"
    \/ j.kind = "cover" /\ (j.pc # "idle" \/ j.st = "pending")

Quiet == spent.faults = 0 /\ spent.crashes = 0

LEMMA OwnerStep ==
    ASSUME ClaimHasOwner, Ids \subseteq Ids', NEW i, Others(i), claim' => claim,
           claim' /\ leaked => leaked',
           i \in Ids /\ Owns(jobs[i]) /\ claim' =>
              leaked' \/ \E k \in Ids' : Owns(jobs'[k])
    PROVE  ClaimHasOwner'
<1> SUFFICES ASSUME claim', ~leaked'
             PROVE  \E k \in Ids' : Owns(jobs'[k])
  BY DEF ClaimHasOwner, Owns, At
<1>1. PICK k \in Ids : Owns(jobs[k])
  BY DEF ClaimHasOwner, Owns, At
<1>2. CASE k = i
  BY <1>1, <1>2
<1>3. CASE k # i
  BY <1>1, <1>3 DEF Others
<1> QED BY <1>2, <1>3

LEMMA HasJobStays ==
    ASSUME JobsStay, NEW c, HasJob(c)
    PROVE  HasJob(c)'
BY DEF JobsStay, HasJob

LEMMA CoverStep ==
    ASSUME Undisturbed, JobsStay, NEW i, Others(i), Quiet' => Quiet, added \subseteq added',
           Quiet => \A k \in Ids' : k \notin Ids \/ k = i => Covered(jobs[k])',
           Quiet => \A c \in Fresh' : meta'[c].there =>
              \/ meta[c].there \/ HasJob(c)'
              \/ \E k \in Ids' : At(k, "manga", "saved")' /\ jobs'[k].ch = c,
           i \in Ids /\ At(i, "manga", "saved") => \A c \in {jobs[i].ch} : HasJob(c)'
    PROVE  Undisturbed'
<1> SUFFICES ASSUME Quiet
             PROVE  /\ \A k \in Ids' : Covered(jobs[k])'
                    /\ \A c \in Fresh' : meta'[c].there =>
                          \/ HasJob(c)'
                          \/ \E k \in Ids' : At(k, "manga", "saved")' /\ jobs'[k].ch = c
  BY DEF Undisturbed, Quiet, HasMeta
<1>1. /\ \A k \in Ids : Covered(jobs[k])
      /\ \A c \in Fresh : meta[c].there =>
            HasJob(c) \/ \E k \in Ids : At(k, "manga", "saved") /\ jobs[k].ch = c
  BY DEF Undisturbed, Quiet, HasMeta
<1>2. ASSUME NEW k \in Ids'
      PROVE  Covered(jobs[k])'
  <2>1. CASE k \notin Ids \/ k = i
    BY <2>1
  <2>2. CASE k \in Ids /\ k # i
    <3>1. jobs'[k] = jobs[k] /\ Covered(jobs[k])
      BY <1>1, <2>2 DEF Others
    <3>2. \A c : HasJob(c) => HasJob(c)'
      BY HasJobStays
    <3>3. Fresh' \subseteq Fresh
      BY DEF Fresh
    <3> QED BY <3>1, <3>2, <3>3 DEF Covered
  <2> QED BY <2>1, <2>2
<1>3. ASSUME NEW c \in Fresh', meta'[c].there
      PROVE  \/ HasJob(c)'
             \/ \E k \in Ids' : At(k, "manga", "saved")' /\ jobs'[k].ch = c
  <2>1. CASE meta[c].there /\ HasJob(c)
    BY <2>1, HasJobStays
  <2>2. CASE meta[c].there /\ \E k \in Ids : At(k, "manga", "saved") /\ jobs[k].ch = c
    <3>1. PICK k \in Ids : At(k, "manga", "saved") /\ jobs[k].ch = c
      BY <2>2
    <3>2. CASE k = i
      BY <3>1, <3>2
    <3>3. CASE k # i
      BY <3>1, <3>3 DEF Others, JobsStay, At
    <3> QED BY <3>2, <3>3
  <2>3. c \in Fresh
    BY DEF Fresh
  <2> QED BY <1>1, <1>3, <2>1, <2>2, <2>3
<1> QED BY <1>2, <1>3

\* Nothing is asked of the jobs of other kinds but that a page has its chapter.
LEMMA CoverOther ==
    ASSUME Undisturbed, Quiet, JobsStay, NEW i \in Ids, jobs[i].kind # "manga"
    PROVE  Covered(jobs[i])'
<1>1. Covered(jobs[i]) /\ jobs'[i].kind = jobs[i].kind
  BY DEF Undisturbed, Quiet, JobsStay
<1>2. jobs[i].kind = "page" => jobs'[i].ch = jobs[i].ch /\ HasJob(jobs[i].ch)
  BY <1>1 DEF Covered, JobsStay
<1>3. \A c : HasJob(c) => HasJob(c)'
  BY HasJobStays
<1> QED BY <1>1, <1>2, <1>3 DEF Covered

\* How the table changes when job i goes on as j, and when it has a child.
LEMMA Moved ==
    ASSUME Pipeline, NEW i \in Ids, NEW j \in JobTypes, jobs' = [jobs EXCEPT ![i] = j],
           j.kind = jobs[i].kind, jobs[i].kind \in {"chapter", "page"} => j.ch = jobs[i].ch
    PROVE  Ids' = Ids /\ jobs'[i] = j /\ Others(i) /\ JobsStay
<1>1. Ids' = Ids /\ jobs'[i] = j /\ \A k \in Ids \ {i} : jobs'[k] = jobs[k]
  BY ChangeJob DEF Pipeline, TypeOK, Ids
<1> QED BY <1>1 DEF Others, JobsStay

LEMMA Spawned ==
    ASSUME Pipeline, NEW i \in Ids, NEW j \in JobTypes, NEW child \in JobTypes,
           WithChild(i, j, child),
           j.kind = jobs[i].kind, jobs[i].kind \in {"chapter", "page"} => j.ch = jobs[i].ch
    PROVE  \E n : /\ Ids' = Ids \cup {n} /\ n \notin Ids /\ jobs'[n] = child
                  /\ jobs'[i] = j /\ Others(i) /\ JobsStay
<1> DEFINE s == [jobs EXCEPT ![i] = j]
           n == Len(jobs) + 1
<1>1. /\ s \in Seq(JobTypes) /\ DOMAIN s = Ids /\ s[i] = j /\ Len(s) = Len(jobs)
      /\ \A k \in Ids \ {i} : s[k] = jobs[k]
  BY ChangeJob DEF Pipeline, TypeOK
<1>2. jobs' = Append(s, child)
  BY DEF WithChild
<1> HIDE DEF s
<1>3. /\ Append(s, child) \in Seq(JobTypes)
      /\ DOMAIN Append(s, child) = DOMAIN s \cup {Len(s) + 1}
      /\ Len(s) + 1 \notin DOMAIN s
      /\ Append(s, child)[Len(s) + 1] = child
      /\ \A k \in DOMAIN s : Append(s, child)[k] = s[k]
  BY <1>1, AddJob
<1>4. Ids' = DOMAIN jobs'
  BY DEF Ids
<1>5. /\ Ids' = Ids \cup {n} /\ n \notin Ids /\ jobs'[n] = child
      /\ jobs'[i] = j /\ \A k \in Ids \ {i} : jobs'[k] = jobs[k]
  BY <1>1, <1>2, <1>3, <1>4
<1> HIDE DEF n
<1>6. Others(i) /\ JobsStay
  BY <1>5 DEF Others, JobsStay
<1> QED BY <1>5, <1>6

\* A step of pull_chapter, pull_page or pull_cover, or its end.
LEMMA OtherGoesOn ==
    ASSUME Pipeline, ClaimHasOwner, Undisturbed, NEW i \in Ids, jobs[i].kind # "manga",
           NEW j \in JobTypes, jobs' = [jobs EXCEPT ![i] = j],
           j.kind = jobs[i].kind, j.ch = jobs[i].ch, Quiet' => Quiet, UNCHANGED added,
           \A c \in Chapters : meta'[c].there => meta[c].there \/ (jobs[i].kind = "page" /\ c = jobs[i].ch),
           claim' => claim, claim' /\ leaked => leaked',
           jobs[i].kind = "cover" => j.pc # "idle" \/ ~claim' \/ leaked'
    PROVE  ClaimHasOwner' /\ Undisturbed'
<1>1. Ids' = Ids /\ jobs'[i] = j /\ Others(i) /\ JobsStay
  BY Moved
<1>2. ClaimHasOwner'
  <2>1. Ids \subseteq Ids'
    BY <1>1
  <2>2. Owns(jobs[i]) /\ claim' => leaked' \/ Owns(jobs'[i])
    BY <1>1 DEF Owns
  <2> QED BY <1>1, <2>1, <2>2, OwnerStep
<1>3. Undisturbed'
  <2>1. ASSUME Quiet
        PROVE  \A k \in Ids' : k \notin Ids \/ k = i => Covered(jobs[k])'
    BY <1>1, <2>1, CoverOther
  <2>2. ASSUME Quiet, NEW c \in Fresh', meta'[c].there
        PROVE  meta[c].there \/ HasJob(c)'
    <3>1. CASE jobs[i].kind = "page" /\ c = jobs[i].ch
      <4>1. HasJob(c)
        BY <2>2, <3>1 DEF Undisturbed, Quiet, Covered
      <4> QED BY <1>1, <4>1, HasJobStays
    <3> QED BY <2>2, <3>1 DEF Fresh
  <2> QED BY <1>1, <2>1, <2>2, CoverStep DEF At
<1> QED BY <1>2, <1>3

LEMMA OthersGoOn ==
    ASSUME Pipeline, ClaimHasOwner, Undisturbed, NEW i \in Ids,
           \/ SaveChapterPages(i) \/ PullChapterDone(i)
           \/ DownloadPage(i) \/ GetChapter(i) \/ StampChapter(i)
           \/ DownloadCover(i) \/ ReleaseCoverClaim(i)
    PROVE  ClaimHasOwner' /\ Undisturbed'
<1>1. /\ jobs[i] \in JobTypes /\ Placed(jobs[i]) /\ jobs \in Seq(JobTypes)
      /\ meta \in [Chapters -> MetaTypes]
  BY JobsTyped DEF Pipeline, TypeOK, Sound
<1>2. jobs[i].kind # "manga" /\ UNCHANGED <<spent, added>>
  BY DEF SaveChapterPages, PullChapterDone, DownloadPage, GetChapter, StampChapter, DownloadCover,
         ReleaseCoverClaim, At
<1>3. Quiet' => Quiet
  BY <1>2 DEF Quiet
<1>4. \A c \in Chapters : meta'[c].there => meta[c].there \/ (jobs[i].kind = "page" /\ c = jobs[i].ch)
  <2>1. CASE SaveChapterPages(i)
    <3>1. jobs[i].ch \in Chapters
      BY <1>1, <2>1 DEF Placed, SaveChapterPages, At
    <3> DEFINE m == [meta[jobs[i].ch] EXCEPT !.paged = TRUE]
    <3>2. m.there = meta[jobs[i].ch].there
      BY <1>1, <3>1 DEF MetaTypes
    <3>3. meta' = IF HasMeta(jobs[i].ch) THEN [meta EXCEPT ![jobs[i].ch] = m] ELSE meta
      BY <1>1, <2>1, <3>1 DEF SaveChapterPages
    <3> HIDE DEF m
    <3> QED BY <1>1, <3>1, <3>2, <3>3
  <2>2. CASE StampChapter(i)
    BY <1>1, <2>2 DEF StampChapter, At
  <2>3. CASE ~SaveChapterPages(i) /\ ~StampChapter(i)
    BY <2>3 DEF PullChapterDone, DownloadPage, GetChapter, DownloadCover, ReleaseCoverClaim, disk
  <2> QED BY <2>1, <2>2, <2>3
<1>5. (claim' => claim) /\ (claim' /\ leaked => leaked')
  BY DEF SaveChapterPages, PullChapterDone, DownloadPage, GetChapter, StampChapter, DownloadCover,
         ReleaseCoverClaim, disk
<1>6. ASSUME NEW r \in {"ok", "transient", "permanent"}, End(i, r),
             jobs[i].kind = "cover" => ~claim'
      PROVE  ClaimHasOwner' /\ Undisturbed'
  <2> DEFINE j == Ended(jobs[i], r)
  <2>1. j \in JobTypes /\ j.kind = jobs[i].kind /\ j.ch = jobs[i].ch
    BY <1>1, EndedTyped
  <2>2. jobs' = [jobs EXCEPT ![i] = j]
    BY <1>6 DEF End
  <2> HIDE DEF j
  <2> QED BY <1>2, <1>3, <1>4, <1>5, <1>6, <2>1, <2>2, OtherGoesOn
<1>7. CASE PullChapterDone(i)
  BY <1>6, <1>7 DEF PullChapterDone, At
<1>8. CASE StampChapter(i)
  BY <1>6, <1>8 DEF StampChapter, At
<1>9. CASE ReleaseCoverClaim(i)
  BY <1>6, <1>9 DEF ReleaseCoverClaim
<1>10. CASE SaveChapterPages(i)
  <2> DEFINE j == [jobs[i] EXCEPT !.pc = "pages", !.todo = Pages]
  <2>1. /\ j \in JobTypes /\ j.kind = jobs[i].kind /\ j.ch = jobs[i].ch /\ j.pc # "idle"
    BY <1>1 DEF JobTypes, Steps
  <2>2. jobs' = [jobs EXCEPT ![i] = j]
    BY <1>1, <1>10 DEF SaveChapterPages
  <2> HIDE DEF j
  <2> QED BY <1>2, <1>3, <1>4, <1>5, <2>1, <2>2, OtherGoesOn
<1>11. ASSUME NEW q \in Steps \ {"idle"}, Goto(i, q)
       PROVE  ClaimHasOwner' /\ Undisturbed'
  <2> DEFINE j == [jobs[i] EXCEPT !.pc = q]
  <2>1. /\ j \in JobTypes /\ j.kind = jobs[i].kind /\ j.ch = jobs[i].ch /\ j.pc # "idle"
    BY <1>1 DEF JobTypes
  <2>2. jobs' = [jobs EXCEPT ![i] = j]
    BY <1>1, <1>11 DEF Goto
  <2> HIDE DEF j
  <2> QED BY <1>2, <1>3, <1>4, <1>5, <2>1, <2>2, OtherGoesOn
<1>12. CASE DownloadPage(i)
  BY <1>11, <1>12 DEF DownloadPage, Steps
<1>13. CASE DownloadCover(i)
  BY <1>11, <1>13 DEF DownloadCover, Steps
<1>14. CASE GetChapter(i)
  <2>1. jobs[i].kind = "page" /\ jobs[i].ch \in Chapters
    BY <1>1, <1>14 DEF GetChapter, At, Placed
  <2>2. CASE End(i, "transient")
    BY <1>6, <2>1, <2>2
  <2>3. CASE jobs' = [jobs EXCEPT ![i].pc = "stamp", ![i].metaCopy = meta[jobs[i].ch]]
    <3> DEFINE j == [jobs[i] EXCEPT !.pc = "stamp", !.metaCopy = meta[jobs[i].ch]]
    <3>1. j \in JobTypes /\ j.kind = jobs[i].kind /\ j.ch = jobs[i].ch /\ j.pc # "idle"
      BY <1>1, <2>1 DEF JobTypes, Steps
    <3>2. jobs' = [jobs EXCEPT ![i] = j]
      BY <1>1, <2>3
    <3> HIDE DEF j
    <3> QED BY <1>2, <1>3, <1>4, <1>5, <3>1, <3>2, OtherGoesOn
  <2> QED BY <1>14, <2>2, <2>3 DEF GetChapter
<1> QED BY <1>7, <1>8, <1>9, <1>10, <1>12, <1>13, <1>14

\* A step of pull_manga other than saving a chapter or enqueueing a child.
LEMMA MangaGoesOn ==
    ASSUME Pipeline, ClaimHasOwner, Undisturbed, NEW i \in Ids, jobs[i].kind = "manga",
           NEW j \in JobTypes, jobs' = [jobs EXCEPT ![i] = j],
           j.kind = "manga", Quiet' => Quiet, UNCHANGED <<meta, added>>, jobs[i].pc # "saved",
           Quiet => Covered(j),
           claim /\ leaked => leaked',
           \/ claim' = claim /\ jobs[i].pc # "claimed"
           \/ claim' /\ j.pc = "claimed"
           \/ ~claim'
    PROVE  ClaimHasOwner' /\ Undisturbed'
<1>1. Ids' = Ids /\ jobs'[i] = j /\ Others(i) /\ JobsStay
  BY Moved
<1>2. ClaimHasOwner'
  <2>1. CASE claim' = claim /\ jobs[i].pc # "claimed"
    <3>1. Ids \subseteq Ids' /\ ~Owns(jobs[i])
      BY <1>1, <2>1 DEF Owns
    <3> QED BY <1>1, <2>1, <3>1, OwnerStep
  <2>2. CASE claim' /\ j.pc = "claimed"
    BY <1>1, <2>2 DEF ClaimHasOwner, At
  <2>3. CASE ~claim'
    BY <2>3 DEF ClaimHasOwner
  <2> QED BY <2>1, <2>2, <2>3
<1>3. Undisturbed'
  <2>1. ASSUME Quiet
        PROVE  \A k \in Ids' : k \notin Ids \/ k = i => Covered(jobs[k])'
    <3>1. \A c : HasJob(c) => HasJob(c)'
      BY <1>1, HasJobStays
    <3> QED BY <1>1, <2>1, <3>1 DEF Covered, Fresh
  <2>2. ~At(i, "manga", "saved")
    BY DEF At
  <2> QED BY <1>1, <2>1, <2>2, CoverStep DEF Fresh
<1> QED BY <1>2, <1>3

LEMMA MangaOnward ==
    ASSUME Pipeline, ClaimHasOwner, Undisturbed, NEW i \in Ids,
           ListChapters(i) \/ ClaimCover(i) \/ GetBindings(i) \/ SaveBindings(i)
    PROVE  ClaimHasOwner' /\ Undisturbed'
<1>1. /\ jobs[i] \in JobTypes /\ Placed(jobs[i]) /\ jobs \in Seq(JobTypes)
      /\ jobs[i].kind = "manga" /\ (Quiet => Covered(jobs[i]))
  BY JobsTyped DEF Pipeline, TypeOK, Sound, ListChapters, ClaimCover, GetBindings, SaveBindings, At,
                   Quiet, Undisturbed
<1>2. UNCHANGED <<meta, added, spent, leaked>> /\ (Quiet' => Quiet) /\ jobs[i].pc \notin {"saved", "claimed"}
  BY DEF ListChapters, ClaimCover, GetBindings, SaveBindings, disk, At, Quiet
<1>3. CASE ListChapters(i)
  <2> DEFINE j == [jobs[i] EXCEPT !.pc = "chapters", !.todo = Missing]
  <2>1. /\ j \in JobTypes /\ j.pc = "chapters" /\ j.todo = Missing /\ j.kind = "manga"
        /\ j.st = jobs[i].st
    BY <1>1 DEF JobTypes, Steps, Missing
  <2>2. jobs' = [jobs EXCEPT ![i] = j] /\ lock = 0 /\ claim' = claim
    BY <1>1, <1>3 DEF ListChapters, disk
  <2> HIDE DEF j
  <2>3. Quiet => Covered(j)
    <3>1. 0 \notin Ids
      BY <1>1 DEF Ids
    <3>2. \A k \in Ids : jobs[k].pc # "saved"
      BY <2>2, <3>1 DEF Pipeline, TypeOK, Inside
    <3>3. Quiet => \A c \in Fresh : HasJob(c) \/ c \in Missing
      BY <3>2 DEF Undisturbed, Quiet, Missing, At, Fresh
    <3> QED BY <1>1, <2>1, <3>3 DEF Covered
  <2> QED BY <1>1, <1>2, <2>1, <2>2, <2>3, MangaGoesOn
<1>4. CASE ClaimCover(i)
  <2>1. PICK q \in {"claimed", "bindings"} :
           /\ jobs' = [jobs EXCEPT ![i].pc = q]
           /\ q = "claimed" => claim'
           /\ q = "bindings" => claim' = claim
    BY <1>4, PullAssumption DEF ClaimCover, Goto, Pipeline, TypeOK
  <2> DEFINE j == [jobs[i] EXCEPT !.pc = q]
  <2>2. j \in JobTypes /\ j.pc = q /\ j.kind = "manga" /\ j.st = jobs[i].st
    BY <1>1 DEF JobTypes, Steps
  <2>3. jobs' = [jobs EXCEPT ![i] = j]
    BY <1>1, <2>1
  <2> HIDE DEF j
  <2>4. Quiet => Covered(j)
    BY <1>1, <1>4, <2>2 DEF Covered, ClaimCover, At
  <2>5. \/ claim' = claim /\ jobs[i].pc # "claimed"
        \/ claim' /\ j.pc = "claimed"
    BY <1>2, <2>1, <2>2
  <2> QED BY <1>1, <1>2, <2>2, <2>3, <2>4, <2>5, MangaGoesOn
<1>5. ASSUME End(i, "ok"), claim' = claim, jobs[i].pc \in {"bindings", "stamp"}
      PROVE  ClaimHasOwner' /\ Undisturbed'
  <2> DEFINE j == Ended(jobs[i], "ok")
  <2>1. j \in JobTypes /\ j.kind = "manga" /\ j.pc = "idle"
    BY <1>1, EndedTyped
  <2>2. jobs' = [jobs EXCEPT ![i] = j]
    BY <1>5 DEF End
  <2> HIDE DEF j
  <2>3. Quiet => Covered(j)
    BY <1>1, <1>5, <2>1 DEF Covered
  <2> QED BY <1>1, <1>2, <1>5, <2>1, <2>2, <2>3, MangaGoesOn
<1>6. CASE GetBindings(i)
  <2>1. claim' = claim /\ jobs[i].pc = "bindings"
    BY <1>6 DEF GetBindings, disk, At
  <2>2. CASE End(i, "ok")
    BY <1>5, <2>1, <2>2
  <2>3. CASE jobs' = [jobs EXCEPT ![i].pc = "stamp", ![i].bindCopy = bindings]
    <3> DEFINE j == [jobs[i] EXCEPT !.pc = "stamp", !.bindCopy = bindings]
    <3>1. j \in JobTypes /\ j.pc = "stamp" /\ j.kind = "manga" /\ j.st = jobs[i].st
      BY <1>1 DEF JobTypes, Steps, Pipeline, TypeOK
    <3>2. jobs' = [jobs EXCEPT ![i] = j]
      BY <1>1, <2>3
    <3> HIDE DEF j
    <3>3. Quiet => Covered(j)
      BY <1>1, <2>1, <3>1 DEF Covered
    <3> QED BY <1>1, <1>2, <2>1, <3>1, <3>2, <3>3, MangaGoesOn
  <2> QED BY <1>6, <2>2, <2>3 DEF GetBindings
<1>7. CASE SaveBindings(i)
  BY <1>5, <1>7 DEF SaveBindings, At
<1> QED BY <1>3, <1>4, <1>6, <1>7

LEMMA ClaimOnward ==
    ASSUME Pipeline, ClaimHasOwner, Undisturbed, NEW i \in Ids, Claim(i)
    PROVE  ClaimHasOwner' /\ Undisturbed'
<1> DEFINE j == [jobs[i] EXCEPT !.st = "running", !.pc = "fetch"]
<1>1. /\ jobs[i] \in JobTypes /\ jobs \in Seq(JobTypes) /\ jobs[i].pc = "idle"
  BY JobsTyped DEF Pipeline, TypeOK, Claim
<1>2. /\ j \in JobTypes /\ j.pc = "fetch" /\ j.st = "running"
      /\ j.kind = jobs[i].kind /\ j.ch = jobs[i].ch
  BY <1>1 DEF JobTypes, Steps
<1>3. jobs' = [jobs EXCEPT ![i] = j] /\ UNCHANGED <<meta, added, claim, leaked, spent>>
  BY <1>1 DEF Claim, disk
<1> HIDE DEF j
<1>4. Quiet' => Quiet
  BY <1>3 DEF Quiet
<1>5. CASE jobs[i].kind = "manga"
  <2>1. Covered(j)
    BY <1>2, <1>5 DEF Covered
  <2> QED BY <1>1, <1>2, <1>3, <1>4, <1>5, <2>1, MangaGoesOn
<1>6. CASE jobs[i].kind # "manga"
  BY <1>2, <1>3, <1>4, <1>6, OtherGoesOn
<1> QED BY <1>5, <1>6

LEMMA FetchFailsOnward ==
    ASSUME Pipeline, ClaimHasOwner, Undisturbed, NEW i \in Ids,
           NEW r \in {"transient", "permanent"}, FetchFails(i, r)
    PROVE  ClaimHasOwner' /\ Undisturbed'
<1> DEFINE j == Ended(jobs[i], r)
<1>1. /\ jobs[i] \in JobTypes /\ Placed(jobs[i]) /\ (Quiet => Covered(jobs[i]))
      /\ spent \in [pulls : Nat, ops : Nat, fetches : Nat, faults : Nat, crashes : Nat]
  BY JobsTyped DEF Pipeline, TypeOK, Sound, Quiet, Undisturbed
<1>2. /\ j \in JobTypes /\ j.pc = "idle" /\ j.kind = jobs[i].kind /\ j.ch = jobs[i].ch
      /\ j.st = "done" => jobs[i].st = "done"
  BY <1>1, EndedTyped
<1>3. /\ jobs' = [jobs EXCEPT ![i] = j] /\ UNCHANGED <<meta, added>> /\ jobs[i].pc = "fetch"
      /\ spent' = [spent EXCEPT !["fetches"] = spent.fetches + 1]
  BY DEF FetchFails, Spend, End
<1> HIDE DEF j
<1>4. Quiet' => Quiet
  BY <1>1, <1>3 DEF Quiet
<1>5. CASE jobs[i].kind = "manga"
  <2>1. Quiet => Covered(j)
    BY <1>1, <1>2, <1>5 DEF Covered
  <2>2. claim' = claim /\ leaked' = leaked
    BY <1>5 DEF FetchFails
  <2> QED BY <1>2, <1>3, <1>4, <1>5, <2>1, <2>2, MangaGoesOn
<1>6. CASE jobs[i].kind # "manga"
  <2>1. /\ jobs[i].kind = "cover" => ~claim'
        /\ jobs[i].kind # "cover" => claim' = claim /\ leaked' = leaked
    BY DEF FetchFails
  <2>2. (claim' => claim) /\ (claim' /\ leaked => leaked')
    BY DEF FetchFails
  <2>3. j.kind = jobs[i].kind /\ j.ch = jobs[i].ch /\ (jobs[i].kind = "cover" => ~claim')
    BY <1>2, <2>1
  <2> QED BY <1>2, <1>3, <1>4, <1>6, <2>2, <2>3, OtherGoesOn
<1> QED BY <1>5, <1>6

LEMMA SaveChapterOnward ==
    ASSUME Pipeline, ClaimHasOwner, Undisturbed, NEW i \in Ids, SaveChapter(i)
    PROVE  ClaimHasOwner' /\ Undisturbed'
<1>1. PICK c \in jobs[i].todo : /\ meta' = [meta EXCEPT ![c] = NewMeta]
                                /\ jobs' = [jobs EXCEPT ![i].pc = "saved", ![i].ch = c]
  BY DEF SaveChapter
<1> DEFINE j == [jobs[i] EXCEPT !.pc = "saved", !.ch = c]
<1>2. /\ jobs[i] \in JobTypes /\ Placed(jobs[i]) /\ (Quiet => Covered(jobs[i]))
      /\ jobs \in Seq(JobTypes) /\ meta \in [Chapters -> MetaTypes]
  BY JobsTyped DEF Pipeline, TypeOK, Sound, Quiet, Undisturbed
<1>3. /\ jobs[i].kind = "manga" /\ jobs[i].pc = "chapters" /\ c \in Chapters
      /\ UNCHANGED <<claim, spent, leaked, added>>
  BY <1>2 DEF SaveChapter, At, Placed
<1>4. /\ j \in JobTypes /\ j.pc = "saved" /\ j.todo = jobs[i].todo /\ j.ch = c
      /\ j.kind = "manga" /\ j.st = jobs[i].st
  BY <1>2, <1>3 DEF JobTypes, Steps
<1>5. jobs' = [jobs EXCEPT ![i] = j]
  BY <1>1, <1>2
<1> HIDE DEF j
<1>6. Ids' = Ids /\ jobs'[i] = j /\ Others(i) /\ JobsStay
  BY <1>3, <1>4, <1>5, Moved
<1>7. ClaimHasOwner'
  <2>1. Ids \subseteq Ids' /\ ~Owns(jobs[i])
    BY <1>3, <1>6 DEF Owns
  <2> QED BY <1>3, <1>6, <2>1, OwnerStep
<1>8. Undisturbed'
  <2>1. ASSUME Quiet
        PROVE  \A k \in Ids' : k \notin Ids \/ k = i => Covered(jobs[k])'
    <3>1. \A d : HasJob(d) => HasJob(d)'
      BY <1>6, HasJobStays
    <3>2. Covered(jobs[i]) /\ jobs'[i] = j
      BY <1>2, <1>6, <2>1
    <3>3. Covered(jobs[i])'
      BY <1>3, <1>4, <3>1, <3>2 DEF Covered, Fresh
    <3> QED BY <1>6, <3>3
  <2>2. ASSUME NEW d \in Fresh', meta'[d].there
        PROVE  meta[d].there \/ (At(i, "manga", "saved")' /\ jobs'[i].ch = d)
    <3>1. CASE d = c
      BY <1>4, <1>6, <3>1 DEF At
    <3>2. CASE d # c
      BY <1>1, <1>2, <2>2, <3>2 DEF Fresh
    <3> QED BY <3>1, <3>2
  <2>3. ~At(i, "manga", "saved") /\ (Quiet' => Quiet)
    BY <1>3 DEF At, Quiet
  <2> QED BY <1>3, <1>6, <2>1, <2>2, <2>3, CoverStep
<1> QED BY <1>7, <1>8

LEMMA SpawnOnward ==
    ASSUME Pipeline, ClaimHasOwner, Undisturbed, NEW i \in Ids,
           EnqueuePullChapter(i) \/ EnqueuePullCover(i) \/ EnqueuePullPage(i)
    PROVE  ClaimHasOwner' /\ Undisturbed'
<1>1. /\ jobs[i] \in JobTypes /\ Placed(jobs[i]) /\ (Quiet => Covered(jobs[i]))
      /\ jobs \in Seq(JobTypes) /\ i \in Nat
  BY JobsTyped DEF Pipeline, TypeOK, Sound, Quiet, Undisturbed
<1>2. UNCHANGED <<meta, added, spent, claim, leaked>> /\ (Quiet' => Quiet)
  BY DEF EnqueuePullChapter, EnqueuePullCover, EnqueuePullPage, disk, Quiet
<1>3. CASE EnqueuePullChapter(i)
  <2> DEFINE j == [jobs[i] EXCEPT !.pc = "chapters", !.todo = @ \ {jobs[i].ch}, !.ch = None]
             child == NewJob("chapter", jobs[i].ch, None, i)
  <2>1. /\ j \in JobTypes /\ j.pc = "chapters" /\ j.todo = jobs[i].todo \ {jobs[i].ch}
        /\ j.kind = jobs[i].kind /\ j.st = jobs[i].st
    BY <1>1 DEF JobTypes, Steps
  <2>2. jobs[i].kind = "manga" /\ jobs[i].pc = "saved" /\ WithChild(i, j, child)
    BY <1>3 DEF EnqueuePullChapter, At
  <2>3. child \in JobTypes /\ child.kind = "chapter" /\ child.ch = jobs[i].ch
    <3>1. /\ jobs[i].ch \in Chapters \cup {None} /\ None \in Pages \cup {None} /\ "chapter" \in Kinds
          /\ i \in Nat
      BY <1>1 DEF JobTypes, Kinds
    <3>2. \A c \in Chapters \cup {None} :
             /\ NewJob("chapter", c, None, i) \in JobTypes
             /\ NewJob("chapter", c, None, i).kind = "chapter"
             /\ NewJob("chapter", c, None, i).ch = c
      BY <3>1, NewJobTyped
    <3> QED BY <3>1, <3>2
  <2> HIDE DEF j, child
  <2>4. PICK n : /\ Ids' = Ids \cup {n} /\ n \notin Ids /\ jobs'[n] = child
                 /\ jobs'[i] = j /\ Others(i) /\ JobsStay
    BY <2>1, <2>2, <2>3, Spawned
  <2>5. ClaimHasOwner'
    <3>1. Ids \subseteq Ids' /\ ~Owns(jobs[i])
      BY <2>2, <2>4 DEF Owns
    <3> QED BY <1>2, <2>4, <3>1, OwnerStep
  <2>6. \A c \in {jobs[i].ch} : HasJob(c)'
    BY <2>3, <2>4 DEF HasJob
  <2>7. ASSUME Quiet
        PROVE  \A k \in Ids' : k \notin Ids \/ k = i => Covered(jobs[k])'
    <3>1. \A d : HasJob(d) => HasJob(d)'
      BY <2>4, HasJobStays
    <3>2. Covered(jobs[i]) /\ jobs'[i] = j /\ jobs'[n] = child
      BY <1>1, <2>4, <2>7
    <3>3. Covered(jobs[i])'
      BY <1>2, <2>1, <2>2, <2>6, <3>1, <3>2 DEF Covered, Fresh
    <3>4. Covered(jobs[n])'
      BY <2>3, <3>2 DEF Covered
    <3> QED BY <2>4, <3>3, <3>4
  <2>8. Undisturbed'
    BY <1>2, <2>4, <2>6, <2>7, CoverStep DEF Fresh
  <2> QED BY <2>5, <2>8
<1>4. CASE EnqueuePullCover(i)
  <2> DEFINE j == [jobs[i] EXCEPT !.pc = "bindings"]
             child == NewJob("cover", None, None, i)
  <2>1. /\ j \in JobTypes /\ j.pc = "bindings" /\ j.kind = jobs[i].kind /\ j.st = jobs[i].st
    BY <1>1 DEF JobTypes, Steps
  <2>2. jobs[i].kind = "manga" /\ jobs[i].pc = "claimed" /\ WithChild(i, j, child)
    BY <1>4 DEF EnqueuePullCover, At
  <2>3. child \in JobTypes /\ child.kind = "cover" /\ child.st = "pending"
    <3>1. child \in ChildOf(i)
      BY <2>2 DEF ChildOf
    <3>2. child.kind = "cover" /\ child.st = "pending"
      BY DEF NewJob
    <3> QED BY <3>1, <3>2, ChildSound
  <2> HIDE DEF j, child
  <2>4. PICK n : /\ Ids' = Ids \cup {n} /\ n \notin Ids /\ jobs'[n] = child
                 /\ jobs'[i] = j /\ Others(i) /\ JobsStay
    BY <2>1, <2>2, <2>3, Spawned
  <2>5. ClaimHasOwner'
    BY <2>3, <2>4 DEF ClaimHasOwner
  <2>6. ASSUME Quiet
        PROVE  \A k \in Ids' : k \notin Ids \/ k = i => Covered(jobs[k])'
    <3>1. \A d : HasJob(d) => HasJob(d)'
      BY <2>4, HasJobStays
    <3>2. Covered(jobs[i]) /\ jobs'[i] = j /\ jobs'[n] = child
      BY <1>1, <2>4, <2>6
    <3>3. Covered(jobs[i])'
      BY <1>2, <2>1, <2>2, <3>1, <3>2 DEF Covered, Fresh
    <3>4. Covered(jobs[n])'
      BY <2>3, <3>2 DEF Covered
    <3> QED BY <2>4, <3>3, <3>4
  <2>7. ~At(i, "manga", "saved")
    BY <2>2 DEF At
  <2>8. Undisturbed'
    BY <1>2, <2>4, <2>6, <2>7, CoverStep DEF Fresh
  <2> QED BY <2>5, <2>8
<1>5. CASE EnqueuePullPage(i)
  <2>1. PICK p \in jobs[i].todo : WithChild(i, [jobs[i] EXCEPT !.todo = @ \ {p}],
                                            NewJob("page", jobs[i].ch, p, i))
    BY <1>5 DEF EnqueuePullPage
  <2> DEFINE j == [jobs[i] EXCEPT !.todo = @ \ {p}]
             child == NewJob("page", jobs[i].ch, p, i)
  <2>2. /\ j \in JobTypes /\ j.kind = jobs[i].kind /\ j.ch = jobs[i].ch
    BY <1>1 DEF JobTypes, Steps
  <2>3. jobs[i].kind = "chapter" /\ jobs[i].pc = "pages" /\ WithChild(i, j, child)
    BY <1>5, <2>1 DEF EnqueuePullPage, At
  <2>4. child \in JobTypes /\ child.kind = "page" /\ child.ch = jobs[i].ch
    <3>1. child \in ChildOf(i)
      BY <2>3 DEF ChildOf
    <3>2. child.kind = "page" /\ child.ch = jobs[i].ch
      BY DEF NewJob
    <3> QED BY <3>1, <3>2, ChildSound
  <2> HIDE DEF j, child
  <2>5. PICK n : /\ Ids' = Ids \cup {n} /\ n \notin Ids /\ jobs'[n] = child
                 /\ jobs'[i] = j /\ Others(i) /\ JobsStay
    BY <2>2, <2>3, <2>4, Spawned
  <2>6. ClaimHasOwner'
    <3>1. Ids \subseteq Ids' /\ ~Owns(jobs[i])
      BY <2>3, <2>5 DEF Owns
    <3> QED BY <1>2, <2>5, <3>1, OwnerStep
  <2>7. ASSUME Quiet
        PROVE  \A k \in Ids' : k \notin Ids \/ k = i => Covered(jobs[k])'
    <3>1. jobs'[i] = j /\ jobs'[n] = child /\ i \in Ids'
      BY <2>5
    <3>2. Covered(jobs[i])'
      BY <2>2, <2>3, <3>1 DEF Covered
    <3>3. Covered(jobs[n])'
      BY <2>2, <2>3, <2>4, <3>1 DEF Covered, HasJob
    <3> QED BY <2>5, <3>2, <3>3
  <2>8. ~At(i, "manga", "saved")
    BY <2>3 DEF At
  <2>9. Undisturbed'
    BY <1>2, <2>5, <2>7, <2>8, CoverStep DEF Fresh
  <2> QED BY <2>6, <2>9
<1> QED BY <1>3, <1>4, <1>5

\* A storage error: pull_manga gives up its claim when the child cannot be
\* enqueued, and a claim that cannot be removed has lost its owner.
LEMMA FaultOnward ==
    ASSUME Pipeline, ClaimHasOwner, NEW i \in Ids, EnqueueChildFails(i) \/ LibraryFails(i)
    PROVE  ClaimHasOwner' /\ Undisturbed'
<1>1. /\ jobs[i] \in JobTypes /\ Placed(jobs[i])
      /\ spent \in [pulls : Nat, ops : Nat, fetches : Nat, faults : Nat, crashes : Nat]
  BY JobsTyped DEF Pipeline, TypeOK, Sound
<1>2. Undisturbed'
  <2>1. spent' = [spent EXCEPT !["faults"] = spent.faults + 1]
    BY DEF EnqueueChildFails, LibraryFails, Spend
  <2>2. spent'.faults # 0
    BY <1>1, <2>1
  <2> QED BY <2>2 DEF Undisturbed
<1>3. CASE LibraryFails(i)
  <2> DEFINE r == IF WithCover /\ jobs[i].pc = "chapters" /\ jobs[i].todo = {}
                  THEN "permanent" ELSE "transient"
             j == Ended(jobs[i], r)
  <2>1. j \in JobTypes /\ j.kind = jobs[i].kind /\ j.ch = jobs[i].ch
    BY <1>1, EndedTyped
  <2>2. /\ jobs' = [jobs EXCEPT ![i] = j] /\ claim' = claim
        /\ leaked' = (leaked \/ (claim /\ jobs[i].pc = "release"))
        /\ jobs[i].pc \in {"chapters", "bindings", "stamp", "downloaded", "release"}
    BY <1>3 DEF LibraryFails, End, disk
  <2> HIDE DEF j, r
  <2>3. Ids' = Ids /\ Others(i)
    BY <2>1, <2>2, Moved
  <2>4. Owns(jobs[i]) => jobs[i].pc = "release"
    BY <1>1, <2>2 DEF Owns, Placed, StepsOf
  <2> QED BY <1>2, <2>2, <2>3, <2>4, OwnerStep
<1>4. CASE EnqueueChildFails(i)
  <2> DEFINE j == [Ended(jobs[i], "transient") EXCEPT
                      !.ch = IF jobs[i].kind = "manga" THEN None ELSE @]
  <2>1. PICK child \in ChildOf(i) : \/ jobs' = [jobs EXCEPT ![i] = j]
                                    \/ WithChild(i, j, child)
    BY <1>4 DEF EnqueueChildFails
  <2>2. /\ jobs[i].pc = "claimed" => ~claim'
        /\ jobs[i].pc # "claimed" => claim' = claim /\ leaked' = leaked
    BY <1>4 DEF EnqueueChildFails
  <2>3. Ids \subseteq Ids' /\ Others(i)
    <3> DEFINE e == Ended(jobs[i], "transient")
               n == IF jobs[i].kind = "manga" THEN None ELSE e.ch
               d == [e EXCEPT !.ch = n]
    <3>1. e \in JobTypes /\ e.kind = jobs[i].kind /\ e.ch = jobs[i].ch
      BY <1>1, EndedTyped
    <3>2. j = d
      OBVIOUS
    <3> HIDE DEF e, j
    <3>3. n \in Chapters \cup {None} /\ (jobs[i].kind # "manga" => n = jobs[i].ch)
      BY <3>1 DEF JobTypes
    <3> HIDE DEF n
    <3>4. d \in JobTypes /\ d.kind = jobs[i].kind /\ d.ch = n
      BY <3>1, <3>3 DEF JobTypes
    <3> HIDE DEF d
    <3>5. d.kind = jobs[i].kind /\ (jobs[i].kind \in {"chapter", "page"} => d.ch = jobs[i].ch)
      BY <3>3, <3>4
    <3>6. CASE jobs' = [jobs EXCEPT ![i] = d]
      BY <3>4, <3>5, <3>6, Moved
    <3>7. CASE WithChild(i, d, child)
      <4>1. child \in JobTypes
        BY ChildSound
      <4> QED BY <3>4, <3>5, <3>7, <4>1, Spawned
    <3> QED BY <2>1, <3>2, <3>6, <3>7
  <2>4. jobs[i].pc \in {"saved", "claimed", "pages"}
    BY <2>1 DEF ChildOf
  <2>5. Owns(jobs[i]) => jobs[i].pc = "claimed"
    BY <1>1, <2>4 DEF Owns, Placed, StepsOf
  <2>6. CASE jobs[i].pc = "claimed"
    BY <1>2, <2>2, <2>6 DEF ClaimHasOwner
  <2>7. CASE jobs[i].pc # "claimed"
    BY <1>2, <2>2, <2>3, <2>5, <2>7, OwnerStep
  <2> QED BY <2>6, <2>7
<1> QED BY <1>3, <1>4

LEMMA CrashOnward ==
    ASSUME Pipeline, ClaimHasOwner, Crash
    PROVE  ClaimHasOwner' /\ Undisturbed'
<1>1. /\ spent \in [pulls : Nat, ops : Nat, fetches : Nat, faults : Nat, crashes : Nat]
      /\ spent' = [spent EXCEPT !["crashes"] = spent.crashes + 1]
  BY DEF Pipeline, TypeOK, Crash, Spend
<1>2. spent'.crashes # 0
  BY <1>1
<1>3. /\ Ids' = Ids /\ \A k \in Ids \ Working : jobs'[k] = jobs[k]
  BY DEF Crash, Ids, Working
<1>4. /\ claim' = claim
      /\ leaked' = (leaked \/ (claim /\ \E i \in Working : jobs[i].kind \in {"manga", "cover"}))
  BY DEF Crash, disk
<1>5. ClaimHasOwner'
  <2> SUFFICES ASSUME claim, ~leaked'
               PROVE  \E k \in Ids : Owns(jobs'[k])
    BY <1>3, <1>4 DEF ClaimHasOwner, Owns, At
  <2>1. PICK k \in Ids : Owns(jobs[k])
    BY <1>4 DEF ClaimHasOwner, Owns, At
  <2>2. k \notin Working
    BY <1>4, <2>1 DEF Owns
  <2> QED BY <1>3, <2>1, <2>2
<1> QED BY <1>2, <1>5 DEF Undisturbed

LEMMA CancelOnward ==
    ASSUME Pipeline, ClaimHasOwner, Undisturbed, NEW i \in Ids, CancelJob(i)
    PROVE  ClaimHasOwner' /\ Undisturbed'
<1> DEFINE S == {k \in Ids : InTree(k, i) /\ jobs[k].st \in {"pending", "running"}}
<1>1. /\ jobs \in Seq(JobTypes) /\ \A k \in Ids : jobs[k] \in JobTypes
      /\ spent \in [pulls : Nat, ops : Nat, fetches : Nat, faults : Nat, crashes : Nat]
  BY JobsTyped DEF Pipeline, TypeOK
<1>2. /\ jobs' = [k \in Ids |-> IF k \in S THEN [jobs[k] EXCEPT !.st = "cancelled"] ELSE jobs[k]]
      /\ leaked' = (\/ leaked
                    \/ claim /\ \E k \in S : jobs[k].kind = "cover" /\ jobs[k].pc = "idle")
      /\ UNCHANGED <<meta, claim, added>>
      /\ spent' = [spent EXCEPT !["ops"] = spent.ops + 1]
  BY DEF CancelJob, Request, Spend, disk
<1> HIDE DEF S
<1>3. /\ Ids' = Ids
      /\ \A k \in Ids : /\ jobs'[k].kind = jobs[k].kind /\ jobs'[k].ch = jobs[k].ch
                        /\ jobs'[k].pc = jobs[k].pc /\ jobs'[k].todo = jobs[k].todo
                        /\ jobs'[k].st = IF k \in S THEN "cancelled" ELSE jobs[k].st
  BY <1>1, <1>2 DEF Ids, JobTypes
<1>4. ClaimHasOwner'
  <2> SUFFICES ASSUME claim, ~leaked'
               PROVE  \E k \in Ids : Owns(jobs'[k])
    BY <1>2, <1>3 DEF ClaimHasOwner, Owns, At
  <2>1. PICK k \in Ids : Owns(jobs[k])
    BY <1>2 DEF ClaimHasOwner, Owns, At
  <2>2. k \in S => ~(jobs[k].kind = "cover" /\ jobs[k].pc = "idle")
    BY <1>2
  <2> QED BY <1>3, <2>1, <2>2 DEF Owns
<1>5. Undisturbed'
  <2>1. \A c : HasJob(c)' <=> HasJob(c)
    BY <1>3 DEF HasJob
  <2>2. Quiet' => Quiet
    BY <1>1, <1>2 DEF Quiet
  <2>3. ASSUME Quiet
        PROVE  \A k \in Ids : Covered(jobs[k])'
    <3> SUFFICES ASSUME NEW k \in Ids
                 PROVE  Covered(jobs[k])'
      OBVIOUS
    <3>1. Covered(jobs[k])
      BY <2>3 DEF Undisturbed, Quiet
    <3>2. /\ jobs'[k].kind = jobs[k].kind /\ jobs'[k].ch = jobs[k].ch
          /\ jobs'[k].pc = jobs[k].pc /\ jobs'[k].todo = jobs[k].todo
          /\ jobs'[k].st = "done" => jobs[k].st = "done"
      BY <1>3
    <3> QED BY <1>2, <2>1, <3>1, <3>2 DEF Covered, Fresh
  <2>4. ASSUME Quiet, NEW c \in Fresh, meta[c].there
        PROVE  HasJob(c) \/ \E k \in Ids : At(k, "manga", "saved")' /\ jobs'[k].ch = c
    <3>1. HasJob(c) \/ \E k \in Ids : At(k, "manga", "saved") /\ jobs[k].ch = c
      BY <2>4 DEF Undisturbed, Quiet, HasMeta
    <3> QED BY <1>3, <3>1 DEF At
  <2> QED BY <1>2, <1>3, <2>1, <2>2, <2>3, <2>4 DEF Undisturbed, Quiet, HasMeta, Fresh
<1> QED BY <1>4, <1>5

LEMMA RequestsOnward ==
    ASSUME Pipeline, ClaimHasOwner, Undisturbed,
           PullManga \/ \E c \in Chapters : PullChapter(c)
    PROVE  ClaimHasOwner' /\ Undisturbed'
<1>1. /\ jobs \in Seq(JobTypes)
      /\ spent \in [pulls : Nat, ops : Nat, fetches : Nat, faults : Nat, crashes : Nat]
  BY DEF Pipeline, TypeOK
<1>2. UNCHANGED <<meta, added, claim, leaked>> /\ (Quiet' => Quiet)
  <2>1. UNCHANGED <<meta, added, claim, leaked>>
    BY DEF PullManga, PullChapter, disk
  <2>2. \/ spent' = [spent EXCEPT !["pulls"] = spent.pulls + 1]
        \/ spent' = [spent EXCEPT !["ops"] = spent.ops + 1]
    BY DEF PullManga, PullChapter, Request, Spend
  <2> QED BY <1>1, <2>1, <2>2 DEF Quiet
<1>3. PICK child \in JobTypes : /\ jobs' = Append(jobs, child)
                                /\ child.kind \in {"manga", "chapter"} /\ child.pc = "idle"
                                /\ child.st = "pending"
  <2>1. CASE PullManga
    <3>1. /\ "manga" \in Kinds /\ None \in Chapters \cup {None} /\ None \in Pages \cup {None}
          /\ 0 \in Nat
      BY DEF Kinds
    <3>2. /\ NewJob("manga", None, None, 0) \in JobTypes
          /\ NewJob("manga", None, None, 0).kind = "manga"
          /\ NewJob("manga", None, None, 0).pc = "idle"
          /\ NewJob("manga", None, None, 0).st = "pending"
      BY <3>1, NewJobTyped
    <3> QED BY <2>1, <3>2 DEF PullManga
  <2>2. CASE \E c \in Chapters : PullChapter(c)
    <3>1. PICK c \in Chapters : jobs' = Append(jobs, NewJob("chapter", c, None, 0))
      BY <2>2 DEF PullChapter
    <3>2. /\ "chapter" \in Kinds /\ c \in Chapters \cup {None} /\ None \in Pages \cup {None}
          /\ 0 \in Nat
      BY DEF Kinds
    <3>3. /\ NewJob("chapter", c, None, 0) \in JobTypes
          /\ NewJob("chapter", c, None, 0).kind = "chapter"
          /\ NewJob("chapter", c, None, 0).pc = "idle"
          /\ NewJob("chapter", c, None, 0).st = "pending"
      BY <3>2, NewJobTyped
    <3> QED BY <3>1, <3>3
  <2> QED BY <2>1, <2>2
<1>4. PICK n : /\ Ids' = Ids \cup {n} /\ n \notin Ids /\ jobs'[n] = child
               /\ \A k \in Ids : jobs'[k] = jobs[k]
  BY <1>1, <1>3, AddJob DEF Ids
<1>5. Ids \subseteq Ids' /\ Others(n) /\ JobsStay
  BY <1>4 DEF Others, JobsStay
<1>6. ClaimHasOwner'
  BY <1>2, <1>4, <1>5, OwnerStep
<1>7. Covered(jobs[n])'
  BY <1>3, <1>4 DEF Covered
<1>8. Undisturbed'
  BY <1>2, <1>4, <1>5, <1>7, CoverStep DEF Fresh
<1> QED BY <1>6, <1>8

LEMMA EditsOnward ==
    ASSUME Pipeline, ClaimHasOwner, Undisturbed,
           \/ SwitchContentProvider
           \/ \E c \in Chapters : \/ UpdateChapterProgress(c) \/ DeleteChapterFiles(c)
                                  \/ DeleteChapter(c)
           \/ Refreshes
    PROVE  ClaimHasOwner' /\ Undisturbed'
<1>1. /\ meta \in [Chapters -> MetaTypes]
      /\ spent \in [pulls : Nat, ops : Nat, fetches : Nat, faults : Nat, crashes : Nat]
  BY DEF Pipeline, TypeOK
<1>2. /\ UNCHANGED <<jobs, claim, leaked>> /\ added \subseteq added'
      /\ spent' = spent \/ spent' = [spent EXCEPT !["ops"] = spent.ops + 1]
      /\ \A d \in Chapters : meta'[d].there => meta[d].there \/ d \in added'
  <2>1. CASE Refreshes
    <3>1. CASE RefreshManga \/ \E c \in Chapters, op \in UserOps : RefreshChapter(op, c)
      BY <3>1, RefreshReads DEF disk
    <3>2. CASE \E r \in refreshing : RefreshLists(r) \/ RefreshSaves(r) \/ RefreshBinds(r)
      <4>1. PICK r \in refreshing : RefreshLists(r) \/ RefreshSaves(r) \/ RefreshBinds(r)
        BY <3>2
      <4>2. UNCHANGED <<jobs, claim, spent, leaked>> /\ added \subseteq added'
        BY <4>1, RefreshWrites DEF MetaKept
      <4>3. CASE ~RefreshSaves(r)
        BY <4>1, <4>2, <4>3 DEF RefreshLists, RefreshBinds, disk
      <4>4. CASE RefreshSaves(r)
        BY <1>1, <4>2, <4>4 DEF RefreshSaves, HasMeta
      <4> QED BY <4>2, <4>3, <4>4
    <3> QED BY <2>1, <3>1, <3>2 DEF Refreshes
  <2>2. CASE ~Refreshes
    <3>1. /\ UNCHANGED <<jobs, claim, leaked, added>>
          /\ spent' = [spent EXCEPT !["ops"] = spent.ops + 1]
      BY <2>2 DEF SwitchContentProvider, UpdateChapterProgress, DeleteChapterFiles, DeleteChapter,
                  Request, Spend
    <3>2. \A d \in Chapters : meta'[d].there => meta[d].there
      BY <1>1, <2>2 DEF SwitchContentProvider, UpdateChapterProgress, DeleteChapterFiles,
                        DeleteChapter, MetaTypes, NoMeta
    <3> QED BY <3>1, <3>2
  <2> QED BY <2>1, <2>2
<1>3. ClaimHasOwner'
  BY <1>2 DEF ClaimHasOwner, At, Ids
<1>4. Undisturbed'
  <2>1. /\ Ids' = Ids /\ Others(0) /\ JobsStay /\ (Quiet' => Quiet) /\ 0 \notin Ids
    BY <1>1, <1>2 DEF Ids, Quiet, Others, JobsStay, Pipeline, TypeOK
  <2>2. \A c \in Fresh' : meta'[c].there => meta[c].there
    BY <1>2 DEF Fresh
  <2> QED BY <1>2, <2>1, <2>2, CoverStep
<1> QED BY <1>3, <1>4

LEMMA InitOnward == Init => ClaimHasOwner /\ Undisturbed
BY DEF Init, ClaimHasOwner, Undisturbed, HasMeta, NoMeta, Ids, Fresh

LEMMA NextOnward ==
    Pipeline /\ ClaimHasOwner /\ Undisturbed /\ [Next]_vars => ClaimHasOwner' /\ Undisturbed'
<1> SUFFICES ASSUME Pipeline, ClaimHasOwner, Undisturbed, [Next]_vars
             PROVE  ClaimHasOwner' /\ Undisturbed'
  OBVIOUS
<1>1. CASE \E i \in Ids : Claim(i) \/ Handle(i)
  <2>1. PICK i \in Ids : Claim(i) \/ Handle(i)
    BY <1>1
  <2>2. CASE \/ ListChapters(i) \/ ClaimCover(i) \/ GetBindings(i) \/ SaveBindings(i)
    BY <2>2, MangaOnward
  <2>3. CASE \/ EnqueuePullChapter(i) \/ EnqueuePullCover(i) \/ EnqueuePullPage(i)
    BY <2>3, SpawnOnward
  <2>4. CASE \/ SaveChapterPages(i) \/ PullChapterDone(i)
             \/ DownloadPage(i) \/ GetChapter(i) \/ StampChapter(i)
             \/ DownloadCover(i) \/ ReleaseCoverClaim(i)
    BY <2>4, OthersGoOn
  <2> QED BY <2>1, <2>2, <2>3, <2>4, ClaimOnward, SaveChapterOnward DEF Handle
<1>2. CASE Failure
  BY <1>2, FetchFailsOnward, FaultOnward, CrashOnward DEF Failure
<1>3. CASE Requests
  BY <1>3, RequestsOnward, EditsOnward, CancelOnward DEF Requests, Refreshes
<1>4. CASE UNCHANGED vars
  <2>1. UNCHANGED <<jobs, meta, added, claim, spent, leaked>> /\ Ids' = Ids
    BY <1>4 DEF vars, Ids
  <2>2. ClaimHasOwner'
    BY <2>1 DEF ClaimHasOwner, At
  <2>3. \A c : HasJob(c)' <=> HasJob(c)
    BY <2>1 DEF HasJob
  <2>4. \A k \in Ids : Covered(jobs[k])' <=> Covered(jobs[k])
    BY <2>1, <2>3 DEF Covered, Fresh
  <2> QED BY <2>1, <2>2, <2>3, <2>4 DEF Undisturbed, HasMeta, At, Fresh
<1> QED BY <1>1, <1>2, <1>3, <1>4 DEF Next

\* The claim file .cover-pending always has somebody to remove it, through
\* every overlap, failed fetch, retry and cancellation, except where the code
\* lets go of it: a cancelled or lost owner, or a failed removal.
THEOREM ClaimAlwaysHasOwner == Spec => []ClaimHasOwner
<1>1. Init => Pipeline /\ ClaimHasOwner /\ Undisturbed
  BY InitPipeline, InitOnward
<1>2. Pipeline /\ ClaimHasOwner /\ Undisturbed /\ [Next]_vars
         => (Pipeline /\ ClaimHasOwner /\ Undisturbed)'
  BY NextPipeline, NextOnward
<1> QED BY <1>1, <1>2, PTL DEF Spec

\* As long as no storage error and no crash is met, a pull_manga that is done
\* has left no chapter without its pull_chapter: neither its own nor one that
\* an overlapping pull listed, saved and enqueued.
THEOREM UndisturbedPullsAreWhole == Spec => []UndisturbedPullSchedulesChapters
<1>1. Init => Pipeline /\ ClaimHasOwner /\ Undisturbed
  BY InitPipeline, InitOnward
<1>2. Pipeline /\ ClaimHasOwner /\ Undisturbed /\ [Next]_vars
         => (Pipeline /\ ClaimHasOwner /\ Undisturbed)'
  BY NextPipeline, NextOnward
<1>3. Undisturbed => UndisturbedPullSchedulesChapters
  BY DEF Undisturbed, UndisturbedPullSchedulesChapters, CompletedPullSchedulesChapters, Covered,
         HasJob, Fresh
<1> QED BY <1>1, <1>2, <1>3, PTL DEF Spec
=============================================================================
