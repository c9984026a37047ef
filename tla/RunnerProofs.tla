---------------------------- MODULE RunnerProofs ----------------------------
(***************************************************************************)
(* For any number of processes on one output folder, any records file,     *)
(* payload set and configuration, and any number of edits: one process     *)
(* works on the folder, and writes no row of a pool in which a call failed; *)
(* its rows are of the source its metadata name, and its exit code is true; *)
(* and where there are metadata, results.csv has every row it should, once. *)
(***************************************************************************)
EXTENDS Runner, AlgorithmProofs

\* Where a process is once it has made the folder, once its pool has ended well,
\* and once it has made results.csv.
Writing == {"write", "describe", "meta", "mismatches", "ok", "mismatch"}
Pooled == {"open"} \union Writing
Working == {"execute", "shutdown"} \union Pooled

Writers(f) == { f.csv.by, f.meta.by, f.mismatches.by }
AllRows(tasks) == ToSet(tasks) \subseteq {"row"}

\* A process and the folder keep their fields.
Process(p) ==
  p \in [ pc : Stages, config : {p.config}, work : {p.work}, tasks : {p.tasks},
          ran : {p.ran}, checked : {p.checked}, meta : {p.meta} ]
Folder(f) ==
  /\ f \in [ maker : {f.maker}, csv : {f.csv}, meta : {f.meta}, mismatches : {f.mismatches} ]
  /\ f.csv \in [ by : {f.csv.by}, state : {f.csv.state}, holds : {f.csv.holds} ]

Shape ==
  /\ proc = [ r \in Runners |-> proc[r] ]
  /\ \A r \in Runners : Process(proc[r])
  /\ Folder(folder)

\* Whoever has worked on the folder made it.
Owner ==
  \A r \in Runners :
    proc[r].pc \in Working \/ proc[r].tasks # << >> \/ r \in Writers(folder)
      => folder.maker = r

\* Past the pool, and in whatever process made results.csv, every task gave a row;
\* and whoever is past that made the file.
Rowed ==
  /\ \A r \in Runners : proc[r].pc \in Pooled => AllRows(proc[r].tasks)
  /\ \A r \in Runners : proc[r].pc \in Writing => folder.csv.by = r
  /\ folder.csv # NoFile =>
       /\ folder.csv.by \in Runners
       /\ proc[folder.csv.by].pc \in Writing \union {"raised", "crashed"}
       /\ AllRows(proc[folder.csv.by].tasks)

IInv == Shape /\ Owner /\ Rowed

-----------------------------------------------------------------------------
\* What a step of a process has to see to: it works on the folder only if it made
\* it, takes the folder from nobody, signs what it writes, opens results.csv after
\* its pool, and changes no task from then on.
LEMMA BecomesKeeps ==
  ASSUME IInv, NEW r \in Runners, NEW p, NEW f, Becomes(r, p, f),
         Process(p), Folder(f),
         p.pc \in Working \/ p.tasks # << >> => f.maker = r,
         f.maker # folder.maker => folder.maker = Nobody,
         Writers(f) \subseteq Writers(folder) \/ (f.maker = r /\ Writers(f) \subseteq Writers(folder) \union {r}),
         p.pc \in Pooled => AllRows(p.tasks),
         p.pc \in Writing => f.csv.by = r,
         f.csv # folder.csv => folder.csv = NoFile \/ folder.csv.by = r,
         f.csv # folder.csv => f.csv.by = r /\ p.pc \in Writing \union {"raised", "crashed"} /\ AllRows(p.tasks),
         folder.csv # NoFile /\ folder.csv.by = r =>
           p.pc \in Writing \union {"raised", "crashed"} /\ p.tasks = proc[r].tasks
  PROVE  IInv'
<1>1. /\ proc' = [ proc EXCEPT ![r] = p ]
      /\ folder' = f
  BY DEF Becomes
<1>2. /\ proc'[r] = p
      /\ \A q \in Runners \ {r} : proc'[q] = proc[q]
  BY <1>1 DEF IInv, Shape
<1>3. Shape'
  BY <1>1, <1>2 DEF IInv, Shape
<1>4. ASSUME NEW q \in Runners,
             proc'[q].pc \in Working \/ proc'[q].tasks # << >> \/ q \in Writers(f)
      PROVE  f.maker = q
  <2>1. CASE q # r
    <3>1. folder.maker = q
      BY <1>2, <1>4, <2>1 DEF IInv, Owner
    <3> QED
      BY <3>1, NobodyAssumption
  <2>2. CASE q = r
    BY <1>2, <1>4, <2>2, NobodyAssumption DEF IInv, Owner
  <2> QED
    BY <2>1, <2>2
<1>5. Owner'
  BY <1>1, <1>4 DEF Owner
<1>6. ASSUME NEW q \in Runners
      PROVE  /\ proc'[q].pc \in Pooled => AllRows(proc'[q].tasks)
             /\ proc'[q].pc \in Writing => f.csv.by = q
  <2>1. NoFile.by \notin Runners
    BY NobodyAssumption DEF NoFile
  <2>2. CASE q = r
    BY <1>2, <2>2
  <2>3. CASE q # r
    BY <1>2, <2>1, <2>3 DEF IInv, Rowed
  <2> QED
    BY <2>2, <2>3
<1>7. ASSUME f.csv # NoFile
      PROVE  /\ f.csv.by \in Runners
             /\ proc'[f.csv.by].pc \in Writing \union {"raised", "crashed"}
             /\ AllRows(proc'[f.csv.by].tasks)
  <2>1. CASE f.csv # folder.csv
    BY <1>2, <2>1
  <2>2. CASE f.csv = folder.csv /\ f.csv.by = r
    BY <1>2, <1>7, <2>2 DEF IInv, Rowed
  <2>3. CASE f.csv = folder.csv /\ f.csv.by # r
    BY <1>2, <1>7, <2>3 DEF IInv, Rowed
  <2> QED
    BY <2>1, <2>2, <2>3
<1>8. Rowed'
  BY <1>1, <1>6, <1>7 DEF Rowed
<1> QED
  BY <1>3, <1>5, <1>8 DEF IInv

\* What going to a stage leaves of a process.
LEMMA GotoFacts ==
  ASSUME Shape, NEW r \in Runners, NEW stage \in Stages
  PROVE  /\ Process(Goto(r, stage))
         /\ Goto(r, stage).pc = stage
         /\ Goto(r, stage).tasks = proc[r].tasks
BY DEF Shape, Process, Goto

\* A step that only goes to a stage, and does not enter the pool's or the file's.
LEMMA GotoKeeps ==
  ASSUME IInv, NEW r \in Runners, NEW stage \in Stages, Becomes(r, Goto(r, stage), folder),
         stage \in Working => proc[r].pc \in Working,
         stage \in Pooled => AllRows(proc[r].tasks),
         stage \in Writing => proc[r].pc \in Writing,
         proc[r].pc \in Writing \union {"raised", "crashed"}
           => stage \in Writing \union {"raised", "crashed"}
  PROVE  IInv'
<1> DEFINE p == Goto(r, stage)
<1>1. Process(p) /\ p.pc = stage /\ p.tasks = proc[r].tasks
  BY GotoFacts DEF IInv
<1>2. p.pc \in Working \/ p.tasks # << >> => folder.maker = r
  BY <1>1 DEF IInv, Owner
<1>3. Folder(folder)
  BY DEF IInv, Shape
<1>4. folder.csv # NoFile /\ folder.csv.by = r =>
        p.pc \in Writing \union {"raised", "crashed"} /\ p.tasks = proc[r].tasks
  BY <1>1 DEF IInv, Rowed
<1>5. p.pc \in Writing => folder.csv.by = r
  BY <1>1 DEF IInv, Rowed
<1> HIDE DEF p
<1> QED
  BY <1>1, <1>2, <1>3, <1>4, <1>5, BecomesKeeps DEF p

\* A step of a pool: a task changes, and perhaps the stage, but not into Pooled.
LEMMA PoolKeeps ==
  ASSUME IInv, NEW r \in Runners, NEW p, Becomes(r, p, folder),
         Process(p), proc[r].pc \in {"execute", "shutdown"},
         p.pc \in {"execute", "shutdown"}
  PROVE  IInv'
<1>1. folder.maker = r
  BY DEF IInv, Owner, Working
<1>2. Folder(folder)
  BY DEF IInv, Shape
<1>3. ~(folder.csv # NoFile /\ folder.csv.by = r)
  BY DEF IInv, Rowed, Writing
<1>4. p.pc \notin Pooled /\ p.pc \notin Writing
  BY DEF Pooled, Writing
<1> QED
  BY <1>1, <1>2, <1>3, <1>4, BecomesKeeps

\* Every step of a process keeps the invariant.
LEMMA StepKeeps ==
  ASSUME IInv, NEW r \in Runners, Step(r) \/ Crash(r)
  PROVE  IInv'
<1> USE DEF At
<1>0. Shape /\ Process(proc[r]) /\ Folder(folder) /\ proc[r].pc \in Stages
  BY DEF IInv, Shape, Process
<1>1. CASE Load(r)
  <2> DEFINE loaded == [ proc[r] EXCEPT !.config = disk.config ]
             p == IF Accepts(records, Specs, Configs[disk.config])
                  THEN [ loaded EXCEPT !.pc = "check",
                                       !.work = Matrix(records, Specs, Configs[disk.config]) ]
                  ELSE [ loaded EXCEPT !.pc = "refused" ]
  <2>1. Process(p) /\ p.pc \in {"check", "refused"} /\ p.tasks = proc[r].tasks
    BY <1>0 DEF Process, Stages, Ended
  <2>2. Becomes(r, p, folder)
    BY <1>1 DEF Load
  <2>3. p.pc \notin Working \union Pooled \union Writing
    BY <2>1 DEF Working, Pooled, Writing
  <2>4. p.tasks # << >> => folder.maker = r
    BY <2>1 DEF IInv, Owner
  <2>5. ~(folder.csv # NoFile /\ folder.csv.by = r)
    BY <1>1 DEF Load, IInv, Rowed, Writing
  <2> HIDE DEF p
  <2> QED
    BY <1>0, <2>1, <2>2, <2>3, <2>4, <2>5, BecomesKeeps
<1>2. CASE Available(r)
  <2> DEFINE p == [ Goto(r, "mkdir") EXCEPT !.checked = disk ]
  <2>1. Process(p) /\ p.pc = "mkdir" /\ p.tasks = proc[r].tasks
    BY <1>0 DEF Process, Goto, Stages
  <2>2. Becomes(r, p, folder)
    BY <1>2 DEF Available
  <2>3. p.pc \notin Working \union Pooled \union Writing
    BY <2>1 DEF Working, Pooled, Writing
  <2>4. p.tasks # << >> => folder.maker = r
    BY <2>1 DEF IInv, Owner
  <2>5. ~(folder.csv # NoFile /\ folder.csv.by = r)
    BY <1>2 DEF Available, IInv, Rowed, Writing
  <2> HIDE DEF p
  <2> QED
    BY <1>0, <2>1, <2>2, <2>3, <2>4, <2>5, BecomesKeeps
<1>3. CASE Unavailable(r)
  <2>1. proc[r].pc = "check" /\ Becomes(r, Goto(r, "refused"), folder)
    BY <1>3 DEF Unavailable
  <2> QED
    BY <2>1, GotoKeeps DEF Stages, Ended, Working, Pooled, Writing
<1>4. CASE MakeFolder(r)
  <2> DEFINE p == WithPool(r)
             f == [ folder EXCEPT !.maker = r ]
  <2>1. Process(p) /\ p.pc = "execute"
    BY <1>0 DEF Process, WithPool, Goto, Stages
  <2>2. Folder(f) /\ f.maker = r /\ f.csv = folder.csv /\ Writers(f) = Writers(folder)
    BY <1>0 DEF Folder, Writers
  <2>3. Becomes(r, p, f) /\ folder.maker = Nobody
    BY <1>4 DEF MakeFolder
  <2>4. p.pc \notin Pooled \union Writing
    BY <2>1 DEF Pooled, Writing
  <2>5. ~(folder.csv # NoFile /\ folder.csv.by = r)
    BY <1>4 DEF MakeFolder, IInv, Rowed, Writing
  <2> HIDE DEF p, f
  <2> QED
    BY <2>1, <2>2, <2>3, <2>4, <2>5, BecomesKeeps
<1>5. CASE FolderExists(r)
  <2>1. proc[r].pc = "mkdir" /\ Becomes(r, Goto(r, "raised"), folder)
    BY <1>5 DEF FolderExists
  <2> QED
    BY <2>1, GotoKeeps DEF Stages, Ended, Working, Pooled, Writing
<1>6. ASSUME NEW i \in DOMAIN Tasks(r), StartTask(r, i) \/ TaskEnds(r, i) \/ TaskRaises(r, i)
      PROVE  IInv'
  <2>1. ASSUME NEW s
        PROVE  Process(WithTask(r, i, s)) /\ WithTask(r, i, s).pc = proc[r].pc
    BY <1>0 DEF Process, WithTask
  <2>2. CASE StartTask(r, i)
    <3> DEFINE image == IF DeliveredTask(r, i) THEN disk.image ELSE NotRun
               p == [ WithTask(r, i, "running") EXCEPT !.ran[i] = image ]
    <3>1. Process(p) /\ p.pc = proc[r].pc
      BY <2>1 DEF Process
    <3>2. Becomes(r, p, folder) /\ proc[r].pc = "execute"
      BY <2>2 DEF StartTask
    <3> HIDE DEF p
    <3> QED
      BY <3>1, <3>2, PoolKeeps
  <2>3. CASE TaskEnds(r, i)
    BY <2>1, <2>3, PoolKeeps DEF TaskEnds
  <2>4. CASE TaskRaises(r, i)
    BY <2>1, <2>4, PoolKeeps DEF TaskRaises
  <2> QED
    BY <1>6, <2>2, <2>3, <2>4
<1>7. CASE PoolFails(r)
  <2> DEFINE left == [ j \in DOMAIN Tasks(r) |->
                         IF Tasks(r)[j] = "queued" THEN "cancelled" ELSE Tasks(r)[j] ]
             p == [ Goto(r, "shutdown") EXCEPT !.tasks = left ]
  <2>1. Process(p) /\ p.pc = "shutdown"
    BY <1>0 DEF Goto, Process, Stages
  <2>2. Becomes(r, p, folder) /\ proc[r].pc = "execute"
    BY <1>7 DEF PoolFails
  <2> HIDE DEF p
  <2> QED
    BY <2>1, <2>2, PoolKeeps
<1>8. CASE Shutdown(r)
  <2>1. proc[r].pc = "shutdown" /\ Becomes(r, Goto(r, "raised"), folder)
    BY <1>8 DEF Shutdown
  <2> QED
    BY <2>1, GotoKeeps DEF Stages, Ended, Working, Pooled, Writing
<1>9. CASE Gather(r)
  <2>1. proc[r].pc = "execute" /\ Becomes(r, Goto(r, "open"), folder)
    BY <1>9 DEF Gather
  <2>2. AllRows(proc[r].tasks)
    BY <1>9 DEF Gather, Tasks, AllRows, ToSet
  <2> QED
    BY <2>1, <2>2, GotoKeeps DEF Stages, Working, Pooled, Writing
<1>10. CASE OpenCsv(r)
  <2>1. AllRows(proc[r].tasks) /\ folder.maker = r
    BY <1>10 DEF OpenCsv, IInv, Owner, Rowed, Working, Pooled
  <2>2. CASE folder.csv = NoFile
    <3> DEFINE p == Goto(r, "write")
               f == [ folder EXCEPT !.csv = File(r, "open", << >>) ]
    <3>1. Process(p) /\ p.pc = "write" /\ p.tasks = proc[r].tasks
      BY <1>0, GotoFacts DEF Stages
    <3>2. Folder(f) /\ f.maker = r /\ f.csv.by = r
          /\ Writers(f) \subseteq Writers(folder) \union {r}
      BY <1>0, <2>1 DEF Folder, Writers, File
    <3>3. Becomes(r, p, f)
      BY <1>10, <2>2 DEF OpenCsv
    <3> HIDE DEF p, f
    <3> QED
      BY <2>1, <2>2, <3>1, <3>2, <3>3, BecomesKeeps DEF Writing
  <2>3. CASE folder.csv # NoFile
    <3>1. proc[r].pc = "open" /\ Becomes(r, Goto(r, "raised"), folder)
      BY <1>10, <2>3 DEF OpenCsv
    <3> QED
      BY <3>1, GotoKeeps DEF Stages, Ended, Working, Pooled, Writing
  <2> QED
    BY <2>2, <2>3
<1>11. ASSUME WriteRow(r) \/ CloseCsv(r) PROVE IInv'
  <2>1. /\ AllRows(proc[r].tasks) /\ folder.maker = r /\ folder.csv.by = r
        /\ proc[r].pc = "write"
    BY <1>11 DEF WriteRow, CloseCsv, IInv, Owner, Rowed, Working, Pooled, Writing
  <2>2. CASE Becomes(r, Goto(r, "raised"), folder)
    BY <2>1, <2>2, GotoKeeps DEF Stages, Ended, Working, Pooled, Writing
  <2>3. ASSUME ~Becomes(r, Goto(r, "raised"), folder) PROVE IInv'
    <3>1. CASE WriteRow(r)
      <4> DEFINE f == [ folder EXCEPT !.csv.holds = Append(@, Rows(r)[Len(Written) + 1]) ]
      <4>1. Becomes(r, proc[r], f)
        BY <2>3, <3>1 DEF WriteRow
      <4>2. Folder(f) /\ f.maker = folder.maker /\ f.csv.by = folder.csv.by
            /\ Writers(f) = Writers(folder)
        BY <1>0 DEF Folder, Writers
      <4> HIDE DEF f
      <4> QED
        BY <1>0, <2>1, <4>1, <4>2, BecomesKeeps DEF Writing
    <3>2. CASE CloseCsv(r)
      <4> DEFINE p == Goto(r, "describe")
                 f == [ folder EXCEPT !.csv.state = "closed" ]
      <4>1. Becomes(r, p, f)
        BY <3>2 DEF CloseCsv
      <4>2. Folder(f) /\ f.maker = folder.maker /\ f.csv.by = folder.csv.by
            /\ Writers(f) = Writers(folder)
        BY <1>0 DEF Folder, Writers
      <4>3. Process(p) /\ p.pc = "describe" /\ p.tasks = proc[r].tasks
        BY <1>0, GotoFacts DEF Stages
      <4> HIDE DEF p, f
      <4> QED
        BY <2>1, <4>1, <4>2, <4>3, BecomesKeeps DEF Writing
    <3> QED
      BY <1>11, <3>1, <3>2
  <2> QED
    BY <2>2, <2>3
<1>12. CASE Describe(r)
  <2> DEFINE p == [ Goto(r, "meta") EXCEPT !.meta = disk ]
  <2>1. Process(p) /\ p.pc = "meta" /\ p.tasks = proc[r].tasks
    BY <1>0 DEF Process, Goto, Stages
  <2>2. Becomes(r, p, folder)
    BY <1>12 DEF Describe
  <2>3. AllRows(proc[r].tasks) /\ folder.maker = r /\ folder.csv.by = r
    BY <1>12 DEF Describe, IInv, Owner, Rowed, Working, Pooled, Writing
  <2> HIDE DEF p
  <2> QED
    BY <1>0, <2>1, <2>2, <2>3, BecomesKeeps DEF Writing
<1>13. ASSUME WriteMeta(r) \/ WriteMismatches(r) PROVE IInv'
  <2>1. /\ AllRows(proc[r].tasks) /\ folder.maker = r /\ folder.csv.by = r
        /\ proc[r].pc \in Writing
    BY <1>13 DEF WriteMeta, WriteMismatches, IInv, Owner, Rowed, Working, Pooled, Writing
  <2>2. ASSUME NEW p, NEW f, Becomes(r, p, f),
               p = proc[r] \/ (\E stage \in {"mismatches", "ok", "mismatch"} : p = Goto(r, stage)),
               \/ f = folder
               \/ \E state, holds : f = [ folder EXCEPT !.meta = File(r, state, holds) ]
               \/ \E state, holds : f = [ folder EXCEPT !.mismatches = File(r, state, holds) ]
        PROVE  IInv'
    <3>1. Process(p) /\ p.pc \in Writing /\ p.tasks = proc[r].tasks
      BY <1>0, <2>1, <2>2, GotoFacts DEF Stages, Ended, Writing
    <3>2. Folder(f) /\ f.maker = folder.maker /\ f.csv = folder.csv
          /\ Writers(f) \subseteq Writers(folder) \union {r}
      BY <1>0, <2>2 DEF Folder, Writers, File
    <3> QED
      BY <2>1, <2>2, <3>1, <3>2, BecomesKeeps
  <2>3. CASE WriteMeta(r)
    BY <2>2, <2>3 DEF WriteMeta
  <2>4. CASE WriteMismatches(r)
    <3>1. CASE Becomes(r, Goto(r, "ok"), folder)
      BY <2>2, <3>1
    <3>2. CASE ~Becomes(r, Goto(r, "ok"), folder)
      BY <2>2, <2>4, <3>2 DEF WriteMismatches
    <3> QED
      BY <3>1, <3>2
  <2> QED
    BY <1>13, <2>3, <2>4
<1>14. CASE Crash(r)
  <2>1. Becomes(r, Goto(r, "crashed"), folder)
    BY <1>14 DEF Crash
  <2> QED
    BY <2>1, GotoKeeps DEF Stages, Ended, Working, Pooled, Writing
<1> QED
  BY <1>1, <1>2, <1>3, <1>4, <1>5, <1>6, <1>7, <1>8, <1>9, <1>10, <1>11, <1>12, <1>13, <1>14
     DEF Step

\* A process, an edit or nothing: every step keeps the invariant.
LEMMA NextKeeps == IInv /\ [Next]_vars => IInv'
<1> SUFFICES ASSUME IInv, [Next]_vars PROVE IInv'
  OBVIOUS
<1>1. ASSUME NEW r \in Runners, Step(r) \/ Crash(r) PROVE IInv'
  BY <1>1, StepKeeps
<1>2. CASE UNCHANGED << proc, folder >>
  BY <1>2 DEF IInv, Shape, Owner, Rowed
<1>3. CASE EditConfig \/ EditSource \/ BuildImage
  BY <1>2, <1>3 DEF EditConfig, EditSource, BuildImage, Edit
<1>4. CASE Done \/ UNCHANGED vars
  BY <1>2, <1>4 DEF Done, vars
<1> QED
  BY <1>1, <1>3, <1>4 DEF Next

\* Nobody has done anything to begin with.
LEMMA InitIInv == Init => IInv
<1> SUFFICES ASSUME Init PROVE IInv
  OBVIOUS
<1>1. Shape
  BY DEF Init, Shape, Process, Folder, Start, NoFolder, NoFile, Stages
<1>2. Owner
  BY NobodyAssumption DEF Init, Owner, Start, NoFolder, NoFile, Writers, Working, Pooled, Writing
<1>3. Rowed
  BY DEF Init, Rowed, Start, NoFolder, NoFile, Pooled, Writing
<1> QED
  BY <1>1, <1>2, <1>3 DEF IInv

\* The invariant holds of every run of the experiments.
THEOREM Invariance == Spec => []IInv
<1>1. Init => IInv
  BY InitIInv
<1>2. IInv /\ [Next]_vars => IInv'
  BY NextKeeps
<1> QED
  BY <1>1, <1>2, PTL DEF Spec

\* However many processes name one folder (run_experiments.main, line 178), only the
\* one that made it works on it.
THEOREM OneUser == Spec => []FolderHasOneUser
<1>1. IInv => FolderHasOneUser
  BY DEF IInv, Owner, Writers, FolderHasOneUser
<1> QED
  BY <1>1, Invariance, PTL

\* However many tasks and threads a pool has, and whatever fails in it, results.csv is
\* only made when every task has given its row (run_experiments.execute).
THEOREM NoRowsOfFailure == Spec => []NoRowsOfAFailedPool
<1>1. IInv => NoRowsOfAFailedPool
  BY DEF IInv, Rowed, AllRows, NoRowsOfAFailedPool
<1> QED
  BY <1>1, Invariance, PTL

-----------------------------------------------------------------------------
(***************************************************************************)
(* What the folder tells of the process that made it.  An edit disturbs    *)
(* every process under way, so that the disk is as an undisturbed one      *)
(* found it, as long as it runs.                                           *)
(***************************************************************************)
Before == {"load", "check", "mkdir", "refused"}
Described == {"mismatches", "ok", "mismatch"}
Answered == {"ok", "mismatch"}

\* Process r, as it is p with the folder f: what its exit code says
Told(r, p, f) ==
  /\ f.maker = r => p.pc \notin Before
  /\ p.pc \in Described => f.meta.by = r /\ f.meta.state = "whole"
  /\ p.pc \in Working \ Answered => f.mismatches = NoFile
  /\ p.pc \in Answered =>
       f.mismatches.state = (IF Mismatches(records, Specs) = {} THEN "absent" ELSE "whole")
  /\ p.pc = "ok" => allow \/ Mismatches(records, Specs) = {}

\* ... and what its rows were computed by
Sourced(r, p, f) ==
  /\ p.pc \in Before => p.ran = << >>
  /\ r \notin disturbed =>
       /\ p.pc \notin Ended \union {"load"} => p.config = disk.config
       /\ p.pc \notin Ended \union {"load", "check"} => p.checked = disk /\ disk.image = disk.source
       /\ \A i \in DOMAIN p.ran : p.ran[i] \in {p.checked.source, NotRun}
       /\ p.pc = "meta" => p.meta = p.checked
       /\ f.meta.by = r /\ f.meta.state = "whole" =>
            f.meta.holds = p.checked /\ p.checked.config = p.config

Marked(f) ==
  /\ f.maker = Nobody => f.meta = NoFile /\ f.mismatches = NoFile
  /\ f.meta # NoFile => f.meta.by \in Runners

Tells ==
  /\ Marked(folder)
  /\ \A r \in Runners : Told(r, proc[r], folder) /\ Sourced(r, proc[r], folder)

\* The fields that going to a stage does not touch
Same(p, q) == p.config = q.config /\ p.checked = q.checked /\ p.ran = q.ran /\ p.meta = q.meta

\* What a step of process r has to see to: itself, and that it signs the metadata and
\* touches no folder that is another's.
LEMMA TellsOfStep ==
  ASSUME IInv, IInv', Tells, NEW r \in Runners, NEW p, NEW f, Becomes(r, p, f),
         f.maker \in {folder.maker, r},
         f.meta # folder.meta \/ f.mismatches # folder.mismatches => f.maker = r,
         f.meta # folder.meta => f.meta.by = r,
         Told(r, p, f), Sourced(r, p, f)
  PROVE  Tells'
<1>1. /\ proc'[r] = p /\ folder' = f /\ UNCHANGED << records, allow, disk, disturbed >>
      /\ \A q \in Runners \ {r} : proc'[q] = proc[q]
  BY DEF Becomes, IInv, Shape, env
<1>2. Marked(f)
  BY NobodyAssumption DEF Tells, Marked
<1>3. ASSUME NEW q \in Runners, q # r PROVE Told(q, proc[q], f) /\ Sourced(q, proc[q], f)
  <2>1. Told(q, proc[q], folder) /\ Sourced(q, proc[q], folder)
    BY DEF Tells
  <2>2. proc[q].pc \in Working => f.meta = folder.meta /\ f.mismatches = folder.mismatches
    <3>1. proc[q].pc \in Working => f.maker = q
      BY <1>1, <1>3 DEF IInv, Owner
    <3> QED
      BY <1>3, <3>1
  <2>3. Described \subseteq Working /\ Answered \subseteq Working
    BY DEF Described, Answered, Working, Pooled, Writing
  <2>4. Told(q, proc[q], f)
    BY <1>3, <2>1, <2>2, <2>3 DEF Told
  <2>5. Sourced(q, proc[q], f)
    BY <1>3, <2>1 DEF Sourced
  <2> QED
    BY <2>4, <2>5
<1>4. ASSUME NEW q \in Runners PROVE Told(q, proc'[q], f) /\ Sourced(q, proc'[q], f)
  BY <1>1, <1>3
<1> QED
  BY <1>1, <1>2, <1>4 DEF Tells, Told, Sourced, Marked

LEMMA GotoSame ==
  ASSUME Shape, NEW r \in Runners, NEW stage \in Stages
  PROVE  Same(Goto(r, stage), proc[r])
BY DEF Shape, Process, Goto, Same

\* A step within the folder of r that leaves its metadata and its mismatches alone
LEMMA TellsOfGoto ==
  ASSUME IInv, IInv', Tells, NEW r \in Runners, NEW p, NEW f, Becomes(r, p, f),
         p.pc \in Stages \ Answered, Same(p, proc[r]),
         f.maker = folder.maker, f.meta = folder.meta, f.mismatches = folder.mismatches,
         p.pc \in Before => proc[r].pc \in Before /\ p.pc # "check",
         p.pc = "mkdir" => proc[r].pc = "mkdir", p.pc \notin {"load", "meta"},
         p.pc \in Described => proc[r].pc \in Described,
         p.pc \in Working => proc[r].pc \in Working \ Answered
  PROVE  Tells'
<1>1. Told(r, proc[r], folder) /\ Sourced(r, proc[r], folder)
  BY DEF Tells
<1>2. Told(r, p, f)
  <2>1. ASSUME f.maker = r PROVE p.pc \notin Before
    BY <1>1, <2>1 DEF Told
  <2>2. p.pc # "ok" /\ p.pc \notin Answered
    BY DEF Answered
  <2> QED
    BY <1>1, <2>1, <2>2 DEF Told
<1>3. Sourced(r, p, f)
  <2>1. p.pc \notin Ended \union {"load"} => proc[r].pc \notin Ended \union {"load", "check"}
    BY DEF Stages, Working, Pooled, Writing, Answered, Ended, Before
  <2> QED
    BY <1>1, <2>1 DEF Sourced, Same
<1> QED
  BY <1>2, <1>3, TellsOfStep

\* Every step of a process keeps what the folder tells.
LEMMA StepTells ==
  ASSUME IInv, IInv', Tells, NEW r \in Runners, Step(r) \/ Crash(r)
  PROVE  Tells'
<1> USE DEF At
<1>0. /\ Shape /\ Process(proc[r]) /\ Folder(folder)
      /\ Told(r, proc[r], folder) /\ Sourced(r, proc[r], folder) /\ Marked(folder)
  BY DEF IInv, Shape, Tells
<1>a. ASSUME proc[r].pc \in Before
      PROVE  folder.maker # r /\ folder.meta.by # r /\ proc[r].ran = << >>
  BY <1>0, <1>a DEF Told, Sourced, IInv, Owner, Writers
<1>b. \A stage \in Stages : Goto(r, stage).pc = stage /\ Same(Goto(r, stage), proc[r])
  BY <1>0, GotoFacts, GotoSame
<1> DEFINE Quiet == Stages \ (Answered \union Before \union {"meta"})
<1>c. ASSUME NEW stage \in Quiet \union {"refused"},
             stage = "refused" => proc[r].pc \in Before,
             stage \in Described => proc[r].pc \in Described,
             stage \in Working => proc[r].pc \in Working \ Answered,
             NEW f, f.maker = folder.maker, f.meta = folder.meta, f.mismatches = folder.mismatches,
             Becomes(r, Goto(r, stage), f)
      PROVE  Tells'
  <2>1. stage \in Stages /\ Goto(r, stage).pc = stage /\ Same(Goto(r, stage), proc[r])
    BY <1>b, <1>c DEF Stages, Ended
  <2> DEFINE p == Goto(r, stage)
  <2> HIDE DEF p
  <2>2. p.pc = stage /\ p.pc \in Stages \ Answered /\ Same(p, proc[r]) /\ Becomes(r, p, f)
    BY <1>c, <2>1 DEF p, Answered
  <2>3. p.pc \notin {"load", "meta", "mkdir", "check"}
        /\ (p.pc \in Before => proc[r].pc \in Before)
    BY <1>c, <2>2 DEF Before
  <2> QED
    BY <1>c, <2>2, <2>3, TellsOfGoto
<1>1. CASE Load(r)
  <2> DEFINE loaded == [ proc[r] EXCEPT !.config = disk.config ]
             p == IF Accepts(records, Specs, Configs[disk.config])
                  THEN [ loaded EXCEPT !.pc = "check",
                                       !.work = Matrix(records, Specs, Configs[disk.config]) ]
                  ELSE [ loaded EXCEPT !.pc = "refused" ]
  <2>1. p.pc \in {"check", "refused"} /\ p.config = disk.config /\ p.ran = proc[r].ran
    BY <1>0 DEF Process
  <2>2. Becomes(r, p, folder) /\ proc[r].pc \in Before
    BY <1>1 DEF Load, Before
  <2> HIDE DEF p
  <2>3. Told(r, p, folder)
    BY <1>a, <2>1, <2>2 DEF Told, Described, Working, Pooled, Writing, Answered
  <2>4. Sourced(r, p, folder)
    BY <1>a, <2>1, <2>2 DEF Sourced, Ended
  <2> QED
    BY <2>2, <2>3, <2>4, TellsOfStep
<1>2. CASE Available(r)
  <2> DEFINE p == [ Goto(r, "mkdir") EXCEPT !.checked = disk ]
  <2>1. p.pc = "mkdir" /\ p.config = proc[r].config /\ p.ran = proc[r].ran /\ p.checked = disk
    BY <1>0 DEF Process, Goto
  <2>2. /\ Becomes(r, p, folder) /\ proc[r].pc \in Before /\ disk.image = disk.source
        /\ proc[r].pc = "check"
    BY <1>2 DEF Available, Before
  <2> HIDE DEF p
  <2>3. Told(r, p, folder)
    BY <1>a, <2>1, <2>2 DEF Told, Described, Working, Pooled, Writing, Answered
  <2>4. Sourced(r, p, folder)
    BY <1>0, <1>a, <2>1, <2>2 DEF Sourced, Ended
  <2> QED
    BY <2>2, <2>3, <2>4, TellsOfStep
<1>3. CASE Unavailable(r)
  BY <1>3, <1>c DEF Unavailable, Before, Described, Working, Pooled, Writing
<1>4. CASE MakeFolder(r)
  <2> DEFINE p == WithPool(r)
             f == [ folder EXCEPT !.maker = r ]
  <2>1. /\ p.pc = "execute" /\ p.config = proc[r].config /\ p.checked = proc[r].checked
        /\ p.ran = [ i \in DOMAIN Work(r) |-> NotRun ]
    BY <1>0 DEF Process, WithPool, Goto
  <2>2. f.maker = r /\ f.meta = folder.meta /\ f.mismatches = folder.mismatches
    BY <1>0 DEF Folder
  <2>3. Becomes(r, p, f) /\ folder.maker = Nobody /\ proc[r].pc = "mkdir"
    BY <1>4 DEF MakeFolder
  <2> HIDE DEF p, f
  <2>4. Told(r, p, f)
    BY <1>0, <2>1, <2>2, <2>3 DEF Told, Marked, Before, Described, Answered
  <2>5. Sourced(r, p, f)
    <3>1. proc[r].pc \in Before
      BY <2>3 DEF Before
    <3>2. f.meta.by # r
      BY <1>a, <2>2, <3>1
    <3>3. p.pc \notin Before /\ p.pc # "meta" /\ proc[r].pc \notin Ended \union {"load", "check"}
      BY <2>1, <2>3 DEF Before, Ended
    <3>4. \A i \in DOMAIN p.ran : p.ran[i] = NotRun
      BY <2>1
    <3> QED
      BY <1>0, <2>1, <3>2, <3>3, <3>4 DEF Sourced
  <2> QED
    BY <2>2, <2>3, <2>4, <2>5, TellsOfStep
<1>5. CASE FolderExists(r)
  BY <1>5, <1>c DEF FolderExists, Stages, Ended, Answered, Before, Described, Working, Pooled, Writing
<1>6. ASSUME NEW i \in DOMAIN Tasks(r), StartTask(r, i) PROVE Tells'
  <2> DEFINE image == IF DeliveredTask(r, i) THEN disk.image ELSE NotRun
             p == [ WithTask(r, i, "running") EXCEPT !.ran[i] = image ]
  <2>1. Becomes(r, p, folder) /\ proc[r].pc = "execute"
    BY <1>6 DEF StartTask
  <2>2. /\ p.pc = proc[r].pc /\ p.config = proc[r].config /\ p.checked = proc[r].checked
        /\ p.meta = proc[r].meta /\ p.ran = [ proc[r].ran EXCEPT ![i] = image ]
    BY <1>0 DEF Process, WithTask
  <2>3. image \in {disk.image, NotRun}
    OBVIOUS
  <2> HIDE DEF p, image
  <2>4. Told(r, p, folder)
    BY <1>0, <2>2 DEF Told
  <2>5. Sourced(r, p, folder)
    <3>1. proc[r].pc \notin Ended \union {"load", "check"} /\ p.pc \notin Before
      BY <2>1, <2>2 DEF Ended, Before
    <3>2. ASSUME r \notin disturbed, NEW j \in DOMAIN p.ran
          PROVE  p.ran[j] \in {p.checked.source, NotRun}
      <4>1. image \in {p.checked.source, NotRun}
        BY <1>0, <2>2, <2>3, <3>1, <3>2 DEF Sourced
      <4>2. j \in DOMAIN proc[r].ran /\ p.ran[j] \in {image, proc[r].ran[j]}
        BY <2>2, <3>2
      <4>3. proc[r].ran[j] \in {p.checked.source, NotRun}
        BY <1>0, <2>2, <3>2, <4>2 DEF Sourced
      <4> QED
        BY <4>1, <4>2, <4>3
    <3> QED
      BY <1>0, <2>2, <3>1, <3>2 DEF Sourced
  <2> QED
    BY <2>1, <2>4, <2>5, TellsOfStep
<1>7. ASSUME NEW p, Becomes(r, p, folder), proc[r].pc \in {"execute", "shutdown"},
             p.pc \in {"execute", "shutdown"}, Same(p, proc[r])
      PROVE  Tells'
  <2>1. p.pc \in Stages \ Answered /\ p.pc \notin Before \union Described \union {"load", "meta", "mkdir"}
        /\ proc[r].pc \in Working \ Answered
    BY <1>7 DEF Stages, Answered, Before, Described, Working
  <2> QED
    BY <1>7, <2>1, TellsOfGoto
<1>8. ASSUME NEW i \in DOMAIN Tasks(r), TaskEnds(r, i) \/ TaskRaises(r, i) PROVE Tells'
  <2>1. \A state : LET p == WithTask(r, i, state) IN p.pc = proc[r].pc /\ Same(p, proc[r])
    BY <1>0 DEF Process, WithTask, Same
  <2> QED
    BY <1>7, <1>8, <2>1 DEF TaskEnds, TaskRaises
<1>9. CASE PoolFails(r)
  <2> DEFINE left == [ j \in DOMAIN Tasks(r) |->
                         IF Tasks(r)[j] = "queued" THEN "cancelled" ELSE Tasks(r)[j] ]
             p == [ Goto(r, "shutdown") EXCEPT !.tasks = left ]
  <2>1. p.pc = "shutdown" /\ Same(p, proc[r])
    BY <1>0 DEF Goto, Process, Same
  <2>2. Becomes(r, p, folder) /\ proc[r].pc = "execute"
    BY <1>9 DEF PoolFails
  <2> HIDE DEF p
  <2> QED
    BY <1>7, <2>1, <2>2
<1>10. CASE Shutdown(r) \/ Gather(r) \/ Crash(r)
  BY <1>10, <1>c DEF Shutdown, Gather, Crash, Stages, Ended, Answered, Before, Described, Working,
     Pooled, Writing
<1>11. CASE OpenCsv(r) \/ WriteRow(r) \/ CloseCsv(r)
  <2>1. ASSUME NEW csv, NEW f, f = [ folder EXCEPT !.csv = csv ]
        PROVE  f.maker = folder.maker /\ f.meta = folder.meta /\ f.mismatches = folder.mismatches
    BY <1>0, <2>1 DEF Folder
  <2>2. CASE OpenCsv(r)
    BY <1>c, <2>1, <2>2 DEF OpenCsv, Stages, Ended, Answered, Before, Described, Working, Pooled, Writing
  <2>3. CASE CloseCsv(r)
    BY <1>c, <2>1, <2>3 DEF CloseCsv, Stages, Ended, Answered, Before, Described, Working, Pooled, Writing
  <2>4. CASE WriteRow(r)
    <3>1. CASE Becomes(r, Goto(r, "raised"), folder)
      BY <1>c, <3>1 DEF Stages, Ended, Answered, Before, Described, Working, Pooled, Writing
    <3>2. CASE ~Becomes(r, Goto(r, "raised"), folder)
      <4> DEFINE f == [ folder EXCEPT !.csv.holds = Append(@, Rows(r)[Len(Written) + 1]) ]
      <4>1. Becomes(r, proc[r], f) /\ proc[r].pc = "write"
        BY <2>4, <3>2 DEF WriteRow
      <4>2. f.maker = folder.maker /\ f.meta = folder.meta /\ f.mismatches = folder.mismatches
        BY <1>0 DEF Folder
      <4>3. Same(proc[r], proc[r])
        BY DEF Same
      <4> HIDE DEF f
      <4> QED
        BY <4>1, <4>2, <4>3, TellsOfGoto DEF Stages, Answered, Before, Described, Working, Pooled, Writing
    <3> QED
      BY <3>1, <3>2
  <2> QED
    BY <1>11, <2>2, <2>3, <2>4
<1>12. CASE Describe(r)
  <2> DEFINE p == [ Goto(r, "meta") EXCEPT !.meta = disk ]
  <2>1. /\ p.pc = "meta" /\ p.config = proc[r].config /\ p.ran = proc[r].ran
        /\ p.checked = proc[r].checked /\ p.meta = disk
    BY <1>0 DEF Process, Goto
  <2>2. Becomes(r, p, folder) /\ proc[r].pc = "describe"
    BY <1>12 DEF Describe
  <2> HIDE DEF p
  <2>3. Told(r, p, folder)
    BY <1>0, <2>1, <2>2 DEF Told, Before, Described, Working, Pooled, Writing, Answered
  <2>4. Sourced(r, p, folder)
    BY <1>0, <2>1, <2>2 DEF Sourced, Before, Ended
  <2> QED
    BY <2>2, <2>3, <2>4, TellsOfStep
<1>13. CASE WriteMeta(r)
  <2>1. /\ proc[r].pc = "meta" /\ folder.maker = r /\ folder.mismatches = NoFile
    BY <1>0, <1>13 DEF WriteMeta, IInv, Owner, Told, Working, Pooled, Writing, Answered
  <2>2. CASE folder.meta.state = "absent"
    <3> DEFINE f == [ folder EXCEPT !.meta = File(r, "empty", None) ]
    <3>1. f.maker = r /\ f.mismatches = NoFile /\ f.meta.by = r /\ f.meta.state = "empty"
      BY <1>0, <2>1 DEF Folder, File
    <3>2. Becomes(r, proc[r], f)
      BY <1>13, <2>2 DEF WriteMeta
    <3> HIDE DEF f
    <3>3. Told(r, proc[r], f) /\ Sourced(r, proc[r], f)
      BY <1>0, <2>1, <3>1 DEF Told, Sourced, Before, Described, Answered
    <3> QED
      BY <2>1, <3>1, <3>2, <3>3, TellsOfStep
  <2>3. CASE folder.meta.state # "absent"
    <3> DEFINE f == [ folder EXCEPT !.meta = File(r, "whole", proc[r].meta) ]
               p == Goto(r, "mismatches")
    <3>1. /\ f.maker = r /\ f.mismatches = NoFile /\ f.meta.by = r /\ f.meta.state = "whole"
          /\ f.meta.holds = proc[r].meta
      BY <1>0, <2>1 DEF Folder, File
    <3>2. Becomes(r, p, f)
      BY <1>13, <2>3 DEF WriteMeta
    <3>3. p.pc = "mismatches" /\ Same(p, proc[r])
      BY <1>b DEF Stages
    <3> HIDE DEF f, p
    <3>4. Told(r, p, f)
      BY <3>1, <3>3 DEF Told, Before, Answered
    <3>5. Sourced(r, p, f)
      <4>1. proc[r].pc \notin Ended \union {"load", "check"} /\ p.pc \notin Before /\ p.pc # "meta"
        BY <2>1, <3>3 DEF Ended, Before
      <4> QED
        BY <1>0, <2>1, <3>1, <3>3, <4>1 DEF Sourced, Same
    <3> QED
      BY <2>1, <3>1, <3>2, <3>4, <3>5, TellsOfStep
  <2> QED
    BY <2>2, <2>3
<1>14. CASE WriteMismatches(r)
  <2> DEFINE found == Mismatches(records, Specs)
  <2>1. /\ proc[r].pc = "mismatches" /\ folder.maker = r /\ folder.mismatches = NoFile
        /\ folder.meta.by = r /\ folder.meta.state = "whole"
    BY <1>0, <1>14 DEF WriteMismatches, IInv, Owner, Told, Working, Pooled, Writing, Answered, Described
  <2>2. ASSUME NEW stage \in Answered, NEW f, Becomes(r, Goto(r, stage), f),
               f.maker = r, f.meta = folder.meta,
               f.mismatches.state = (IF found = {} THEN "absent" ELSE "whole"),
               stage = "ok" => allow \/ found = {}
        PROVE  Tells'
    <3> DEFINE p == Goto(r, stage)
    <3>1. p.pc = stage /\ Same(p, proc[r])
      BY <1>b DEF Stages, Ended, Answered
    <3> HIDE DEF p
    <3>2. Told(r, p, f)
      BY <2>1, <2>2, <3>1 DEF Told, Before, Answered
    <3>3. Sourced(r, p, f)
      <4>1. p.pc \in Ended /\ p.pc \notin Before \union {"meta"}
        BY <2>2, <3>1 DEF Ended, Answered, Before
      <4> QED
        BY <1>0, <2>1, <2>2, <3>1, <4>1 DEF Sourced, Same
    <3> QED
      BY <2>1, <2>2, <3>2, <3>3, TellsOfStep DEF p
  <2>3. CASE found = {}
    <3>1. Becomes(r, Goto(r, "ok"), folder)
      BY <1>14, <2>3 DEF WriteMismatches
    <3> QED
      BY <2>1, <2>2, <2>3, <3>1 DEF Answered, NoFile
  <2>4. CASE found # {}
    <3> DEFINE f == [ folder EXCEPT !.mismatches = File(r, "whole", found) ]
               stage == IF allow THEN "ok" ELSE "mismatch"
    <3>1. f.maker = r /\ f.meta = folder.meta /\ f.mismatches.state = "whole"
      BY <1>0, <2>1 DEF Folder, File
    <3>2. Becomes(r, Goto(r, stage), f) /\ stage \in Answered /\ (stage = "ok" => allow)
      BY <1>14, <2>4 DEF WriteMismatches, Answered
    <3> HIDE DEF f, stage, found
    <3> QED
      BY <2>2, <2>4, <3>1, <3>2
  <2> QED
    BY <2>3, <2>4
<1> QED
  BY <1>1, <1>2, <1>3, <1>4, <1>5, <1>6, <1>8, <1>9, <1>10, <1>11, <1>12, <1>13, <1>14 DEF Step

\* An edit disturbs who is under way, and changes nothing of the others.
LEMMA NextTells == IInv /\ Tells /\ [Next]_vars => Tells'
<1> SUFFICES ASSUME IInv, Tells, [Next]_vars PROVE Tells'
  OBVIOUS
<1>1. IInv'
  BY NextKeeps
<1>2. ASSUME NEW r \in Runners, Step(r) \/ Crash(r) PROVE Tells'
  BY <1>1, <1>2, StepTells
<1>3. CASE EditConfig \/ EditSource \/ BuildImage
  <2>1. /\ UNCHANGED << records, allow, proc, folder >>
        /\ disturbed' = disturbed \union UnderWay
    BY <1>3 DEF EditConfig, EditSource, BuildImage, Edit
  <2>2. ASSUME NEW r \in Runners
        PROVE  Told(r, proc[r], folder)' /\ Sourced(r, proc[r], folder)'
    <3>1. Told(r, proc[r], folder) /\ Sourced(r, proc[r], folder)
      BY DEF Tells
    <3>2. r \notin disturbed' => r \notin disturbed /\ proc[r].pc \in Ended \union {"load"}
      BY <2>1 DEF UnderWay
    <3>3. "meta" \notin Ended \union {"load"}
      BY DEF Ended
    <3>4. Told(r, proc[r], folder)'
      BY <2>1, <3>1 DEF Told
    <3>5. Sourced(r, proc[r], folder)'
      BY <2>1, <3>1, <3>2, <3>3 DEF Sourced
    <3> QED
      BY <3>4, <3>5
  <2> QED
    BY <2>1, <2>2 DEF Tells, Marked
<1>4. CASE Done \/ UNCHANGED vars
  BY <1>4 DEF Done, vars, env, Tells, Told, Sourced, Marked
<1> QED
  BY <1>2, <1>3, <1>4 DEF Next

LEMMA InitTells == Init => Tells
<1> SUFFICES ASSUME Init PROVE Tells
  OBVIOUS
<1>1. folder = NoFolder /\ Marked(folder)
  BY DEF Init, Marked, NoFolder
<1>2. ASSUME NEW r \in Runners PROVE Told(r, proc[r], folder) /\ Sourced(r, proc[r], folder)
  <2>1. /\ proc[r].pc = "load" /\ proc[r].ran = << >>
        /\ folder.maker # r /\ folder.meta.by # r
    BY NobodyAssumption DEF Init, Start, NoFolder, NoFile
  <2>2. Told(r, proc[r], folder)
    BY <2>1 DEF Told, Described, Working, Pooled, Writing, Answered
  <2>3. Sourced(r, proc[r], folder)
    BY <2>1 DEF Sourced
  <2> QED
    BY <2>2, <2>3
<1> QED
  BY <1>1, <1>2 DEF Tells

THEOREM FolderTells == Spec => [](IInv /\ Tells)
<1>1. IInv /\ Tells /\ [Next]_vars => IInv' /\ Tells'
  BY NextKeeps, NextTells
<1> QED
  BY InitIInv, InitTells, <1>1, PTL DEF Spec

\* However the pool is scheduled: if nothing was edited or rebuilt while a run went on,
\* its rows are of the source and the configuration that run_meta.json names, both of
\* which it reads only after the last row (run_experiments.main, run_metadata).
THEOREM RowsOfTheSource == Spec => []RowsAreOfTheSource
<1>1. ASSUME IInv, Tells, folder.meta.state = "whole", folder.meta.by \notin disturbed
      PROVE  LET r == folder.meta.by IN
             /\ folder.meta.holds = proc[r].checked /\ folder.meta.holds.config = proc[r].config
             /\ \A i \in DOMAIN proc[r].ran : proc[r].ran[i] \in {folder.meta.holds.source, NotRun}
  <2> DEFINE r == folder.meta.by
  <2>1. r \in Runners
    BY <1>1 DEF Tells, Marked, NoFile
  <2>2. Sourced(r, proc[r], folder)
    BY <1>1, <2>1 DEF Tells
  <2> QED
    BY <1>1, <2>2 DEF Sourced
<1>2. IInv /\ Tells => RowsAreOfTheSource
  BY <1>1 DEF RowsAreOfTheSource
<1> QED
  BY FolderTells, <1>2, PTL

\* Exit code 2 left no trace, 0 and 3 a folder with metadata and with the list of the
\* mismatches if there are any; 0 only if there are none, or they were allowed
\* (run_experiments.main), whatever other processes do.
THEOREM ExitTells == Spec => []ExitCodeTells
<1>1. ASSUME Tells, NEW r \in Runners
      PROVE  /\ proc[r].pc = "refused" => folder.maker # r
             /\ proc[r].pc \in {"ok", "mismatch"} => folder.meta.by = r /\ folder.meta.state = "whole"
             /\ proc[r].pc \in {"ok", "mismatch"} =>
                  folder.mismatches.state = (IF Mismatches(records, Specs) = {} THEN "absent" ELSE "whole")
             /\ proc[r].pc = "ok" => allow \/ Mismatches(records, Specs) = {}
  BY <1>1 DEF Tells, Told, Before, Described, Answered
<1>2. Tells => ExitCodeTells
  BY <1>1 DEF ExitCodeTells
<1> QED
  BY FolderTells, <1>2, PTL

-----------------------------------------------------------------------------
(***************************************************************************)
(* What is in results.csv: a beginning of the rows that its writer planned *)
(* by the configuration it loaded, all of them once it is closed; and only *)
(* then are there metadata.                                                *)
(***************************************************************************)
Loaded == Stages \ {"load", "refused", "raised", "crashed"}
Made == {"describe", "meta", "mismatches", "ok", "mismatch"}

Planned(p) ==
  /\ p.config \in DOMAIN Configs
  /\ p.work = Matrix(records, Specs, Configs[p.config])

Beginning(csv, rows) ==
  /\ Len(csv.holds) <= Len(rows)
  /\ csv.holds = SubSeq(rows, 1, Len(csv.holds))
  /\ csv.state = "closed" => csv.holds = rows

Filled ==
  /\ disk \in [ config : DOMAIN Configs, source : {disk.source}, image : {disk.image} ]
  /\ \A r \in Runners : proc[r].pc \in Loaded => Planned(proc[r])
  /\ \A r \in Runners : proc[r].pc \in Made => folder.csv.state = "closed"
  /\ folder.csv # NoFile =>
       Planned(proc[folder.csv.by]) /\ Beginning(folder.csv, Sorted(proc[folder.csv.by].work))
  /\ folder.meta.state # "absent" =>
       folder.csv # NoFile /\ folder.csv.state = "closed" /\ folder.csv.by = folder.meta.by

\* The rows of the work are those of the loops.
LEMMA RowsOfLoops ==
  ASSUME NEW config
  PROVE  RowsOf(config) =
           Combinations(Applicable(Specs, records[1].decoder), ToSet(config.modes), config.reps)
BY DEF RowsOf, Combinations, Applicable

\* The rows of a process are those its configuration asks for, each once.
LEMMA RowsList ==
  ASSUME NEW p, Planned(p)
  PROVE  Enumerates(Sorted(p.work), RowsOf(Configs[p.config]))
<1> DEFINE c == Configs[p.config]
           chosen == Applicable(Specs, records[1].decoder)
<1>1. /\ c.modes \in Seq(DOMAIN ModeRank)
      /\ \A j, k \in DOMAIN c.modes : c.modes[j] = c.modes[k] => j = k
      /\ c.reps \in Nat
  BY ConfigsAssumption DEF Planned
<1>2. chosen \subseteq ToSet(Specs)
  BY DEF Applicable
<1>3. p.work = Loops(chosen, Specs, c.modes, c.reps)
  BY DEF Planned, Matrix
<1>4. Enumerates(p.work, RowsOf(Configs[p.config]))
  <2> DEFINE modes == c.modes
             reps == c.reps
  <2> HIDE DEF c, chosen
  <2>a. Specs \in Seq(ToSet(Specs))
    BY SpecsAssumption
  <2>b. \A j, k \in DOMAIN Specs : Specs[j].id = Specs[k].id => j = k
    BY SpecsAssumption
  <2>c. modes \in Seq(DOMAIN ModeRank) /\ reps \in Nat
    BY <1>1
  <2>d. \A j, k \in DOMAIN modes : modes[j] = modes[k] => j = k
    BY <1>1
  <2> HIDE DEF modes, reps
  <2>1. Enumerates(Loops(chosen, Specs, modes, reps), Combinations(chosen, ToSet(modes), reps))
    BY <1>2, <2>a, <2>b, <2>c, <2>d, LoopsList
  <2> QED
    BY <1>3, <2>1, RowsOfLoops DEF c, chosen, modes, reps
<1>5. ASSUME NEW x \in RowsOf(Configs[p.config])
      PROVE  x.mode \in DOMAIN ModeRank /\ x.id \in Int /\ x.rep \in Int
  <2>1. PICK s \in chosen, m \in ToSet(c.modes), n \in 0..(c.reps - 1) :
          x = [ id |-> s.id, mode |-> m, rep |-> n ]
    BY RowsOfLoops DEF Combinations
  <2>2. m \in DOMAIN ModeRank
    BY <1>1 DEF ToSet
  <2>3. PICK j \in DOMAIN Specs : Specs[j] = s
    BY <1>2 DEF ToSet
  <2>5. s.id \in Int
    BY <2>3, SpecsAssumption
  <2>4. n \in Int
    BY <1>1
  <2> QED
    BY <2>1, <2>2, <2>4, <2>5
<1> QED
  BY <1>4, <1>5, SortedLists

\* What a step of process r has to see to
LEMMA FilledOfStep ==
  ASSUME IInv, Filled, NEW r \in Runners, NEW p, NEW f, Becomes(r, p, f),
         p.pc \in Loaded => Planned(p),
         p.pc \in Made => f.csv.state = "closed",
         f.csv # folder.csv => f.csv.by = r /\ (folder.csv = NoFile \/ folder.csv.by = r),
         f.csv # NoFile /\ f.csv.by = r => Planned(p) /\ Beginning(f.csv, Sorted(p.work)),
         f.meta.state # "absent" =>
           f.csv # NoFile /\ f.csv.state = "closed" /\ f.csv.by = f.meta.by
  PROVE  Filled'
<1>1. /\ proc'[r] = p /\ folder' = f /\ UNCHANGED << records, disk >>
      /\ \A q \in Runners \ {r} : proc'[q] = proc[q]
  BY DEF Becomes, IInv, Shape, env
<1>2. ASSUME NEW q \in Runners, q # r PROVE f.csv # folder.csv => proc[q].pc \notin Made
  <2>1. proc[q].pc \in Made => folder.csv.by = q
    BY DEF IInv, Rowed, Made, Writing
  <2>2. NoFile.by # q
    BY NobodyAssumption DEF NoFile
  <2> QED
    BY <1>2, <2>1, <2>2
<1>3. ASSUME NEW q \in Runners, proc'[q].pc \in Loaded PROVE Planned(proc[q])'
  BY <1>1, <1>3 DEF Filled, Planned
<1>4. ASSUME NEW q \in Runners, proc'[q].pc \in Made PROVE f.csv.state = "closed"
  <2>1. CASE q = r
    BY <1>1, <1>4, <2>1
  <2>2. CASE q # r
    BY <1>1, <1>2, <1>4, <2>2 DEF Filled
  <2> QED
    BY <2>1, <2>2
<1>5. ASSUME f.csv # NoFile
      PROVE  Planned(proc[f.csv.by])' /\ Beginning(f.csv, Sorted(proc'[f.csv.by].work))
  <2>1. CASE f.csv.by = r
    BY <1>1, <1>5, <2>1 DEF Planned
  <2>2. CASE f.csv.by # r
    <3>1. f.csv = folder.csv /\ folder.csv.by \in Runners
      BY <1>5, <2>2 DEF IInv, Rowed
    <3>2. proc'[f.csv.by] = proc[folder.csv.by]
      BY <1>1, <2>2, <3>1
    <3> QED
      BY <1>1, <1>5, <3>1, <3>2 DEF Filled, Planned
  <2> QED
    BY <2>1, <2>2
<1>6. disk' \in [ config : DOMAIN Configs, source : {disk'.source}, image : {disk'.image} ]
  BY <1>1 DEF Filled
<1>7. Planned(proc[folder.csv.by])' <=> Planned(proc[f.csv.by])'
  BY <1>1 DEF Planned
<1> QED
  BY <1>1, <1>3, <1>4, <1>5, <1>6, <1>7 DEF Filled, Beginning

\* A step that leaves results.csv and the metadata, the configuration and the work
LEMMA FilledOfGoto ==
  ASSUME IInv, Filled, NEW r \in Runners, NEW p, NEW f, Becomes(r, p, f),
         f.csv = folder.csv, f.meta = folder.meta,
         p.config = proc[r].config, p.work = proc[r].work,
         p.pc \in Loaded => proc[r].pc \in Loaded,
         p.pc \in Made => proc[r].pc \in Made
  PROVE  Filled'
<1>1. p.pc \in Loaded => Planned(p)
  BY DEF Filled, Planned
<1>2. p.pc \in Made => f.csv.state = "closed"
  BY DEF Filled
<1>3. f.csv # NoFile /\ f.csv.by = r => Planned(p) /\ Beginning(f.csv, Sorted(p.work))
  BY DEF Filled, Planned
<1>4. f.meta.state # "absent" => f.csv # NoFile /\ f.csv.state = "closed" /\ f.csv.by = f.meta.by
  BY DEF Filled
<1> QED
  BY <1>1, <1>2, <1>3, <1>4, FilledOfStep

\* One more row is a longer beginning.
LEMMA NextRow ==
  ASSUME NEW S, NEW rows \in Seq(S), NEW n \in Nat, n + 1 <= Len(rows)
  PROVE  /\ Append(SubSeq(rows, 1, n), rows[n + 1]) = SubSeq(rows, 1, n + 1)
         /\ Len(SubSeq(rows, 1, n)) = n /\ Len(SubSeq(rows, 1, n + 1)) = n + 1
  OBVIOUS

\* Every step of a process keeps what is in results.csv.
LEMMA StepFills ==
  ASSUME IInv, Filled, NEW r \in Runners, Step(r) \/ Crash(r)
  PROVE  Filled'
<1> USE DEF At
<1>0. Shape /\ Process(proc[r]) /\ Folder(folder)
  BY DEF IInv, Shape
<1>a. ASSUME NEW stage \in Stages, NEW f, f.csv = folder.csv, f.meta = folder.meta,
             Becomes(r, Goto(r, stage), f),
             stage \in Loaded => proc[r].pc \in Loaded,
             stage \in Made => proc[r].pc \in Made
      PROVE  Filled'
  <2>1. Goto(r, stage).pc = stage /\ Goto(r, stage).config = proc[r].config /\ Goto(r, stage).work = proc[r].work
    BY <1>0 DEF Process, Goto
  <2> QED
    BY <1>a, <2>1, FilledOfGoto
<1>b. ASSUME NEW p, NEW f, f.csv = folder.csv, f.meta = folder.meta, Becomes(r, p, f),
             p.config = proc[r].config, p.work = proc[r].work,
             proc[r].pc \in Loaded, p.pc \notin Made
      PROVE  Filled'
  BY <1>b, FilledOfGoto
<1>1. CASE Load(r)
  <2> DEFINE loaded == [ proc[r] EXCEPT !.config = disk.config ]
             p == IF Accepts(records, Specs, Configs[disk.config])
                  THEN [ loaded EXCEPT !.pc = "check",
                                       !.work = Matrix(records, Specs, Configs[disk.config]) ]
                  ELSE [ loaded EXCEPT !.pc = "refused" ]
  <2>1. /\ p.pc \in {"check", "refused"} /\ p.config = disk.config
        /\ p.pc = "check" => p.work = Matrix(records, Specs, Configs[disk.config])
    BY <1>0 DEF Process
  <2>2. Becomes(r, p, folder) /\ proc[r].pc = "load"
    BY <1>1 DEF Load
  <2> HIDE DEF p
  <2>3. p.pc \in Loaded => Planned(p)
    BY <2>1 DEF Filled, Planned, Loaded
  <2>4. p.pc \notin Made
    BY <2>1 DEF Made
  <2>5. ~(folder.csv # NoFile /\ folder.csv.by = r)
    BY <2>2 DEF IInv, Rowed, Writing
  <2>6. folder.meta.state # "absent" =>
          folder.csv # NoFile /\ folder.csv.state = "closed" /\ folder.csv.by = folder.meta.by
    BY DEF Filled
  <2> QED
    BY <2>2, <2>3, <2>4, <2>5, <2>6, FilledOfStep
<1>2. CASE Available(r)
  <2> DEFINE p == [ Goto(r, "mkdir") EXCEPT !.checked = disk ]
  <2>1. p.pc = "mkdir" /\ p.config = proc[r].config /\ p.work = proc[r].work
    BY <1>0 DEF Process, Goto
  <2>2. Becomes(r, p, folder) /\ proc[r].pc \in Loaded
    BY <1>2 DEF Available, Loaded, Stages
  <2> HIDE DEF p
  <2> QED
    BY <2>1, <2>2, <1>b DEF Made
<1>3. CASE Unavailable(r)
  <2>1. Becomes(r, Goto(r, "refused"), folder)
    BY <1>3 DEF Unavailable
  <2> QED
    BY <2>1, <1>a DEF Stages, Ended, Loaded, Made
<1>4. CASE MakeFolder(r)
  <2> DEFINE p == WithPool(r)
             f == [ folder EXCEPT !.maker = r ]
  <2>1. p.pc = "execute" /\ p.config = proc[r].config /\ p.work = proc[r].work
    BY <1>0 DEF Process, WithPool, Goto
  <2>2. f.csv = folder.csv /\ f.meta = folder.meta
    BY <1>0 DEF Folder
  <2>3. Becomes(r, p, f) /\ proc[r].pc \in Loaded
    BY <1>4 DEF MakeFolder, Loaded, Stages
  <2> HIDE DEF p, f
  <2> QED
    BY <2>1, <2>2, <2>3, <1>b DEF Made
<1>5. ASSUME FolderExists(r) \/ Shutdown(r) PROVE Filled'
  <2>1. Becomes(r, Goto(r, "raised"), folder)
    BY <1>5 DEF FolderExists, Shutdown
  <2> QED
    BY <2>1, <1>a DEF Stages, Ended, Loaded, Made
<1>6. ASSUME NEW i \in DOMAIN Tasks(r), StartTask(r, i) \/ TaskEnds(r, i) \/ TaskRaises(r, i)
      PROVE  Filled'
  <2>1. proc[r].pc \in Loaded \ Made
    BY <1>6 DEF StartTask, TaskEnds, TaskRaises, Loaded, Made, Stages, Ended
  <2>2. ASSUME NEW s
        PROVE  /\ Process(WithTask(r, i, s)) /\ WithTask(r, i, s).pc = proc[r].pc
               /\ WithTask(r, i, s).config = proc[r].config /\ WithTask(r, i, s).work = proc[r].work
    BY <1>0 DEF Process, WithTask
  <2>3. CASE StartTask(r, i)
    <3> DEFINE image == IF DeliveredTask(r, i) THEN disk.image ELSE NotRun
               p == [ WithTask(r, i, "running") EXCEPT !.ran[i] = image ]
    <3>1. p.pc = proc[r].pc /\ p.config = proc[r].config /\ p.work = proc[r].work
      BY <2>2 DEF Process
    <3>2. Becomes(r, p, folder)
      BY <2>3 DEF StartTask
    <3> HIDE DEF p
    <3> QED
      BY <2>1, <3>1, <3>2, <1>b
  <2>4. CASE TaskEnds(r, i)
    <3>1. Becomes(r, WithTask(r, i, "row"), folder)
      BY <2>4 DEF TaskEnds
    <3> QED
      BY <2>1, <2>2, <3>1, <1>b
  <2>5. CASE TaskRaises(r, i)
    <3>1. Becomes(r, WithTask(r, i, "raised"), folder)
      BY <2>5 DEF TaskRaises
    <3> QED
      BY <2>1, <2>2, <3>1, <1>b
  <2> QED
    BY <1>6, <2>3, <2>4, <2>5
<1>7. CASE PoolFails(r)
  <2> DEFINE left == [ j \in DOMAIN Tasks(r) |->
                         IF Tasks(r)[j] = "queued" THEN "cancelled" ELSE Tasks(r)[j] ]
             p == [ Goto(r, "shutdown") EXCEPT !.tasks = left ]
  <2>1. p.pc = "shutdown" /\ p.config = proc[r].config /\ p.work = proc[r].work
    BY <1>0 DEF Goto, Process
  <2>2. Becomes(r, p, folder) /\ proc[r].pc \in Loaded
    BY <1>7 DEF PoolFails, Loaded, Stages
  <2> HIDE DEF p
  <2> QED
    BY <2>1, <2>2, <1>b DEF Made
<1>8. CASE Gather(r)
  <2>1. proc[r].pc = "execute" /\ Becomes(r, Goto(r, "open"), folder)
    BY <1>8 DEF Gather
  <2> QED
    BY <2>1, <1>a DEF Stages, Loaded, Made
<1>9. CASE OpenCsv(r)
  <2>1. proc[r].pc = "open" /\ Planned(proc[r])
    BY <1>9 DEF OpenCsv, Filled, Loaded, Stages
  <2>2. CASE folder.csv = NoFile
    <3> DEFINE p == Goto(r, "write")
               f == [ folder EXCEPT !.csv = File(r, "open", << >>) ]
    <3>1. p.pc = "write" /\ p.config = proc[r].config /\ p.work = proc[r].work
      BY <1>0 DEF Process, Goto
    <3>2. f.csv = File(r, "open", << >>) /\ f.meta = folder.meta
      BY <1>0 DEF Folder
    <3>3. Becomes(r, p, f)
      BY <1>9, <2>2 DEF OpenCsv
    <3> HIDE DEF p, f
    <3>4. Planned(p)
      BY <2>1, <3>1 DEF Planned
    <3>5. Sorted(p.work) \in Seq(RowsOf(Configs[p.config]))
      BY <3>4, RowsList DEF Enumerates
    <3>6. Beginning(f.csv, Sorted(p.work))
      <4> DEFINE rows == Sorted(p.work)
      <4>1. SubSeq(rows, 1, 0) = << >> /\ 0 <= Len(rows)
        <5> HIDE DEF rows
        <5> QED
          BY <3>5 DEF rows
      <4>2. f.csv.holds = << >> /\ f.csv.state = "open" /\ Len(<< >>) = 0
        BY <3>2 DEF File
      <4> HIDE DEF rows
      <4>3. Beginning(f.csv, rows)
        BY <4>1, <4>2 DEF Beginning
      <4> QED
        BY <4>3 DEF rows
    <3>7. f.meta.state = "absent" /\ f.csv.by = r
      BY <2>2, <3>2 DEF Filled, File
    <3> QED
      BY <2>2, <3>1, <3>3, <3>4, <3>6, <3>7, FilledOfStep DEF Made
  <2>3. CASE folder.csv # NoFile
    <3>1. Becomes(r, Goto(r, "raised"), folder)
      BY <1>9, <2>3 DEF OpenCsv
    <3> QED
      BY <3>1, <1>a DEF Stages, Ended, Loaded, Made
  <2> QED
    BY <2>2, <2>3
<1>10. ASSUME WriteRow(r) \/ CloseCsv(r) PROVE Filled'
  <2>1. proc[r].pc = "write" /\ Planned(proc[r]) /\ folder.csv.by = r
    BY <1>10 DEF WriteRow, CloseCsv, Filled, Loaded, Stages, IInv, Rowed, Writing
  <2>2. folder.csv # NoFile
    BY <2>1, NobodyAssumption DEF NoFile
  <2> DEFINE rows == Rows(r)
             n == Len(folder.csv.holds)
  <2>3. Beginning(folder.csv, rows)
    BY <2>1, <2>2 DEF Filled, Rows, Work
  <2>4. rows \in Seq(RowsOf(Configs[proc[r].config]))
    BY <2>1, RowsList DEF Enumerates, Rows, Work
  <2> HIDE DEF rows
  <2>5. folder.csv.holds = SubSeq(rows, 1, n) /\ n <= Len(rows)
        /\ (folder.csv.state = "closed" => folder.csv.holds = rows)
    BY <2>3 DEF Beginning
  <2>6. n \in Nat
    <3>1. folder.csv.holds \in Seq(RowsOf(Configs[proc[r].config]))
      BY <2>4, <2>5 DEF Beginning
    <3> QED
      BY <3>1, LenProperties
  <2> HIDE DEF n
  <2>7. CASE WriteRow(r)
    <3>1. n + 1 <= Len(rows)
      BY <2>7 DEF WriteRow, Written, rows, n
    <3>2. CASE Becomes(r, Goto(r, "raised"), folder)
      BY <3>2, <1>a DEF Stages, Ended, Loaded, Made
    <3>3. ASSUME ~Becomes(r, Goto(r, "raised"), folder) PROVE Filled'
      <4> DEFINE f == [ folder EXCEPT !.csv.holds = Append(@, rows[n + 1]) ]
      <4>1. Becomes(r, proc[r], f)
        BY <2>7, <3>3 DEF WriteRow, Written, rows, n
      <4>2. /\ f.csv.holds = Append(folder.csv.holds, rows[n + 1])
            /\ f.csv.by = r /\ f.csv.state = folder.csv.state /\ f.meta = folder.meta
        BY <1>0, <2>1 DEF Folder
      <4> HIDE DEF f
      <4>3. f.csv.holds = SubSeq(rows, 1, n + 1) /\ Len(f.csv.holds) = n + 1
        BY <2>4, <2>5, <2>6, <3>1, <4>2, NextRow
      <4>4. folder.csv.state # "closed"
        BY <2>4, <2>5, <2>6, <3>1 DEF n
      <4>5. Beginning(f.csv, rows)
        BY <3>1, <4>2, <4>3, <4>4 DEF Beginning
      <4>6. Beginning(f.csv, Sorted(proc[r].work))
        BY <4>5 DEF rows, Rows, Work
      <4>7. f.meta.state = "absent"
        BY <4>2, <4>4 DEF Filled
      <4>8. proc[r].pc \notin Made
        BY <2>1 DEF Made
      <4> QED
        BY <2>1, <4>1, <4>2, <4>6, <4>7, <4>8, FilledOfStep
    <3> QED
      BY <3>2, <3>3
  <2>8. CASE CloseCsv(r)
    <3> DEFINE p == Goto(r, "describe")
               f == [ folder EXCEPT !.csv.state = "closed" ]
    <3>1. Becomes(r, p, f) /\ n = Len(rows)
      BY <2>8 DEF CloseCsv, Written, rows, n
    <3>2. p.pc = "describe" /\ p.config = proc[r].config /\ p.work = proc[r].work
      BY <1>0 DEF Process, Goto
    <3>3. /\ f.csv.holds = folder.csv.holds /\ f.csv.by = r /\ f.csv.state = "closed"
          /\ f.meta = folder.meta
      BY <1>0, <2>1 DEF Folder
    <3> HIDE DEF p, f
    <3>4. folder.csv.holds = rows
      BY <2>4, <2>5, <3>1, SubSeqFull
    <3>5. Beginning(f.csv, rows)
      BY <2>3, <3>3, <3>4 DEF Beginning
    <3>6. Planned(p) /\ Beginning(f.csv, Sorted(p.work))
      BY <2>1, <3>2, <3>5 DEF Planned, rows, Rows, Work
    <3>7. f.csv # NoFile
      BY <3>3, NobodyAssumption DEF NoFile
    <3>8. f.meta.state # "absent" => f.csv.by = f.meta.by
      BY <2>1, <3>3 DEF Filled
    <3> QED
      BY <2>1, <3>1, <3>3, <3>6, <3>7, <3>8, FilledOfStep
  <2> QED
    BY <1>10, <2>7, <2>8
<1>11. CASE Describe(r)
  <2> DEFINE p == [ Goto(r, "meta") EXCEPT !.meta = disk ]
  <2>1. p.pc = "meta" /\ p.config = proc[r].config /\ p.work = proc[r].work
    BY <1>0 DEF Process, Goto
  <2>2. Becomes(r, p, folder) /\ proc[r].pc \in Loaded /\ proc[r].pc \in Made
    BY <1>11 DEF Describe, Loaded, Made, Stages
  <2> HIDE DEF p
  <2> QED
    BY <2>1, <2>2, FilledOfGoto
<1>12. CASE WriteMeta(r)
  <2>1. proc[r].pc = "meta" /\ folder.csv.by = r /\ folder.csv.state = "closed"
    BY <1>12 DEF WriteMeta, Filled, IInv, Rowed, Made, Writing
  <2>2. folder.csv # NoFile
    BY <2>1, NobodyAssumption DEF NoFile
  <2>3. Planned(proc[r]) /\ Beginning(folder.csv, Sorted(proc[r].work))
    BY <2>1, <2>2 DEF Filled
  <2>4. ASSUME NEW p, p \in {proc[r], Goto(r, "mismatches")}, NEW state, NEW holds,
               Becomes(r, p, [ folder EXCEPT !.meta = File(r, state, holds) ])
        PROVE  Filled'
    <3> DEFINE f == [ folder EXCEPT !.meta = File(r, state, holds) ]
    <3>1. f.csv = folder.csv /\ f.meta.by = r
      BY <1>0 DEF Folder, File
    <3>2. p.config = proc[r].config /\ p.work = proc[r].work
      BY <1>0, <2>4 DEF Process, Goto
    <3>3. Planned(p) /\ Beginning(f.csv, Sorted(p.work))
      BY <2>3, <3>1, <3>2 DEF Planned
    <3> HIDE DEF f
    <3>4. Becomes(r, p, f)
      BY <2>4 DEF f
    <3> QED
      BY <2>1, <2>2, <3>1, <3>3, <3>4, FilledOfStep
  <2> QED
    BY <1>12, <2>4 DEF WriteMeta
<1>13. CASE WriteMismatches(r)
  <2>1. proc[r].pc = "mismatches"
    BY <1>13 DEF WriteMismatches
  <2>2. ASSUME NEW stage \in {"ok", "mismatch"}, NEW f, f.csv = folder.csv, f.meta = folder.meta,
               Becomes(r, Goto(r, stage), f)
        PROVE  Filled'
    BY <2>1, <2>2, <1>a DEF Stages, Ended, Loaded, Made
  <2>3. CASE Becomes(r, Goto(r, "ok"), folder)
    BY <2>2, <2>3
  <2>4. CASE ~Becomes(r, Goto(r, "ok"), folder)
    <3> DEFINE f == [ folder EXCEPT !.mismatches = File(r, "whole", Mismatches(records, Specs)) ]
    <3>1. f.csv = folder.csv /\ f.meta = folder.meta
      BY <1>0 DEF Folder
    <3>2. Becomes(r, Goto(r, IF allow THEN "ok" ELSE "mismatch"), f)
      BY <1>13, <2>4 DEF WriteMismatches
    <3> HIDE DEF f
    <3> QED
      BY <2>2, <3>1, <3>2
  <2> QED
    BY <2>3, <2>4
<1>14. CASE Crash(r)
  <2>1. Becomes(r, Goto(r, "crashed"), folder)
    BY <1>14 DEF Crash
  <2> QED
    BY <2>1, <1>a DEF Stages, Ended, Loaded, Made
<1> QED
  BY <1>1, <1>2, <1>3, <1>4, <1>5, <1>6, <1>7, <1>8, <1>9, <1>10, <1>11, <1>12, <1>13, <1>14 DEF Step

LEMMA NextFills == IInv /\ Filled /\ [Next]_vars => Filled'
<1> SUFFICES ASSUME IInv, Filled, [Next]_vars PROVE Filled'
  OBVIOUS
<1>1. ASSUME NEW r \in Runners, Step(r) \/ Crash(r) PROVE Filled'
  BY <1>1, StepFills
<1>2. CASE EditConfig \/ EditSource \/ BuildImage
  <2>1. UNCHANGED << records, proc, folder >>
    BY <1>2 DEF EditConfig, EditSource, BuildImage, Edit
  <2>2. disk' \in [ config : DOMAIN Configs, source : {disk'.source}, image : {disk'.image} ]
    BY <1>2 DEF EditConfig, EditSource, BuildImage, Edit, Filled
  <2> QED
    BY <2>1, <2>2 DEF Filled, Planned, Beginning
<1>3. CASE Done \/ UNCHANGED vars
  BY <1>3 DEF Done, vars, env, Filled, Planned, Beginning
<1> QED
  BY <1>1, <1>2, <1>3 DEF Next

LEMMA InitFilled == Init => Filled
BY DEF Init, Filled, Start, NoFolder, NoFile, Loaded, Made

\* However processes are killed, at any step, and whatever is edited or rebuilt:
\* beside run_meta.json results.csv has exactly one row for every payload, mode and
\* repetition of the configuration of its writer (plan_work, execute, ResultWriter).
THEOREM MetaIsComplete == Spec => []MetaMeansComplete
<1>1. ASSUME Filled, folder.meta.state # "absent"
      PROVE  LET rows == RowsOf(Configs[proc[folder.meta.by].config])
             IN /\ folder.csv.state = "closed" /\ folder.csv.by = folder.meta.by
                /\ ToSet(Written) = rows /\ Len(Written) = Cardinality(rows)
  <2> DEFINE p == proc[folder.meta.by]
  <2>1. /\ folder.csv # NoFile /\ folder.csv.state = "closed" /\ folder.csv.by = folder.meta.by
        /\ Planned(p) /\ Written = Sorted(p.work)
    BY <1>1 DEF Filled, Beginning, Written
  <2> HIDE DEF p
  <2>2. Enumerates(Written, RowsOf(Configs[p.config]))
    BY <2>1, RowsList
  <2> QED
    BY <2>1, <2>2, ListsCount DEF p
<1>2. IInv /\ Filled => MetaMeansComplete
  BY <1>1 DEF MetaMeansComplete
<1>3. IInv /\ Filled /\ [Next]_vars => IInv' /\ Filled'
  BY NextKeeps, NextFills
<1> QED
  BY InitIInv, InitFilled, <1>2, <1>3, PTL DEF Spec

=============================================================================
