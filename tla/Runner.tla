------------------------------- MODULE Runner -------------------------------
(***************************************************************************)
(* harness/run_experiments.main, run by several processes that name the    *)
(* same output folder: at the same time, or one after another when the     *)
(* first has failed.  A process plans the work, makes the folder, runs the *)
(* work in a thread pool, writes results.csv row by row and then the       *)
(* metadata.  It can be killed at any step; meanwhile config.yaml and the  *)
(* source can be edited and the sandbox image rebuilt.                     *)
(***************************************************************************)
EXTENDS Plan

CONSTANTS
  Runners,          \* the processes
  Specs,            \* the payload set, a sequence of specs (see Plan)
  Inputs,           \* the records files and --allow-decode-mismatch flags of a run
  Configs,          \* the versions of config.yaml, as a function to their contents
  Jobs,             \* --jobs
  MaxEdits          \* bound: edits and rebuilds while processes run

ASSUME RunnerAssumption ==
  /\ Jobs \in Nat \ {0}
  /\ MaxEdits \in Nat

\* What load_payload_set and load_config hold of what they return.
ASSUME SpecsAssumption ==
  /\ Specs \in Seq(ToSet(Specs))
  /\ \A j \in DOMAIN Specs : Specs[j].id \in Nat
  /\ \A j, k \in DOMAIN Specs : Specs[j].id = Specs[k].id => j = k
ASSUME ConfigsAssumption ==
  \A c \in DOMAIN Configs :
    /\ Configs[c].modes \in Seq(DOMAIN ModeRank)
    /\ \A j, k \in DOMAIN Configs[c].modes : Configs[c].modes[j] = Configs[c].modes[k] => j = k
    /\ Configs[c].reps \in Nat \ {0}

Nobody == "nobody"
ASSUME NobodyAssumption == Nobody \notin Runners

VARIABLES
  records,          \* the records file
  allow,            \* --allow-decode-mismatch
  disk,             \* config.yaml, the version of the source, and that of the image
  edits,            \* how many edits there have been
  disturbed,        \* history: the processes that an edit happened under
  proc,             \* the processes, see Start
  folder            \* the output folder, see NoFolder

env == << records, allow, disk, edits, disturbed >>
vars == << env, proc, folder >>

None == [ none |-> TRUE ]
NotRun == -1        \* the image of a task that has run in none

\* Who made the folder; results.csv, run_meta.json and decode_mismatches.json,
\* each with its writer.
NoFile == [ by |-> Nobody, state |-> "absent", holds |-> None ]
NoFolder == [ maker |-> Nobody, csv |-> NoFile, meta |-> NoFile, mismatches |-> NoFile ]
File(r, state, holds) == [ by |-> r, state |-> state, holds |-> holds ]

\* Where main is, the configuration it loaded and the work it planned, the state of
\* the tasks of its pool and the image each ran in (history), the disk when it was
\* checked (history), and the metadata it has read and not yet written.
Start == [ pc |-> "load", config |-> 0, work |-> << >>, tasks |-> << >>,
           ran |-> << >>, checked |-> None, meta |-> None ]

Ended == {"ok", "mismatch", "refused", "raised", "crashed"}
Stages == {"load", "check", "mkdir", "execute", "shutdown", "open", "write",
           "describe", "meta", "mismatches"} \union Ended

At(r, stage) == proc[r].pc = stage
Tasks(r) == proc[r].tasks
Work(r) == proc[r].work
Rows(r) == Sorted(Work(r))
DeliveredTask(r, i) == RecordOf(records, Work(r)[i].id).delivered
Running(r) == { i \in DOMAIN Tasks(r) : Tasks(r)[i] = "running" }

Init ==
  /\ \E in \in Inputs : records = in.records /\ allow = in.allow
  /\ disk \in [ config : DOMAIN Configs, source : {0}, image : {0} ]
  /\ edits = 0 /\ disturbed = {}
  /\ proc = [ r \in Runners |-> Start ]
  /\ folder = NoFolder

\* A step of process r that makes it p, and of the disk only the folder f.
Becomes(r, p, f) ==
  /\ proc' = [ proc EXCEPT ![r] = p ]
  /\ folder' = f
  /\ UNCHANGED env

Goto(r, stage) == [ proc[r] EXCEPT !.pc = stage ]

(***************************************************************************)
(* main, up to the folder.                                                 *)
(***************************************************************************)

\* load_config, load_records and plan_work; a RunError is exit code 2
Load(r) ==
  LET loaded == [ proc[r] EXCEPT !.config = disk.config ] IN
  /\ At(r, "load")
  /\ Becomes(r, IF Accepts(records, Specs, Configs[disk.config])
                THEN [ loaded EXCEPT !.pc = "check",
                                     !.work = Matrix(records, Specs, Configs[disk.config]) ]
                ELSE [ loaded EXCEPT !.pc = "refused" ], folder)

\* available that asks for an image and not for its label
AvailableIfBuilt(r) ==
  /\ At(r, "check")
  /\ Becomes(r, [ Goto(r, "mkdir") EXCEPT !.checked = disk ], folder)

\* DockerSandbox.available: docker answers, and the image is of this source
Available(r) ==
  /\ At(r, "check")
  /\ disk.image = disk.source
  /\ Becomes(r, [ Goto(r, "mkdir") EXCEPT !.checked = disk ], folder)

\* ... or not: a stale image, or a docker that does not answer
Unavailable(r) == At(r, "check") /\ Becomes(r, Goto(r, "refused"), folder)

\* The pool takes all the work.
WithPool(r) ==
  [ Goto(r, "execute") EXCEPT !.tasks = [ i \in DOMAIN Work(r) |-> "queued" ],
                              !.ran   = [ i \in DOMAIN Work(r) |-> NotRun ] ]

\* out.mkdir(exist_ok=True)
MakeFolderAnyway(r) ==
  /\ At(r, "mkdir")
  /\ Becomes(r, WithPool(r), IF folder.maker = Nobody
                             THEN [ folder EXCEPT !.maker = r ] ELSE folder)

\* out.mkdir(exist_ok=False), then execute
MakeFolder(r) ==
  /\ At(r, "mkdir")
  /\ folder.maker = Nobody
  /\ Becomes(r, WithPool(r), [ folder EXCEPT !.maker = r ])

\* while out.exists(): wait
WaitForFolder(r) == At(r, "mkdir") /\ folder.maker # Nobody /\ UNCHANGED vars

FolderExists(r) ==
  /\ At(r, "mkdir")
  /\ folder.maker # Nobody
  /\ Becomes(r, Goto(r, "raised"), folder)

(***************************************************************************)
(* execute: a pool of Jobs threads takes the work in order.                *)
(***************************************************************************)

WithTask(r, i, s) == [ proc[r] EXCEPT !.tasks[i] = s ]

\* execute_one: a delivered record is run in the image of this moment
StartTask(r, i) ==
  LET image == IF DeliveredTask(r, i) THEN disk.image ELSE NotRun IN
  /\ At(r, "execute")
  /\ Tasks(r)[i] = "queued" /\ \A j \in 1..(i - 1) : Tasks(r)[j] # "queued"
  /\ Cardinality(Running(r)) < Jobs
  /\ Becomes(r, [ WithTask(r, i, "running") EXCEPT !.ran[i] = image ], folder)

TaskEnds(r, i) ==
  /\ proc[r].pc \in {"execute", "shutdown"} /\ Tasks(r)[i] = "running"
  /\ Becomes(r, WithTask(r, i, "row"), folder)

\* DockerSandbox.run raised
TaskRaises(r, i) ==
  /\ proc[r].pc \in {"execute", "shutdown"} /\ Tasks(r)[i] = "running"
  /\ DeliveredTask(r, i)
  /\ Becomes(r, WithTask(r, i, "raised"), folder)

\* pool.map hands out results in order: at the first exception it cancels what has
\* not started, and the with block waits for what has.
PoolFails(r) ==
  LET left == [ i \in DOMAIN Tasks(r) |->
                  IF Tasks(r)[i] = "queued" THEN "cancelled" ELSE Tasks(r)[i] ]
  IN
  /\ At(r, "execute")
  /\ \E i \in DOMAIN Tasks(r) :
       Tasks(r)[i] = "raised" /\ \A j \in 1..(i - 1) : Tasks(r)[j] = "row"
  /\ Becomes(r, [ Goto(r, "shutdown") EXCEPT !.tasks = left ], folder)

Shutdown(r) ==
  /\ At(r, "shutdown") /\ Running(r) = {}
  /\ Becomes(r, Goto(r, "raised"), folder)

\* results taken as they complete, an exception only reported
GatherWhatCame(r) ==
  /\ At(r, "execute")
  /\ \A i \in DOMAIN Tasks(r) : Tasks(r)[i] \in {"row", "raised"}
  /\ Becomes(r, Goto(r, "open"), folder)

Gather(r) ==
  /\ At(r, "execute")
  /\ \A i \in DOMAIN Tasks(r) : Tasks(r)[i] = "row"
  /\ Becomes(r, Goto(r, "open"), folder)

(***************************************************************************)
(* main, from the rows to the end.  A row is flushed as it is written.     *)
(***************************************************************************)

\* ResultWriter opens exclusively
OpenCsv(r) ==
  /\ At(r, "open")
  /\ IF folder.csv = NoFile
     THEN Becomes(r, Goto(r, "write"), [ folder EXCEPT !.csv = File(r, "open", << >>) ])
     ELSE Becomes(r, Goto(r, "raised"), folder)

Written == folder.csv.holds

\* ResultWriter.write: a row that is there already raises
WriteRow(r) ==
  LET k == Len(Written) + 1 IN
  /\ At(r, "write") /\ k <= Len(Rows(r))
  /\ IF Rows(r)[k] \in ToSet(Written)
     THEN Becomes(r, Goto(r, "raised"), folder)
     ELSE Becomes(r, proc[r], [ folder EXCEPT !.csv.holds = Append(@, Rows(r)[k]) ])

CloseCsv(r) ==
  /\ At(r, "write") /\ Len(Written) = Len(Rows(r))
  /\ Becomes(r, Goto(r, "describe"), [ folder EXCEPT !.csv.state = "closed" ])

\* run_metadata: the commit, the clock, the configuration file and the image, now
Describe(r) ==
  /\ At(r, "describe")
  /\ Becomes(r, [ Goto(r, "meta") EXCEPT !.meta = disk ], folder)

\* write_text: the file is there, empty, before it has its text
WriteMeta(r) ==
  /\ At(r, "meta")
  /\ IF folder.meta.state = "absent"
     THEN Becomes(r, proc[r], [ folder EXCEPT !.meta = File(r, "empty", None) ])
     ELSE Becomes(r, Goto(r, "mismatches"),
                  [ folder EXCEPT !.meta = File(r, "whole", proc[r].meta) ])

\* an exit code that forgets the mismatches
ExitZero(r) == At(r, "mismatches") /\ Becomes(r, Goto(r, "ok"), folder)

\* decode_mismatches.json, if there are any, and the exit code
WriteMismatches(r) ==
  LET found == Mismatches(records, Specs) IN
  /\ At(r, "mismatches")
  /\ IF found = {}
     THEN Becomes(r, Goto(r, "ok"), folder)
     ELSE Becomes(r, Goto(r, IF allow THEN "ok" ELSE "mismatch"),
                  [ folder EXCEPT !.mismatches = File(r, "whole", found) ])

Crash(r) == proc[r].pc \notin Ended /\ Becomes(r, Goto(r, "crashed"), folder)

(***************************************************************************)
(* Around the processes: somebody edits config.yaml or the source, or runs *)
(* python -m harness.sandbox build.                                        *)
(***************************************************************************)
UnderWay == { r \in Runners : proc[r].pc \notin Ended \union {"load"} }

Edit(d) ==
  /\ edits < MaxEdits
  /\ d # disk
  /\ disk' = d
  /\ edits' = edits + 1
  /\ disturbed' = disturbed \union UnderWay
  /\ UNCHANGED << records, allow, proc, folder >>

EditConfig == \E c \in DOMAIN Configs : Edit([ disk EXCEPT !.config = c ])
EditSource == Edit([ disk EXCEPT !.source = @ + 1 ])
BuildImage == Edit([ disk EXCEPT !.image = disk.source ])

Step(r) ==
  \/ Load(r) \/ Available(r) \/ Unavailable(r) \/ MakeFolder(r) \/ FolderExists(r)
  \/ \E i \in DOMAIN Tasks(r) : StartTask(r, i) \/ TaskEnds(r, i) \/ TaskRaises(r, i)
  \/ PoolFails(r) \/ Shutdown(r) \/ Gather(r)
  \/ OpenCsv(r) \/ WriteRow(r) \/ CloseCsv(r)
  \/ Describe(r) \/ WriteMeta(r) \/ WriteMismatches(r)

Done == (\A r \in Runners : proc[r].pc \in Ended) /\ UNCHANGED vars

Next ==
  \/ \E r \in Runners : Step(r) \/ Crash(r)
  \/ EditConfig \/ EditSource \/ BuildImage
  \/ Done

\* Every process is scheduled, and a sandbox call ends (Sandbox!CallEnds).
Fairness == \A r \in Runners : WF_vars(Step(r))

Spec == Init /\ [][Next]_vars /\ Fairness

-----------------------------------------------------------------------------
(***************************************************************************)
(* Properties.                                                             *)
(***************************************************************************)

\* The rows of every payload of the decoder condition, mode and repetition
RowsOf(config) ==
  { [ id |-> s.id, mode |-> m, rep |-> n ] :
      s \in { t \in ToSet(Specs) : t.tier1 /\ records[1].decoder \in t.decoders },
      m \in ToSet(config.modes), n \in 0..(config.reps - 1) }

\* run_meta.json marks a finished run: wherever processes were killed, and
\* whatever was edited, results.csv beside it has exactly one row for every
\* payload of the decoder condition, mode and repetition of the configuration
\* that its writer loaded.
MetaMeansComplete ==
  folder.meta.state # "absent" =>
    LET rows == RowsOf(Configs[proc[folder.meta.by].config])
    IN /\ folder.csv.state = "closed" /\ folder.csv.by = folder.meta.by
       /\ ToSet(Written) = rows /\ Len(Written) = Cardinality(rows)

\* Of several processes that name one folder, the one that made it is the only
\* one that gets to work on it: no other spends a run on it and fails at the end.
FolderHasOneUser ==
  \A r \in Runners :
    (proc[r].tasks # << >> \/ r \in {folder.csv.by, folder.meta.by, folder.mismatches.by})
      => folder.maker = r

\* There is no results.csv of a pool in which a call failed: a run is judged in
\* full before its first row is on the disk.
NoRowsOfAFailedPool ==
  folder.csv # NoFile => ToSet(proc[folder.csv.by].tasks) \subseteq {"row"}

\* If nothing was edited or rebuilt while it ran, every row of a finished run was
\* computed by the source, and under the configuration, that the metadata name.
RowsAreOfTheSource ==
  folder.meta.state = "whole" /\ folder.meta.by \notin disturbed =>
    LET r == folder.meta.by IN
    /\ folder.meta.holds = proc[r].checked /\ folder.meta.holds.config = proc[r].config
    /\ \A i \in DOMAIN proc[r].ran : proc[r].ran[i] \in {folder.meta.holds.source, NotRun}

\* An exit code tells: 2 is a run that left no trace, 0 one that is complete and
\* whose payloads decoded as expected, unless told to go on; 3 one where not.
ExitCodeTells ==
  \A r \in Runners :
    /\ proc[r].pc = "refused" => folder.maker # r
    /\ proc[r].pc \in {"ok", "mismatch"} => folder.meta.by = r /\ folder.meta.state = "whole"
    /\ proc[r].pc \in {"ok", "mismatch"} =>
         folder.mismatches.state = (IF Mismatches(records, Specs) = {} THEN "absent" ELSE "whole")
    /\ proc[r].pc = "ok" => allow \/ Mismatches(records, Specs) = {}

\* Every process ends, however its calls end and whatever the others do.
RunnersEnd == \A r \in Runners : <>(proc[r].pc \in Ended)

\* tools/capture_evidence.py:92, of the image in the metadata: "Which sandbox image
\* ran".
ImageIsTheOneThatRan ==
  folder.meta.state = "whole" =>
    \A i \in DOMAIN proc[folder.meta.by].ran :
      proc[folder.meta.by].ran[i] \in {folder.meta.holds.image, NotRun}

=============================================================================
