# A formal model of the visual trust boundary testbed

TLA+ modules, TLC runs and TLAPS proofs about the programs of this repository: what the testbed's
*harness* promises the experiments. The testbed sends crafted codes through a decoder, a boundary check
and a deliberately vulnerable access node that runs in a throw-away container, and counts what crosses.
Its numbers are worth something only if calls are contained, evidence is not lost, nothing is guessed,
and a result folder says what really ran. These are the properties stated here.

## Inventory

| Component (code) | State it keeps | Operations | Modelled in |
|---|---|---|---|
| Data contracts (`contracts.py`) | none: frozen values | validators of specifications, records, outcomes, rows, configurations | `Contracts`, `Inputs` |
| Payload set and rendering (`attacks/`) | folder of images, manifest | `load_payload_set`, `generate`, `--check` | `Inputs`, `Pipeline`; its effect on a running replay in `Replay` |
| Decode stage (`decode/`) | records file and its metadata | `replay_records`, `record_from_symbols`, `main` | `Replay`, `Pipeline` |
| Boundary check (`defense/`) | none | `check` with `RULES` | `Boundary`, `Fullmatch` |
| Sandbox runner (`harness/sandbox.py`) | docker client, container, pipes, reader threads, canary directory | `run`, `_stop`, `_read_capped`, `available`, `build_image` | `Sandbox`, `SandboxCall`; the last two in `Runner` |
| Tier 1 (`tiers/`) | badge table, audit file, the answer line | `handle`, `main` | `Tier1Call` |
| Host side of a call (`harness/tier1_run.py`) | none | `run_tier1` | `Tier1Call` |
| Oracle and verdict (`harness/oracles.py`, `verdict.py`) | none | `tier1_signals`, `judge_tier1`, `decide_verdict` | `Oracle` |
| Experiment runner (`harness/run_experiments.py`) | thread pool, output folder | `plan_work`, `execute`, `main` | `Plan`, `Runner`; what it makes of its inputs in `Pipeline` |
| Result writer and reader (`harness/metrics.py`) | results.csv | `ResultWriter`, `read_results` | `Runner` (who writes, in which order), `Results` (cells and lines) |
| Comparison and summary (`harness/compare.py`, `summarize.py`) | none | `compare_results`, `summarize` | `Results` |
| Evidence capture (`tools/capture_evidence.py`) | capture files | `capture`, `git_state`, `verify` | `Evidence` |
| Probes (`tools/probes/`), tiers 2 and 3 | none | measurements; no code yet | not modelled |

How they meet: `generate` writes images; a replay lists and decodes them and writes one line per image;
an experiment process joins those lines with the payload set, and for every payload, mode and repetition
a thread calls `run_tier1`, which calls `DockerSandbox.run`, which starts a docker client, which runs
`sandbox_entry` in a container, which calls `handle`, which calls `check`. The answer comes back over a
pipe, the canary files over a bind mount; the judge turns both into a row. Processes meet only in the
file system, and there by exclusive creation.

What is hard: exit, deadline, output cap and the docker commands racing in `run`; a daemon that hangs; a
payload that kills its own tier or outlives it; one call of a pool failing; processes killed between two
files; several processes on one folder; inputs edited while they are used. `PROJECT.json` lists these
with their lines under "hazards".

What makes each component correct, in one line:

- sandbox: no container outlives a call, a result is true, the canary directory is removed, calls end;
- boundary: `check` allows the pattern's texts and nothing else;
- Tier 1 and oracle: with a control on nothing crosses, a benign record costs nothing, no row is guessed
  or rejected, evidence outlives the tier;
- runner: metadata mark a complete run of one process, of the source and configuration they name;
- replay: a record is of the image it names, metadata of its writer mark a whole file, no records file is
  overwritten;
- the commands in a row: what a killed command leaves behind does not spoil the next one unnoticed;
- contracts: what they accept of the two input files gives no row they reject after the work is done;
- results: a file reads back as it was written or not at all, and "no differences" means the same run;
- evidence: no capture is lost or, but for the whitespace around its digest, altered unnoticed, and its
  header is true of its command.

## The modules

`SandboxCall` is the promise of one sandbox call, in four actions: effects happen while the call is open;
a return reports all of them and ends them; a call may instead raise; after a stop command that *reported*
an error, which `_stop` ignores (`check=False`), the return is "loose" and promises nothing.

`Sandbox` is `DockerSandbox.run` in detail. The calling thread's place is `pc`, one action per step
(`Popen`, `Poll`, `LoopBody`, `Recheck`, `Kill`, `StopSucceeds`/`StopFails`/`StopHangs`, `Wait`,
`WaitExpires`, `Join`, `ListCanary`, `Cleanup`, `Return`); the two readers are `ReadChunk` and `ReadEof`;
client and container are external, modelled as `run` relies on them. Streams are byte counts, with a
chunk that straddles the cap cut as `_read_capped` cuts it. `phase`, `effects` and `reported` map it onto
`SandboxCall`: property and theorem `KeepsPromise`.

`Contracts`, `Oracle`, `Boundary` and `Plan` are the pure parts as operators. A field that the code only
asks "is it None?" of is a Boolean. `Fullmatch` reads texts character by character with a recogniser
written from each regular expression, the reference `check` is compared with; `MCBoundary` bounds the texts.

`Tier1Call` is one unit of work from record to row. It holds a sandbox call as `INSTANCE SandboxCall`: what
`Sandbox` was shown to promise is all it knows of the runner. A payload is a record of what the code can tell of
it: whether its text is an active badge id, what `check` says, and whether it is literal within the concatenated
query and the concatenated shell command. That allowed texts are literal is an assumption there, and theorem
`AllowedTextIsInert` here. A rewritten query may find any row; a rewritten command may leave files from its
start to the end of the container, also after the tier has answered or failed. The text of a lookup's error can
carry the secret too. The badge table cannot be changed by the one statement `sqlite3.execute` takes, so its
hash is the golden one or, if it cannot be read, none. A call can be killed, time out, or lose the end of its
answer.

`Runner` is `run_experiments.main` as several processes that share the output folder, with a pool of
`Jobs` threads each; tasks are handed out in order, the first exception in order cancels what has not
started (`PoolFails`) and the `with` block waits for the rest (`Shutdown`). Files have a writer and a
state, so a file that is created but not yet written is visible to a crash. Edits of the configuration
and the source and rebuilds of the image happen at any time, `MaxEdits` times.

`Replay` is `decode.capture replay --out` as several processes on one records file, while images are
rendered anew, are half written, or go. `RemoveRecords` is somebody clearing a records file, with its
metadata or without, as in `Pipeline`: nothing in the code ties the two files together.

`Pipeline` has the commands one after another: `generate` image by image (saved whole, read again, saved
cropped) and its manifest, `--check` on the same platform or another, a replay, a run. Each can be killed at
any step and tear the file it writes. Between commands the payload set and the seed in `config.yaml` are
edited. What happens *within* the last two commands is `Replay`'s and `Runner`'s; `Pipeline` has what a
command finds of the ones before it. `Accepts`, `Matrix` and `Mismatches` are those of `Plan`, which
`Runner` uses as well.

`Inputs` follows a payload specification from the file to the row: `load_config`, `load_payload_set` (listed and
derived payloads), what a decoder returns for each kind of text in each mode, `plan_work`, and `execute_one` by
the operators of `Oracle`, for every answer a tier can give: `Answers` is all runs whose outcome is valid and in
which a crash has an error. `MCRows` composes it with `Results`, the other half of a row's way.

`Results` is `results.csv` in cells and lines, as `ResultWriter` writes them, a kill cuts them and
`read_results` reads them, with `compare_results` and `summarize` over what was read. Each of its two files may
be written by a csv module that quotes a lone carriage return or by one that does not (`QuotesLoneCR` is the set
of those that do): then the cell breaks its line, for the reader takes the return for the end of it.

`Evidence` is `capture_evidence` as several processes in a tree that is edited and committed. A file is the
sequence of the parts that `verify` can tell apart, so that a digest is of exactly the parts above it; the
whitespace that `strip()` drops around the digest is a part (`Blank`, `Newline`) like any other. A directory or
a file that cannot be made, and a disk that fills up, are exit code 1 (`OpenFails`, `WriteFails`).

Every module that is checked has variants of its operations next to the real ones, each with one
plausible mistake; `PROJECT.json` "mutants" says which property tells which variant from the code.

## The runs

| Run | Instance | Shows |
|---|---|---|
| `Sandbox` | cap 3, chunk 2, pipe 2, two names of which one cannot be deleted, exit codes 0 and 137, an unwell daemon allowed | the safety of one call, that it ends, that a healthy daemon is never given up on, and that it implements `SandboxCall` |
| `Boundary` | texts of up to 15 characters from 5, at most 5 runs of equal characters | `check` is the full match of the pattern |
| `Tier1Call` | 11 kinds of payload, 4 modes | controls hold, rows are valid, nothing is guessed, evidence survives, work ends |
| `Tier1Timeout` | same | finding: a timed-out call with a whole answer is not a fault |
| `Runner` | 2 processes, 3 specs, 9 inputs, 2 configurations, 2 threads, 2 edits | the folder's promises, exit codes, processes end |
| `RunnerImage` | same | finding: the image named is the last one, not the one that ran |
| `Replay` | 2 processes, 2 images and a misnamed file, one edit | the records file's promises, processes end |
| `Pipeline` | 4 commands, 2 edits or removals, 3 versions of the payload set, 2 seeds | a killed `generate` or replay is noticed or harmless, `--check` is right, a replay leaves metadata only of a whole file |
| `PipelineMeta` | same, 1 edit | finding: a run takes the metadata of one replay for those of another |
| `PipelineSeed` | same, 1 edit | finding: benign payloads of one seed are judged by the ground truth of another |
| `Rows` | every specification over small values beside a derived one, 6 configurations; 14 row sets, every pair of them a run and its re-run, the first file's writer quoting a carriage return and the second's not | no accepted input gives a row that is rejected, or a benign text that the decoder rewrites; what is read back, and what "no differences" means |
| `Evidence` | 2 captures, a good and a bad id, output that is a line and another capture, whole or its hash line cut, 1 edit | captures are kept, what verifies is whole, header and exit code are true |

What some properties leave to others. `RowsAreOfTheSource` is about runs under which nothing is edited or
rebuilt, and the part of `HeaderIsTrue` about the tree about captures under which nothing is edited or committed:
the code does not promise more, and `ImageIsTheOneThatRan` shows what becomes of a run otherwise. That `--check`
vouches for the folder (`CheckTells`) holds until another `generate` begins; what one that is killed leaves is the
subject of `DamageIsNoticed`. `RoundTrip` is of files that were closed, cut ones are in the two properties of the
comparison.

Why the bounds are enough. *Sandbox*: cap and chunk do not divide each other and the pipe is shorter than the
cap, so a chunk can straddle the cap, end at it, and a writer can stall below and above it; two names tell
"all", "some" and "none" listed. *Boundary*: one character more than the longest rule, a character outside every
charset, capitals T and another. *Tier1Call*: every kind of payload of `attacks/payloads.yaml`, and one call:
calls share nothing. *Runner*: two processes are the least that collide; one configuration has two modes, the
other two repetitions, and the payload order is not the row order; two edits are what it takes to change the
source and rebuild. *Replay*: two processes, and one rendering or removal, for a second one meets the same
steps. *Pipeline*: four commands are a generate that is killed, another one or a replay that is killed, a replay
and a run; two edits are a change of the payload set and a removal; a removal alone is what the metadata need.
*Rows*: its two halves share no state, so each behavior is one of either. A row depends on one specification and
one configuration, so lists of one, and of two for what relates two; four rows are one payload in every mode;
the other row sets differ from them in one column, one row, one repetition or one payload, which is all a
comparison, key by key, or a count can tell apart, and one of them holds a carriage return. *Evidence*: two
captures are the least that share an id; one edit falls before, between and after the steps that read the tree;
a printed capture, whole or cut, is what `verify` could take for its own.

Fairness. The calling thread, the readers' joins and the worker threads are scheduled, clocks advance and a
process sent SIGKILL dies: weak fairness of those actions. Nothing is assumed of the container, the payload, the
daemon, or the operator. In `Runner` a task that has started ends, which is `Sandbox`'s `CallEnds`; `Tier1Call`
uses it in the same way (fair `Stopped` and `Return`). In `Replay` every process is scheduled. `Pipeline`,
`Rows` and `Evidence` state no fairness: nothing there is promised to happen, since commands are given by people
and a captured command may run for ever without a timeout.

Deadlock is checked where processes run on their own (`Sandbox`, `Tier1Call`, `Runner`, `Replay`, `Evidence`);
finished processes stutter (`Done`). It is not checked in `Boundary`, where reading stops at the longest text,
nor in the runs of `Pipeline` and in `Rows`, where it stops when the commands, the row or the comparison are
done.

## Assumptions about the environment

- A docker client that was killed does not start its container afterwards.
- A request fits the stdin pipe, so writing it does not block before the deadline is set. It is one decode
  record, a few kilobytes of base64 for the largest code there is; a Linux pipe holds 64.
- A client exits only after its container has ended, with its code, unless it is killed or refused.
- Files created exclusively are created by one process (POSIX `O_EXCL`, `mkdir`).
- SHA-256 has no collisions: a digest stands for the text it is of.

## The proofs

`SandboxProofs` proves for all caps, chunk sizes, pipe sizes, names and exit codes (`SandboxAssumption`):
the type invariant, `NoContainerOutlivesCall`, `OutputIsHonest`, `ExitCodeIsTheContainers`,
`CanaryDirIsRemoved`, `NeverGivesUpOnContainer`, and that `Sandbox` implements `SandboxCall`
(`Implementation`). None of them is inductive alone: that no container runs when files are listed needs to
know why the thread left the loop, what became of the client and what the stop command said. `IInv` is the
conjunction of

- `Lifecycle`: which states of client and container go with which `pc`, and whose exit code `rc` is;
- `Stopping`: a client that died by our hand means a stop command has answered, or is running, or gave up;
- `Flow`: per stream, bytes pulled, kept and held, and why a reader stopped;
- `Joins`: a join that did not expire found its reader done;
- `Files`: the directory is complete until removed, and the list is all of it;
- `Reported`: the result agrees with the variables it was built from, though readers left behind go on.

Each part has a step lemma (`TypeStep`, `LifecycleStep`, ...) with one case per action.

`AlgorithmProofs` has the other pure parts. Of `Oracle`: every row `execute_one` can build is one `ResultRow` accepts
(`DeliveredRowIsValid`, `UndeliveredRowIsValid`), with `ValidOutcome` of the answer and "crashed means error" as
hypotheses; both hold of what `run_tier1` returns. Of `Plan`: `InOrder` lists a finite set under a total order,
each element once and ascending (by counting, for every element, those before it: no induction is needed), so the
nested loops give each combination of payload, mode and repetition once (`LoopsList`), and `Sorted` only
rearranges (`SortedLists`).

`Tier1CallProofs` begins with the check before the call, for texts of any length over any alphabet with capitals,
digits and a hyphen (`BoundaryAssumption`; it also says that `NoText`, the mark of bytes that are not UTF-8, is
no text): the length and charset checks never refuse what the pattern accepts,
so that `check` is exactly the pattern as a set of texts (`CheckIsThePattern`), and an allowed text has no other
characters (`AllowedTextIsInert`). That the set is the one a recogniser accepts is an invariant of reading
(`CheckIsFullmatchOfAll`): `Placed` says that a recogniser is in a group, after n characters of it, exactly if the
text read so far ends there, and is nowhere otherwise; one lemma per kind of group says how the text can grow
into it (`FirstGrown`, `SecondGrown`, `ThirdGrown`, `DateGrown`, `NumberGrown`), one per rule that the recogniser
goes there and nowhere else (`IdentifierAdvances`, ...).

Of the call it proves, for every set of payloads that `PayloadAssumption` admits, the type invariant, the five
safety properties of a unit of work and `EvidenceSurvives`. A row is computed from a run, a run from what the tier
had said when the call returned, and the tier may go on after a loose return; so the invariant has one part for
each: `Way` (where the tier is and what it has printed), `Told` (its outcome), `Left` (files come from a rewritten
shell command only), `Decided` (what a control in force leaves of the decision), `Brought` (the run) and
`Concluded` (the row). `EveryRowIsValid` rests on the lemmas about `Oracle`. `RowsProofs` closes the gap those
leave: why, of any accepted configuration and list, only families, modes and records arrive at a row that the
lemmas are about (`RowsAccepted`), and why a benign text is never run where it is rewritten (`BenignIntact`).

The second half of `RowsProofs` follows the rows into `results.csv` and back, for any rows `ResultRow` accepts
and wherever a kill cuts a file. The invariant, `FilesIInv`, says of a file what its writer's state makes it:
unless a line of it is broken, it is the header and the first rows, each cell as `writerow` puts it, but for the
signals of the last line of a killed writer (`FileOf`); and what `compare` found, it found in files nobody
writes to any more (`Compared`). Reading undoes writing cell by cell (`CellBack`) in a file no row of which was
split (`Unsplit`), and one that has a split row is refused (`Torn`, `NotReadBack`): that is `WhatWasWritten`,
for either kind of csv module. The order of the rows is one of their keys, so that by the lemmas on `InOrder`
two files with the same set of keys have the same list of keys (`SameKeys`), and a comparison key by key is one
row by row (`Alike`). From there, `OnlyTheLastSignals` goes back from the lines to the rows, and `OneSummary`
shows each part of the summary to be a function of the columns that are compared. It assumes of the rows of a
run that `ResultRow` accepts them, that their keys differ, which `ResultWriter.write` checks, and that an error
or a time that is there is not empty (`RowSetsAssumption`).

`RunnerProofs` proves for any number of processes, records, payload sets, threads and edits, crashes
included, that one process has the folder (`OneUser`), that there is no `results.csv` of a pool in which
a call failed (`NoRowsOfFailure`), that rows are of the source and configuration the metadata name unless
something was edited underneath (`RowsOfTheSource`), and that exit codes are true (`ExitTells`). The first two
follow from `IInv`, the conjunction of `Shape` (a process and the
folder keep their fields), `Owner` (who is past making the folder, has tasks or has written a file is the one
that made it, which `mkdir(exist_ok=False)` grants once) and `Rowed` (from `open` on every task of the process
has given a row, and stays so when the process raises or crashes later; without the places it may go from
there, the rows of a dead process could not be told from those of one that never wrote). `BecomesKeeps`
says once what a step has to see to; each action's lemma shows that its step does. The other two need
`Tells` on top of it: per process, what the folder must hold at each stage (`Told`), and that the disk is as the
process found it for as long as it runs undisturbed, with the images of its tasks among what was checked
(`Sourced`). They use that nobody is not a process (`NobodyAssumption`). `MetaIsComplete`, that
metadata stand beside exactly one row per payload, mode and repetition, has a third part, `Filled`: a process that
has loaded keeps the work its configuration gave, `results.csv` is a beginning of that work in the order of the
rows, all of it once closed, and metadata come from who closed it. A cut file can be told from a whole one only
against the whole list, which is what the lemmas about `Loops` and `Sorted` say of it. It assumes of the payload
set and the configuration what their validators hold: ids are unique (`PayloadFile`), modes are the tier's and
unique, and there is a repetition (`TierConfig`, `Config`): `SpecsAssumption`, `ConfigsAssumption`.

`ReplayProofs` proves for any number of replays, names, renderings, removals and crashes that a record is of the
image it names (`OfItsImage`), that a records file only grows (`RecordsKept`), and that metadata mark a whole
file (`MetaWhole`). The invariant says of each process that what it listed is what it recorded followed by what
it has to do (`UpTo`), of the file that it is a beginning of its writer's records, all of them once there are
metadata of that writer (`Holds`), and of metadata, if only left behind, that their writer has got as far as
writing them (`Described`): so that who opens a file never finds its own there. `EvidenceProofs` proves
`CapturesKept` and `HeaderTrue` in the same manner: a capture is followed from the tree its command ran in, over
the text it is to write, to its file, a beginning of that text. `WholeVerified` and `ExitTold` need `Told` on
top of it, which also follows what was printed and the code that is to be returned. That no cut of a capture
verifies rests on `NothingForeseen`: a command cannot have printed the digest of the capture it is being written
to, whose header is made when its output is complete; it may print any other capture, and then the last hash
line of the file may be the printed one.

`PipelineProofs` proves the four properties of `Pipeline` for any payload sets, seeds, number of commands and
edits, killed anywhere: `DamageNoticed`, `CutFileIsAsGood`, `CheckIsRight` and `MetaLast`. What one command
leaves must be known when another, later, finds it, so `IInv` says of each thing on the disk how it came about:
`Filed` (the records file is a beginning of what its replay collected, of images that were not torn, no payload
twice), `Listed` (the manifest lists images as they are, unless a generate has begun since), and of the command
under way what it has done and has left to do: `Collecting` and `Recording` for a replay, `Drawing` for a
generate, `Passed` and `Compared` for what a run and a check said. `MetaLast` needs on top of it which replay
the metadata are of (`Dated`) and that a run took what it found (`Carried`). It assumes of the payload sets
unique ids (`SetsAssumption`, `IdsAssumption`) and that exactly the damaged images are expected not to decode
(`DamageAssumption`): one direction is a validator (`contracts.py:217`), the other holds of
`attacks/payloads.yaml`.

Only model-checked: liveness under fairness (`CallEnds`, `WorkEnds`, `RunnersEnd`, `ReplaysEnd`) and `ENABLED`,
which are out of the prover's reach. `PROJECT.json` "theorems" lists the results.

## What the checks found

Four places where the code and its own comments or documents disagree (`PROJECT.json` "findings"):

1. `docs/oracles.md:33` says that a tier that timed out gives `fault`. A tier whose answer is complete is
   judged by it, whatever the clock said.
2. `tools/capture_evidence.py:92` calls the image in the metadata the one that ran. It is inspected after
   the work is done.
3. `attacks/payload_set.py:4` says that derived payloads cannot drift out of step with the ground truth.
   `generate` has a `--seed` of its own; after a change of the seed in `config.yaml` the images still show badges
   of the old database, and the run ends with exit code 0.
4. `decode/capture.py:90` calls the metadata "what produced a records file". The records file is opened
   exclusively, its metadata are written over what is there, and later. If only the records file is removed and
   the next replay is killed before it writes its metadata, the old ones stand beside the new records, and a run
   carries them on: it reads them without comparing their run id or count with the records.

Seen while modelling, and not the subject of a run:

- `harness/sandbox.py:33` says that exit code 137 can mean that this runner killed the container. The runner
  kills the client first and reports the client's -9.
- `harness/metrics.py:4` says that values are written exactly as observed. The csv module of earlier patch
  releases of Python 3.11 (3.11.6 is one) quotes only what is in `lineterminator`, here a newline: a cell with a
  lone carriage return, which the detail of a fault can hold, makes the file unreadable, and all of its rows with
  it. Later releases quote it. The repository asks for 3.11 and pins no patch release, so `RoundTrip` is stated
  of both kinds.
- The hash line of a capture protects what is above it. `verify` strips whitespace, so blanks, tabs or empty lines
  after the digest go unnoticed.
- The comment at `contracts.py:211` speaks of all texts that are not ASCII, the rule at 212-215 of benign ones:
  an attack text that is not ASCII may be run in the condition that rewrites it.
- `summarize` ends in a `KeyError` if a payload has no row in mode off, or an attack none in another mode, and
  shows the last of several repetitions.
- The cut of a kill can take the last signals of the last row of `results.csv` without leaving a row that is
  refused; and of two killed runs without rows `compare` finds no difference.

## Not modelled

The probes (measurements without state), tiers 2 and 3 (no code), live capture (it writes no file), drawing
and reading codes (libraries), how names and badge ids are drawn from a seed, reading YAML, and the wording
of reports and headers. Of `contracts.py`, patterns and lengths of single fields.

## Plan

Done, in this order: `SandboxCall`, `Sandbox`, `SandboxProofs`; `Contracts`, `Oracle`, `Boundary` and their
proofs; `Tier1Call`; `Plan`, `Runner`, `RunnerProofs`; `Replay`; `Evidence`, `EvidenceProofs`; `Pipeline`;
`Inputs`; `Results`; `Tier1CallProofs`; `ReplayProofs` and the second half of `RunnerProofs`; the
order lemmas of `AlgorithmProofs`, `MetaIsComplete`, the second half of `EvidenceProofs`, `PipelineProofs`;
`RowsProofs`, about `Inputs` and `Results`; `Fullmatch` and its proof.

What could come next: the stdin pipe of `Sandbox`, should requests grow; tiers 2 and 3 when there is code.
