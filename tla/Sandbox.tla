------------------------------- MODULE Sandbox -------------------------------
(***************************************************************************)
(* One call of DockerSandbox.run (harness/sandbox.py): the calling thread, *)
(* its two reader threads, the docker client it starts, the container that *)
(* client runs, and the docker commands that stop the container.  Every    *)
(* step of the calling thread is one action; the others interleave freely. *)
(* Streams are counted in bytes; /canary is the set of names left in it.   *)
(***************************************************************************)
EXTENDS Integers

CONSTANTS
  OutputCap,        \* OUTPUT_CAP: bytes kept per stream
  Chunk,            \* bytes asked for by one stream.read
  PipeCap,          \* bytes a stream holds before its writer stalls
  Names,            \* names the payload may leave in /canary
  Stubborn,         \* those the host user cannot delete
  ExitCodes,        \* exit codes the payload can end with
  DaemonMayHang     \* may a stop command hang although the client was killed?

ASSUME SandboxAssumption ==
  /\ OutputCap \in Nat \ {0}
  /\ Chunk \in Nat \ {0}
  /\ PipeCap \in Nat /\ PipeCap >= Chunk
  /\ Stubborn \subseteq Names
  /\ ExitCodes \subseteq 0..255
  /\ DaemonMayHang \in BOOLEAN

VARIABLES
  pc,               \* where the calling thread is in run
  late,             \* the deadline has passed
  timedOut,         \* the local timed_out
  exc,              \* the exception that is unwinding: "none" if there is none
  stopRc,           \* what the last stop command said: "none", "ok" or "failed"
  truncated,        \* the Event shared by the two readers
  expired,          \* the readers whose join gave up
  reader,           \* per stream: "new", "reading" or "done"
  piped,            \* per stream: bytes the client put in the pipe
  pulled,           \* per stream: bytes the reader took out
  kept,             \* per stream: bytes in the sink
  client,           \* the docker client: "none", "running", "killed" or "exited"
  rc,               \* its return code once it has exited
  container,        \* "none", "running" or "ended"
  code,             \* the container's exit code once it has ended
  dir,              \* the canary directory exists on the host
  canary,           \* the names in it
  effects,          \* history: every name the payload ever left
  listed,           \* the local files
  result            \* the SandboxResult, or NoResult

main  == << pc, late, timedOut, exc, stopRc, expired, listed, result >>
flow  == << truncated, reader, piped, pulled, kept >>
procs == << client, rc, container, code >>
files == << dir, canary, effects >>
vars  == << main, flow, procs, files >>

Streams == {"stdout", "stderr"}
SIGKILLED == -9     \* Popen.returncode of a client that died of SIGKILL
KilledCode == 137   \* the exit code docker gives a killed container
RefusedCode == 125  \* the client's code when no container could be started
NoCode == -1
NoResult == [ call |-> "none" ]
Least(a, b) == IF a <= b THEN a ELSE b
Held(s) == piped[s] - pulled[s]
PipeFull == \E s \in Streams : Held(s) = PipeCap

(***************************************************************************)
(* Faulty variants of the steps below, each with one plausible mistake in  *)
(* it: the properties at the end of the module tell them from the code.    *)
(***************************************************************************)

\* _stop that kills the client only
KillClientOnly ==
  /\ pc = "kill"
  /\ pc' = "wait"
  /\ client' = IF client = "running" THEN "killed" ELSE client
  /\ UNCHANGED << late, timedOut, exc, stopRc, expired, listed, result, flow, rc, container, code, files >>

\* _stop that goes straight to docker rm -f
KillNothing ==
  /\ pc = "kill"
  /\ pc' = "rm"
  /\ UNCHANGED << late, timedOut, exc, stopRc, expired, listed, result, flow, procs, files >>

\* _stop that does not raise when both commands time out
GiveUpSilently ==
  /\ pc \in {"rm", "dkill"}
  /\ DaemonMayHang \/ (client = "running" /\ PipeFull)
  /\ pc' = IF pc = "rm" THEN "dkill" ELSE "wait"
  /\ UNCHANGED << late, timedOut, exc, stopRc, expired, listed, result, flow, procs, files >>

\* no proc.wait before the result is put together
WaitForNothing ==
  /\ pc = "wait"
  /\ pc' = "join_stdout"
  /\ UNCHANGED << late, timedOut, exc, stopRc, expired, listed, result, flow, procs, files >>

\* a loop that looks at the cap and not at the clock
NoDeadline ==
  /\ pc = "body"
  /\ pc' = IF truncated THEN "recheck" ELSE "poll"
  /\ UNCHANGED << late, timedOut, exc, stopRc, expired, listed, result, flow, procs, files >>

\* Popen outside the try
PopenOutsideTry ==
  /\ pc = "popen"
  /\ pc' = "raised"
  /\ exc' = "popen"
  /\ UNCHANGED << late, timedOut, stopRc, expired, listed, result, flow, procs, files >>

\* if len(chunk) >= room: a stream of exactly the cap is called truncated
ReadToTheBrim(s) ==
  LET n    == Least(Chunk, Held(s))
      room == OutputCap - kept[s]
  IN
    /\ reader[s] = "reading"
    /\ Held(s) >= Chunk \/ (client = "exited" /\ Held(s) > 0)
    /\ pulled' = [ pulled EXCEPT ![s] = @ + n ]
    /\ kept' = [ kept EXCEPT ![s] = @ + Least(n, room) ]
    /\ truncated' = (truncated \/ n >= room)
    /\ reader' = IF n >= room THEN [ reader EXCEPT ![s] = "done" ] ELSE reader
    /\ UNCHANGED << piped, main, procs, files >>

\* total += len(chunk), and no return: the room left goes below zero
ReadOn(s) ==
  LET n    == Least(Chunk, Held(s))
      room == OutputCap - pulled[s]
  IN
    /\ reader[s] = "reading"
    /\ Held(s) >= Chunk \/ (client = "exited" /\ Held(s) > 0)
    /\ pulled' = [ pulled EXCEPT ![s] = @ + n ]
    /\ kept' = [ kept EXCEPT ![s] = @ + Least(n, room) ]
    /\ truncated' = (truncated \/ n > room)
    /\ UNCHANGED << reader, piped, main, procs, files >>

(***************************************************************************)
(* The calling thread.                                                     *)
(***************************************************************************)

\* mkdtemp has made an empty directory; Popen is next.
Init ==
  /\ pc = "popen" /\ late = FALSE /\ timedOut = FALSE
  /\ exc = "none" /\ stopRc = "none" /\ expired = {} /\ listed = {}
  /\ result = NoResult
  /\ truncated = FALSE
  /\ reader = [ s \in Streams |-> "new" ]
  /\ piped = [ s \in Streams |-> 0 ]
  /\ pulled = [ s \in Streams |-> 0 ]
  /\ kept = [ s \in Streams |-> 0 ]
  /\ client = "none" /\ rc = NoCode
  /\ container = "none" /\ code = NoCode
  /\ dir = TRUE /\ canary = {} /\ effects = {}

\* Popen and the start of both readers; the request is written and its pipe
\* closed (it fits the pipe, and a BrokenPipeError is ignored); only then is
\* the deadline set.
Popen ==
  /\ pc = "popen"
  /\ pc' = "poll"
  /\ client' = "running"
  /\ reader' = [ s \in Streams |-> "reading" ]
  /\ UNCHANGED << late, timedOut, exc, stopRc, expired, listed, result, truncated, piped, pulled, kept >>
  /\ UNCHANGED << rc, container, code, files >>

PopenFails ==
  /\ pc = "popen"
  /\ pc' = "cleanup"
  /\ exc' = "popen"
  /\ UNCHANGED << late, timedOut, stopRc, expired, listed, result, flow, procs, files >>

\* while proc.poll() is None
Poll ==
  /\ pc = "poll"
  /\ pc' = IF client = "exited" THEN "recheck" ELSE "body"
  /\ UNCHANGED << late, timedOut, exc, stopRc, expired, listed, result, flow, procs, files >>

\* The loop body: the deadline first, then the output cap, else sleep.
LoopBody ==
  /\ pc = "body"
  /\ pc' = IF late \/ truncated THEN "recheck" ELSE "poll"
  /\ timedOut' = late
  /\ UNCHANGED << late, exc, stopRc, expired, listed, result, flow, procs, files >>

\* if proc.poll() is None: the client may have exited since the loop saw it
Recheck ==
  /\ pc = "recheck"
  /\ pc' = IF client = "exited" THEN "wait" ELSE "kill"
  /\ UNCHANGED << late, timedOut, exc, stopRc, expired, listed, result, flow, procs, files >>

\* _stop: proc.kill(), which does nothing to a client that has exited
Kill ==
  /\ pc = "kill"
  /\ pc' = "rm"
  /\ client' = IF client = "running" THEN "killed" ELSE client
  /\ UNCHANGED << late, timedOut, exc, stopRc, expired, listed, result, flow, rc, container, code, files >>

\* _stop: docker rm -f, then docker kill.  Any return code ends _stop.
StopCommands == {"rm", "dkill"}

StopSucceeds ==
  /\ pc \in StopCommands
  /\ container # "none"
  /\ pc' = "wait"
  /\ stopRc' = "ok"
  /\ container' = "ended"
  /\ code' = IF container = "running" THEN KilledCode ELSE code
  /\ UNCHANGED << late, timedOut, exc, expired, listed, result, flow, client, rc, files >>

\* A non-zero return code (no such container, a daemon error) is not looked at.
StopFails ==
  /\ pc \in StopCommands
  /\ pc' = "wait"
  /\ stopRc' = "failed"
  /\ UNCHANGED << late, timedOut, exc, expired, listed, result, flow, procs, files >>

\* Why a stop command can hang: the daemon is still streaming to a live client
\* whose pipe is full, or the daemon is unwell.
StopCanHang == DaemonMayHang \/ (client = "running" /\ PipeFull)

\* TimeoutExpired after 30 s: try the next command, give up after the last.
StopHangs ==
  /\ pc \in StopCommands
  /\ StopCanHang
  /\ pc' = IF pc = "rm" THEN "dkill" ELSE "cleanup"
  /\ exc' = IF pc = "rm" THEN exc ELSE "stop"
  /\ UNCHANGED << late, timedOut, stopRc, expired, listed, result, flow, procs, files >>

\* proc.wait(timeout=30)
Wait ==
  /\ pc = "wait"
  /\ client = "exited"
  /\ pc' = "join_stdout"
  /\ UNCHANGED << late, timedOut, exc, stopRc, expired, listed, result, flow, procs, files >>

WaitExpires ==
  /\ pc = "wait"
  /\ client # "exited"
  /\ pc' = "cleanup"
  /\ exc' = "wait"
  /\ UNCHANGED << late, timedOut, stopRc, expired, listed, result, flow, procs, files >>

\* reader.join(timeout=5), for stdout and then for stderr.  A join that gives
\* up is not an error: the call goes on with what the sink holds.
Join(s) ==
  /\ pc = IF s = "stdout" THEN "join_stdout" ELSE "join_stderr"
  /\ pc' = IF s = "stdout" THEN "join_stderr" ELSE "list"
  /\ expired' = IF reader[s] = "done" THEN expired ELSE expired \union {s}
  /\ UNCHANGED << late, timedOut, exc, stopRc, listed, result, flow, procs, files >>

ListCanary ==
  /\ pc = "list"
  /\ pc' = "cleanup"
  /\ listed' = canary
  /\ UNCHANGED << late, timedOut, exc, stopRc, expired, result, flow, procs, files >>

\* finally: rmtree(ignore_errors=True), on every way out of the try
Cleanup ==
  /\ pc = "cleanup"
  /\ pc' = IF exc = "none" THEN "return" ELSE "raised"
  /\ canary' = canary \intersect Stubborn
  /\ dir' = (canary \intersect Stubborn # {})
  /\ UNCHANGED << late, timedOut, exc, stopRc, expired, listed, result, flow, procs, effects >>

Return ==
  /\ pc = "return"
  /\ pc' = "returned"
  /\ result' = [ call |-> "result", out |-> kept, exit_code |-> rc,
                 timed_out |-> timedOut, output_truncated |-> truncated,
                 canary_files |-> listed ]
  /\ UNCHANGED << late, timedOut, exc, stopRc, expired, listed, flow, procs, files >>

MainStep ==
  \/ Popen \/ PopenFails
  \/ Poll \/ LoopBody \/ Recheck \/ Kill
  \/ StopSucceeds \/ StopFails \/ StopHangs
  \/ Wait \/ WaitExpires
  \/ \E s \in Streams : Join(s)
  \/ ListCanary \/ Cleanup \/ Return

\* time.monotonic() passes the deadline
DeadlinePasses ==
  /\ pc \in {"poll", "body"}
  /\ ~late
  /\ late' = TRUE
  /\ UNCHANGED << pc, timedOut, exc, stopRc, expired, listed, result, flow, procs, files >>

(***************************************************************************)
(* _read_capped, in a thread per stream.  read(Chunk) waits for Chunk      *)
(* bytes or for the end of the stream, which comes when the client exits.  *)
(* The piece that does not fit is cut, and the reader stops there.         *)
(***************************************************************************)
ReadChunk(s) ==
  LET n    == Least(Chunk, Held(s))
      room == OutputCap - kept[s]
  IN
    /\ reader[s] = "reading"
    /\ Held(s) >= Chunk \/ (client = "exited" /\ Held(s) > 0)
    /\ pulled' = [ pulled EXCEPT ![s] = @ + n ]
    /\ kept' = [ kept EXCEPT ![s] = @ + Least(n, room) ]
    /\ truncated' = (truncated \/ n > room)
    /\ reader' = IF n > room THEN [ reader EXCEPT ![s] = "done" ] ELSE reader
    /\ UNCHANGED << piped, main, procs, files >>

ReadEof(s) ==
  /\ reader[s] = "reading"
  /\ client = "exited"
  /\ Held(s) = 0
  /\ reader' = [ reader EXCEPT ![s] = "done" ]
  /\ UNCHANGED << truncated, piped, pulled, kept, main, procs, files >>

(***************************************************************************)
(* The docker client and the container, as harness/sandbox.py relies on    *)
(* them: the client starts the container, forwards its output, and exits   *)
(* with its code after it has ended; a killed client forwards nothing      *)
(* more and leaves the container running.                                  *)
(***************************************************************************)
ContainerStarts ==
  /\ client = "running"
  /\ container = "none"
  /\ container' = "running"
  /\ UNCHANGED << client, rc, code, main, flow, files >>

ContainerWrites(s) ==
  /\ container = "running"
  /\ client = "running"
  /\ Held(s) < PipeCap
  /\ piped' = [ piped EXCEPT ![s] = @ + 1 ]
  /\ UNCHANGED << truncated, reader, pulled, kept, main, procs, files >>

ContainerLeaves(n) ==
  /\ container = "running"
  /\ dir
  /\ n \notin effects
  /\ canary' = canary \union {n}
  /\ effects' = effects \union {n}
  /\ UNCHANGED << dir, main, flow, procs >>

ContainerEnds(c) ==
  /\ container = "running"
  /\ container' = "ended"
  /\ code' = c
  /\ UNCHANGED << client, rc, main, flow, files >>

ClientExits ==
  /\ client = "running"
  /\ container = "ended"
  /\ client' = "exited"
  /\ rc' = code
  /\ UNCHANGED << container, code, main, flow, files >>

ClientRefused ==
  /\ client = "running"
  /\ container = "none"
  /\ client' = "exited"
  /\ rc' = RefusedCode
  /\ UNCHANGED << container, code, main, flow, files >>

ClientDies ==
  /\ client = "killed"
  /\ client' = "exited"
  /\ rc' = SIGKILLED
  /\ UNCHANGED << container, code, main, flow, files >>

Environment ==
  \/ DeadlinePasses
  \/ \E s \in Streams : ReadChunk(s) \/ ReadEof(s) \/ ContainerWrites(s)
  \/ ContainerStarts
  \/ \E n \in Names : ContainerLeaves(n)
  \/ \E c \in ExitCodes : ContainerEnds(c)
  \/ ClientExits \/ ClientRefused \/ ClientDies

Ended == pc \in {"returned", "raised"}

\* The call is over, and nothing is left to happen.
Done == Ended /\ UNCHANGED vars

Next == MainStep \/ Environment \/ Done

(***************************************************************************)
(* Fairness: the calling thread and the readers are scheduled, the clock   *)
(* advances, a killed client dies.  Nothing is assumed of the container,   *)
(* of the client before it is killed, or of the stop commands beyond the   *)
(* timeout that subprocess.run puts on them.                               *)
(***************************************************************************)
Fairness ==
  /\ WF_vars(MainStep)
  /\ WF_vars(DeadlinePasses)
  /\ WF_vars(ClientDies)

Spec == Init /\ [][Next]_vars /\ Fairness

-----------------------------------------------------------------------------
(***************************************************************************)
(* Properties.                                                             *)
(***************************************************************************)
PCs == {"popen", "poll", "body", "recheck", "kill", "rm", "dkill", "wait",
        "join_stdout", "join_stderr", "list", "cleanup", "return",
        "returned", "raised"}

Results == [ call : {"result"}, out : [ Streams -> Nat ], exit_code : Int,
             timed_out : BOOLEAN, output_truncated : BOOLEAN,
             canary_files : SUBSET Names ]

\* Every variable keeps the type the code gives it.
TypeOK ==
  /\ pc \in PCs
  /\ late \in BOOLEAN /\ timedOut \in BOOLEAN
  /\ exc \in {"none", "popen", "stop", "wait"}
  /\ stopRc \in {"none", "ok", "failed"}
  /\ expired \subseteq Streams
  /\ listed \subseteq Names
  /\ result \in Results \union {NoResult}
  /\ truncated \in BOOLEAN
  /\ reader \in [ Streams -> {"new", "reading", "done"} ]
  /\ piped \in [ Streams -> Nat ]
  /\ pulled \in [ Streams -> Nat ]
  /\ kept \in [ Streams -> Nat ]
  /\ client \in {"none", "running", "killed", "exited"} /\ rc \in Int
  /\ container \in {"none", "running", "ended"} /\ code \in Int
  /\ dir \in BOOLEAN /\ canary \subseteq Names /\ effects \subseteq Names

\* Once the files are listed, and for ever after the call has returned, the
\* container is not running: whichever of exit, deadline and output cap ended
\* the wait, however the client died and whatever hung on the way.  The one
\* exception is a stop command that reported an error, which _stop ignores.
NoContainerOutlivesCall ==
  pc \in {"list", "return", "returned"} /\ stopRc # "failed"
    => container # "running"

\* What a result says of the output is true: no more than the cap is kept,
\* "truncated" means that a stream really was longer than the cap, and without
\* it (and with both readers joined) the result is all that reached the pipes.
OutputIsHonest ==
  pc = "returned" =>
    /\ \A s \in Streams : result.out[s] <= OutputCap
    /\ result.output_truncated => \E s \in Streams : piped[s] > OutputCap
    /\ ~result.output_truncated /\ expired = {} => result.out = piped

\* An exit code that is not the client's own death is the container's, and the
\* container ended by itself: kill, deadline and exit racing cannot mix them up.
ExitCodeIsTheContainers ==
  pc = "returned" /\ result.exit_code # SIGKILLED =>
    IF container = "none"
      THEN result.exit_code = RefusedCode
      ELSE container = "ended" /\ result.exit_code = code

\* The canary directory is gone after every way out of run, by return or by
\* exception, and stays gone: only entries the host user cannot delete survive.
\* Not claimed of a call whose stop commands failed or gave up: its payload may
\* still be running, and adds to a directory that could not be removed.
CanaryDirIsRemoved ==
  Ended /\ stopRc # "failed" /\ exc # "stop"
    => canary \subseteq Stubborn /\ (dir => canary # {})

\* Killing the client first is what lets docker rm -f end: no stop command is ever up
\* against a live client whose pipe is full, so that with a daemon which hangs on
\* nothing else run never gives up on a container.
NeverGivesUpOnContainer ==
  /\ pc \in StopCommands => ~(client = "running" /\ PipeFull)
  /\ ~DaemonMayHang => exc # "stop"

\* Every call ends, whatever the container does: deadline, cap and the
\* timeouts on the stop commands leave run no place to wait for ever.
CallEnds == <>Ended

\* The promise of module SandboxCall, of which this module is an implementation.
phase ==
  IF pc = "raised" THEN "raised"
  ELSE IF pc # "returned" THEN "open"
  ELSE IF stopRc = "failed" THEN "loose" ELSE "returned"

reported == IF pc = "returned" THEN result.canary_files ELSE {}

Promise == INSTANCE SandboxCall

KeepsPromise == Promise!Spec

=============================================================================
