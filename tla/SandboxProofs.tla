---------------------------- MODULE SandboxProofs ----------------------------
(***************************************************************************)
(* What module Sandbox promises, for every output cap, chunk size, pipe    *)
(* capacity, set of names and set of exit codes.  The invariant is split   *)
(* by the part of the state it is about; each part is inductive given the  *)
(* ones before it.                                                         *)
(***************************************************************************)
EXTENDS Sandbox, TLAPS

\* From here on the try block has been left, or is being left, without an exception.
Past(stage) ==
  \/ pc \in {"list", "return", "returned"}
  \/ pc = "cleanup" /\ exc = "none"
  \/ pc \in stage

\* Where the thread may be while the client and the container are in a state.
Lifecycle ==
  /\ client = "none" <=> (pc = "popen" \/ exc = "popen")
  /\ exc # "none" => pc \in {"cleanup", "raised"}
  /\ pc = "raised" => exc # "none"
  /\ client = "none" => container = "none"
  /\ code # SIGKILLED /\ NoCode # SIGKILLED
  /\ client # "exited" => rc = NoCode
  /\ client = "exited" /\ rc # SIGKILLED =>
       IF container = "none" THEN rc = RefusedCode
                             ELSE container = "ended" /\ rc = code

\* Before the wait the client has exited or was killed, and if it was killed a
\* stop command has answered or the thread is still at it, or has given up.
Stopping ==
  /\ pc \in {"rm", "dkill", "wait"} => client \in {"killed", "exited"}
  /\ Past({"join_stdout", "join_stderr"}) => client = "exited"
  /\ client = "killed" \/ rc = SIGKILLED =>
       pc \in {"rm", "dkill"} \/ stopRc # "none" \/ exc = "stop"
  /\ stopRc = "ok" => container = "ended"
  /\ exc = "wait" => stopRc # "none"
  /\ ~DaemonMayHang => exc # "stop"

\* The bytes of each stream: what the pipe holds, what the sink keeps, when
\* the reader stops and why.
Flow ==
  /\ \A s \in Streams :
       /\ pulled[s] <= piped[s] /\ Held(s) <= PipeCap
       /\ kept[s] = Least(pulled[s], OutputCap)
       /\ reader[s] = "done" =>
            pulled[s] > OutputCap \/ (client = "exited" /\ piped[s] = pulled[s])
       /\ reader[s] # "done" => pulled[s] <= OutputCap
       /\ pulled[s] > OutputCap => truncated
  /\ truncated => \E s \in Streams : pulled[s] > OutputCap
  /\ pc = "popen" => \A s \in Streams : reader[s] = "new"

\* A join that did not give up found its reader done.
Joins ==
  /\ Past({"join_stderr"}) => "stdout" \in expired \/ reader["stdout"] = "done"
  /\ Past({}) => "stderr" \in expired \/ reader["stderr"] = "done"

\* The canary directory: complete until it is removed, and listed in between.
Files ==
  /\ pc \notin {"return", "returned", "raised"} => dir /\ canary = effects
  /\ pc \in {"return", "returned"} \/ (pc = "cleanup" /\ exc = "none") =>
       (stopRc # "failed" => listed = effects)
  /\ listed \subseteq effects
  /\ pc \in {"return", "returned", "raised"} /\ stopRc # "failed" /\ exc # "stop" =>
       canary \subseteq Stubborn /\ (dir => canary # {})

\* The result, once there is one.
Reported ==
  pc = "returned" =>
    /\ result \in Results
    /\ result.exit_code = rc
    /\ result.canary_files = listed
    /\ \A s \in Streams :
         /\ result.out[s] <= OutputCap
         /\ s \notin expired => result.out[s] = kept[s]
         /\ s \notin expired /\ ~result.output_truncated => pulled[s] <= OutputCap
    /\ result.output_truncated => truncated

IInv == TypeOK /\ Lifecycle /\ Stopping /\ Flow /\ Joins /\ Files /\ Reported

-----------------------------------------------------------------------------
(***************************************************************************)
(* Each part is preserved by every step, action by action.                 *)
(***************************************************************************)

\* Every step keeps every variable in its type.
LEMMA TypeStep ==
  TypeOK /\ [Next]_vars => TypeOK'
<1> SUFFICES ASSUME TypeOK, [Next]_vars PROVE TypeOK'
  OBVIOUS
<1> USE SandboxAssumption DEF TypeOK, PCs, Streams, NoResult, NoCode, main, flow, procs, files
<1>1. CASE Popen
  BY <1>1 DEF Popen
<1>2. CASE PopenFails
  BY <1>2 DEF PopenFails
<1>3. CASE Poll
  BY <1>3 DEF Poll
<1>4. CASE LoopBody
  BY <1>4 DEF LoopBody
<1>5. CASE Recheck
  BY <1>5 DEF Recheck
<1>6. CASE Kill
  BY <1>6 DEF Kill
<1>7. CASE StopSucceeds
  BY <1>7 DEF StopSucceeds, StopCommands, KilledCode
<1>8. CASE StopFails
  BY <1>8 DEF StopFails, StopCommands
<1>9. CASE StopHangs
  BY <1>9 DEF StopHangs, StopCanHang, StopCommands
<1>10. CASE Wait
  BY <1>10 DEF Wait
<1>11. CASE WaitExpires
  BY <1>11 DEF WaitExpires
<1>12. ASSUME NEW s \in Streams, Join(s) PROVE TypeOK'
  BY <1>12 DEF Join
<1>13. CASE ListCanary
  BY <1>13 DEF ListCanary
<1>14. CASE Cleanup
  BY <1>14 DEF Cleanup
<1>15. CASE Return
  BY <1>15 DEF Return, Results
<1>16. CASE DeadlinePasses
  BY <1>16 DEF DeadlinePasses
<1>17. ASSUME NEW s \in Streams, ReadChunk(s) PROVE TypeOK'
  BY <1>17 DEF ReadChunk, Held, Least
<1>18. ASSUME NEW s \in Streams, ReadEof(s) PROVE TypeOK'
  BY <1>18 DEF ReadEof, Held
<1>19. ASSUME NEW s \in Streams, ContainerWrites(s) PROVE TypeOK'
  BY <1>19 DEF ContainerWrites, Held
<1>20. CASE ContainerStarts
  BY <1>20 DEF ContainerStarts
<1>21. ASSUME NEW n \in Names, ContainerLeaves(n) PROVE TypeOK'
  BY <1>21 DEF ContainerLeaves
<1>22. ASSUME NEW c \in ExitCodes, ContainerEnds(c) PROVE TypeOK'
  BY <1>22 DEF ContainerEnds
<1>23. CASE ClientExits
  BY <1>23 DEF ClientExits
<1>24. CASE ClientRefused
  BY <1>24 DEF ClientRefused, RefusedCode
<1>25. CASE ClientDies
  BY <1>25 DEF ClientDies, SIGKILLED
<1>26. CASE UNCHANGED vars
  BY <1>26 DEF vars
<1> QED
  BY <1>1, <1>2, <1>3, <1>4, <1>5, <1>6, <1>7, <1>8, <1>9, <1>10, <1>11, <1>12, <1>13, <1>14, <1>15, <1>16, <1>17, <1>18, <1>19, <1>20, <1>21, <1>22, <1>23, <1>24, <1>25, <1>26 DEF Next, MainStep, Environment, Done

\* No step breaks the order of the client's and the container's lives.
LEMMA LifecycleStep ==
  TypeOK /\ Lifecycle /\ [Next]_vars => Lifecycle'
<1> SUFFICES ASSUME TypeOK /\ Lifecycle, [Next]_vars PROVE Lifecycle'
  OBVIOUS
<1> USE SandboxAssumption DEF TypeOK, Lifecycle, SIGKILLED, NoCode, RefusedCode, KilledCode, PCs, main, flow, procs, files
<1>1. CASE Popen
  BY <1>1 DEF Popen
<1>2. CASE PopenFails
  BY <1>2 DEF PopenFails
<1>3. CASE Poll
  BY <1>3 DEF Poll
<1>4. CASE LoopBody
  BY <1>4 DEF LoopBody
<1>5. CASE Recheck
  BY <1>5 DEF Recheck
<1>6. CASE Kill
  BY <1>6 DEF Kill
<1>7. CASE StopSucceeds
  BY <1>7 DEF StopSucceeds, StopCommands, KilledCode
<1>8. CASE StopFails
  BY <1>8 DEF StopFails, StopCommands
<1>9. CASE StopHangs
  BY <1>9 DEF StopHangs, StopCanHang, StopCommands
<1>10. CASE Wait
  BY <1>10 DEF Wait
<1>11. CASE WaitExpires
  BY <1>11 DEF WaitExpires
<1>12. ASSUME NEW s \in Streams, Join(s) PROVE Lifecycle'
  BY <1>12 DEF Join
<1>13. CASE ListCanary
  BY <1>13 DEF ListCanary
<1>14. CASE Cleanup
  BY <1>14 DEF Cleanup
<1>15. CASE Return
  BY <1>15 DEF Return, Results
<1>16. CASE DeadlinePasses
  BY <1>16 DEF DeadlinePasses
<1>17. ASSUME NEW s \in Streams, ReadChunk(s) PROVE Lifecycle'
  BY <1>17 DEF ReadChunk, Held, Least
<1>18. ASSUME NEW s \in Streams, ReadEof(s) PROVE Lifecycle'
  BY <1>18 DEF ReadEof, Held
<1>19. ASSUME NEW s \in Streams, ContainerWrites(s) PROVE Lifecycle'
  BY <1>19 DEF ContainerWrites, Held
<1>20. CASE ContainerStarts
  BY <1>20 DEF ContainerStarts
<1>21. ASSUME NEW n \in Names, ContainerLeaves(n) PROVE Lifecycle'
  BY <1>21 DEF ContainerLeaves
<1>22. ASSUME NEW c \in ExitCodes, ContainerEnds(c) PROVE Lifecycle'
  BY <1>22 DEF ContainerEnds
<1>23. CASE ClientExits
  BY <1>23 DEF ClientExits
<1>24. CASE ClientRefused
  BY <1>24 DEF ClientRefused, RefusedCode
<1>25. CASE ClientDies
  BY <1>25 DEF ClientDies, SIGKILLED
<1>26. CASE UNCHANGED vars
  BY <1>26 DEF vars
<1> QED
  BY <1>1, <1>2, <1>3, <1>4, <1>5, <1>6, <1>7, <1>8, <1>9, <1>10, <1>11, <1>12, <1>13, <1>14, <1>15, <1>16, <1>17, <1>18, <1>19, <1>20, <1>21, <1>22, <1>23, <1>24, <1>25, <1>26 DEF Next, MainStep, Environment, Done

\* The wait is only reached with a client that is dead or dying, and a killed
\* client only with a stop command's answer.
LEMMA StoppingStep ==
  TypeOK /\ Lifecycle /\ Stopping /\ [Next]_vars => Stopping'
<1> SUFFICES ASSUME TypeOK /\ Lifecycle /\ Stopping, [Next]_vars PROVE Stopping'
  OBVIOUS
<1> USE SandboxAssumption DEF TypeOK, Lifecycle, Stopping, Past, SIGKILLED, NoCode, RefusedCode, PCs, main, flow, procs, files
<1>1. CASE Popen
  BY <1>1 DEF Popen
<1>2. CASE PopenFails
  BY <1>2 DEF PopenFails
<1>3. CASE Poll
  BY <1>3 DEF Poll
<1>4. CASE LoopBody
  BY <1>4 DEF LoopBody
<1>5. CASE Recheck
  BY <1>5 DEF Recheck
<1>6. CASE Kill
  BY <1>6 DEF Kill
<1>7. CASE StopSucceeds
  BY <1>7 DEF StopSucceeds, StopCommands, KilledCode
<1>8. CASE StopFails
  BY <1>8 DEF StopFails, StopCommands
<1>9. CASE StopHangs
  BY <1>9 DEF StopHangs, StopCanHang, StopCommands
<1>10. CASE Wait
  BY <1>10 DEF Wait
<1>11. CASE WaitExpires
  BY <1>11 DEF WaitExpires
<1>12. ASSUME NEW s \in Streams, Join(s) PROVE Stopping'
  BY <1>12 DEF Join
<1>13. CASE ListCanary
  BY <1>13 DEF ListCanary
<1>14. CASE Cleanup
  BY <1>14 DEF Cleanup
<1>15. CASE Return
  BY <1>15 DEF Return, Results
<1>16. CASE DeadlinePasses
  BY <1>16 DEF DeadlinePasses
<1>17. ASSUME NEW s \in Streams, ReadChunk(s) PROVE Stopping'
  BY <1>17 DEF ReadChunk, Held, Least
<1>18. ASSUME NEW s \in Streams, ReadEof(s) PROVE Stopping'
  BY <1>18 DEF ReadEof, Held
<1>19. ASSUME NEW s \in Streams, ContainerWrites(s) PROVE Stopping'
  BY <1>19 DEF ContainerWrites, Held
<1>20. CASE ContainerStarts
  BY <1>20 DEF ContainerStarts
<1>21. ASSUME NEW n \in Names, ContainerLeaves(n) PROVE Stopping'
  BY <1>21 DEF ContainerLeaves
<1>22. ASSUME NEW c \in ExitCodes, ContainerEnds(c) PROVE Stopping'
  BY <1>22 DEF ContainerEnds
<1>23. CASE ClientExits
  BY <1>23 DEF ClientExits
<1>24. CASE ClientRefused
  BY <1>24 DEF ClientRefused, RefusedCode
<1>25. CASE ClientDies
  BY <1>25 DEF ClientDies, SIGKILLED
<1>26. CASE UNCHANGED vars
  BY <1>26 DEF vars
<1> QED
  BY <1>1, <1>2, <1>3, <1>4, <1>5, <1>6, <1>7, <1>8, <1>9, <1>10, <1>11, <1>12, <1>13, <1>14, <1>15, <1>16, <1>17, <1>18, <1>19, <1>20, <1>21, <1>22, <1>23, <1>24, <1>25, <1>26 DEF Next, MainStep, Environment, Done

\* No step loses count of the bytes, or of why a reader stopped.
LEMMA FlowStep ==
  TypeOK /\ Flow /\ [Next]_vars => Flow'
<1> SUFFICES ASSUME TypeOK /\ Flow, [Next]_vars PROVE Flow'
  OBVIOUS
<1> USE SandboxAssumption DEF TypeOK, Flow, Held, Least, Streams, main, flow, procs, files
<1>1. CASE Popen
  BY <1>1 DEF Popen
<1>2. CASE PopenFails
  BY <1>2 DEF PopenFails
<1>3. CASE Poll
  BY <1>3 DEF Poll
<1>4. CASE LoopBody
  BY <1>4 DEF LoopBody
<1>5. CASE Recheck
  BY <1>5 DEF Recheck
<1>6. CASE Kill
  BY <1>6 DEF Kill
<1>7. CASE StopSucceeds
  BY <1>7 DEF StopSucceeds, StopCommands, KilledCode
<1>8. CASE StopFails
  BY <1>8 DEF StopFails, StopCommands
<1>9. CASE StopHangs
  BY <1>9 DEF StopHangs, StopCanHang, StopCommands
<1>10. CASE Wait
  BY <1>10 DEF Wait
<1>11. CASE WaitExpires
  BY <1>11 DEF WaitExpires
<1>12. ASSUME NEW s \in Streams, Join(s) PROVE Flow'
  BY <1>12 DEF Join
<1>13. CASE ListCanary
  BY <1>13 DEF ListCanary
<1>14. CASE Cleanup
  BY <1>14 DEF Cleanup
<1>15. CASE Return
  BY <1>15 DEF Return, Results
<1>16. CASE DeadlinePasses
  BY <1>16 DEF DeadlinePasses
<1>17. ASSUME NEW s \in Streams, ReadChunk(s) PROVE Flow'
  <2> DEFINE k == Least(Chunk, Held(s))
             room == OutputCap - kept[s]
  <2>1. k \in Nat /\ k > 0 /\ k <= Held(s) /\ Held(s) \in Nat
    BY <1>17 DEF ReadChunk
  <2>2. room \in Nat /\ kept[s] = pulled[s]
    BY <1>17 DEF ReadChunk
  <2>3. /\ pulled' = [ pulled EXCEPT ![s] = @ + k ]
        /\ kept' = [ kept EXCEPT ![s] = @ + Least(k, room) ]
        /\ truncated' = (truncated \/ k > room)
        /\ reader' = IF k > room THEN [ reader EXCEPT ![s] = "done" ] ELSE reader
        /\ reader[s] = "reading" /\ UNCHANGED << pc, piped, client >>
    BY <1>17 DEF ReadChunk
  <2> HIDE DEF k, room
  <2>4. pulled'[s] = pulled[s] + k /\ (k > room <=> pulled'[s] > OutputCap)
    BY <2>1, <2>2, <2>3 DEF room
  <2>5. kept'[s] = Least(pulled'[s], OutputCap)
    BY <2>1, <2>2, <2>3, <2>4 DEF room
  <2>6. \A t \in Streams \ {s} :
          pulled'[t] = pulled[t] /\ kept'[t] = kept[t] /\ reader'[t] = reader[t]
    BY <2>3
  <2>7. truncated' => \E t \in Streams : pulled'[t] > OutputCap
    BY <2>1, <2>3, <2>4, <2>6
  <2>8. reader'[s] = (IF k > room THEN "done" ELSE "reading") /\ pc' # "popen"
    BY <2>3
  <2>9. ASSUME NEW t \in Streams
        PROVE  /\ pulled'[t] <= piped'[t] /\ Held(t)' <= PipeCap
               /\ kept'[t] = Least(pulled'[t], OutputCap)
               /\ reader'[t] = "done" =>
                    pulled'[t] > OutputCap \/ (client' = "exited" /\ piped'[t] = pulled'[t])
               /\ reader'[t] # "done" => pulled'[t] <= OutputCap
               /\ pulled'[t] > OutputCap => truncated'
    <3>1. CASE t = s
      <4>1. pulled'[s] <= piped'[s] /\ Held(s)' <= PipeCap
        BY <2>1, <2>3, <2>4
      <4>2. pulled'[s] > OutputCap => truncated'
        BY <2>3, <2>4
      <4>3. reader'[s] = "done" <=> pulled'[s] > OutputCap
        BY <2>4, <2>8
      <4>4. pulled'[s] \in Nat
        BY <2>1, <2>4
      <4> QED
        BY <3>1, <4>1, <4>2, <4>3, <4>4, <2>5
    <3>2. CASE t # s
      BY <3>2, <2>3, <2>6
    <3> QED
      BY <3>1, <3>2
  <2> QED
    BY <2>7, <2>8, <2>9
<1>18. ASSUME NEW s \in Streams, ReadEof(s) PROVE Flow'
  BY <1>18 DEF ReadEof, Held
<1>19. ASSUME NEW s \in Streams, ContainerWrites(s) PROVE Flow'
  BY <1>19 DEF ContainerWrites, Held
<1>20. CASE ContainerStarts
  BY <1>20 DEF ContainerStarts
<1>21. ASSUME NEW n \in Names, ContainerLeaves(n) PROVE Flow'
  BY <1>21 DEF ContainerLeaves
<1>22. ASSUME NEW c \in ExitCodes, ContainerEnds(c) PROVE Flow'
  BY <1>22 DEF ContainerEnds
<1>23. CASE ClientExits
  BY <1>23 DEF ClientExits
<1>24. CASE ClientRefused
  BY <1>24 DEF ClientRefused, RefusedCode
<1>25. CASE ClientDies
  BY <1>25 DEF ClientDies, SIGKILLED
<1>26. CASE UNCHANGED vars
  BY <1>26 DEF vars
<1> QED
  BY <1>1, <1>2, <1>3, <1>4, <1>5, <1>6, <1>7, <1>8, <1>9, <1>10, <1>11, <1>12, <1>13, <1>14, <1>15, <1>16, <1>17, <1>18, <1>19, <1>20, <1>21, <1>22, <1>23, <1>24, <1>25, <1>26 DEF Next, MainStep, Environment, Done

\* Past a join, its reader is done or the join is known to have given up.
LEMMA JoinsStep ==
  TypeOK /\ Joins /\ [Next]_vars => Joins'
<1> SUFFICES ASSUME TypeOK /\ Joins, [Next]_vars PROVE Joins'
  OBVIOUS
<1> USE SandboxAssumption DEF TypeOK, Joins, Past, Streams, PCs, main, flow, procs, files
<1>1. CASE Popen
  BY <1>1 DEF Popen
<1>2. CASE PopenFails
  BY <1>2 DEF PopenFails
<1>3. CASE Poll
  BY <1>3 DEF Poll
<1>4. CASE LoopBody
  BY <1>4 DEF LoopBody
<1>5. CASE Recheck
  BY <1>5 DEF Recheck
<1>6. CASE Kill
  BY <1>6 DEF Kill
<1>7. CASE StopSucceeds
  BY <1>7 DEF StopSucceeds, StopCommands, KilledCode
<1>8. CASE StopFails
  BY <1>8 DEF StopFails, StopCommands
<1>9. CASE StopHangs
  BY <1>9 DEF StopHangs, StopCanHang, StopCommands
<1>10. CASE Wait
  BY <1>10 DEF Wait
<1>11. CASE WaitExpires
  BY <1>11 DEF WaitExpires
<1>12. ASSUME NEW s \in Streams, Join(s) PROVE Joins'
  BY <1>12 DEF Join
<1>13. CASE ListCanary
  BY <1>13 DEF ListCanary
<1>14. CASE Cleanup
  BY <1>14 DEF Cleanup
<1>15. CASE Return
  BY <1>15 DEF Return, Results
<1>16. CASE DeadlinePasses
  BY <1>16 DEF DeadlinePasses
<1>17. ASSUME NEW s \in Streams, ReadChunk(s) PROVE Joins'
  BY <1>17 DEF ReadChunk, Held, Least
<1>18. ASSUME NEW s \in Streams, ReadEof(s) PROVE Joins'
  BY <1>18 DEF ReadEof, Held
<1>19. ASSUME NEW s \in Streams, ContainerWrites(s) PROVE Joins'
  BY <1>19 DEF ContainerWrites, Held
<1>20. CASE ContainerStarts
  BY <1>20 DEF ContainerStarts
<1>21. ASSUME NEW n \in Names, ContainerLeaves(n) PROVE Joins'
  BY <1>21 DEF ContainerLeaves
<1>22. ASSUME NEW c \in ExitCodes, ContainerEnds(c) PROVE Joins'
  BY <1>22 DEF ContainerEnds
<1>23. CASE ClientExits
  BY <1>23 DEF ClientExits
<1>24. CASE ClientRefused
  BY <1>24 DEF ClientRefused, RefusedCode
<1>25. CASE ClientDies
  BY <1>25 DEF ClientDies, SIGKILLED
<1>26. CASE UNCHANGED vars
  BY <1>26 DEF vars
<1> QED
  BY <1>1, <1>2, <1>3, <1>4, <1>5, <1>6, <1>7, <1>8, <1>9, <1>10, <1>11, <1>12, <1>13, <1>14, <1>15, <1>16, <1>17, <1>18, <1>19, <1>20, <1>21, <1>22, <1>23, <1>24, <1>25, <1>26 DEF Next, MainStep, Environment, Done

\* The canary directory is intact until it has been listed, and gone afterwards.
LEMMA FilesStep ==
  TypeOK /\ Lifecycle /\ Stopping /\ Files /\ [Next]_vars => Files'
<1> SUFFICES ASSUME TypeOK /\ Lifecycle /\ Stopping /\ Files, [Next]_vars PROVE Files'
  OBVIOUS
<1> USE SandboxAssumption DEF TypeOK, Lifecycle, Stopping, Files, Past, PCs, SIGKILLED, NoCode, RefusedCode, main, flow, procs, files
<1>1. CASE Popen
  BY <1>1 DEF Popen
<1>2. CASE PopenFails
  BY <1>2 DEF PopenFails
<1>3. CASE Poll
  BY <1>3 DEF Poll
<1>4. CASE LoopBody
  BY <1>4 DEF LoopBody
<1>5. CASE Recheck
  BY <1>5 DEF Recheck
<1>6. CASE Kill
  BY <1>6 DEF Kill
<1>7. CASE StopSucceeds
  BY <1>7 DEF StopSucceeds, StopCommands, KilledCode
<1>8. CASE StopFails
  BY <1>8 DEF StopFails, StopCommands
<1>9. CASE StopHangs
  BY <1>9 DEF StopHangs, StopCanHang, StopCommands
<1>10. CASE Wait
  BY <1>10 DEF Wait
<1>11. CASE WaitExpires
  BY <1>11 DEF WaitExpires
<1>12. ASSUME NEW s \in Streams, Join(s) PROVE Files'
  BY <1>12 DEF Join
<1>13. CASE ListCanary
  BY <1>13 DEF ListCanary
<1>14. CASE Cleanup
  BY <1>14 DEF Cleanup
<1>15. CASE Return
  BY <1>15 DEF Return, Results
<1>16. CASE DeadlinePasses
  BY <1>16 DEF DeadlinePasses
<1>17. ASSUME NEW s \in Streams, ReadChunk(s) PROVE Files'
  BY <1>17 DEF ReadChunk, Held, Least
<1>18. ASSUME NEW s \in Streams, ReadEof(s) PROVE Files'
  BY <1>18 DEF ReadEof, Held
<1>19. ASSUME NEW s \in Streams, ContainerWrites(s) PROVE Files'
  BY <1>19 DEF ContainerWrites, Held
<1>20. CASE ContainerStarts
  BY <1>20 DEF ContainerStarts
<1>21. ASSUME NEW n \in Names, ContainerLeaves(n) PROVE Files'
  BY <1>21 DEF ContainerLeaves
<1>22. ASSUME NEW c \in ExitCodes, ContainerEnds(c) PROVE Files'
  BY <1>22 DEF ContainerEnds
<1>23. CASE ClientExits
  BY <1>23 DEF ClientExits
<1>24. CASE ClientRefused
  BY <1>24 DEF ClientRefused, RefusedCode
<1>25. CASE ClientDies
  BY <1>25 DEF ClientDies, SIGKILLED
<1>26. CASE UNCHANGED vars
  BY <1>26 DEF vars
<1> QED
  BY <1>1, <1>2, <1>3, <1>4, <1>5, <1>6, <1>7, <1>8, <1>9, <1>10, <1>11, <1>12, <1>13, <1>14, <1>15, <1>16, <1>17, <1>18, <1>19, <1>20, <1>21, <1>22, <1>23, <1>24, <1>25, <1>26 DEF Next, MainStep, Environment, Done

\* Nothing that happens after the return makes the result false.
LEMMA ReportedStep ==
  TypeOK /\ Stopping /\ Flow /\ Joins /\ Reported /\ [Next]_vars => Reported'
<1> SUFFICES ASSUME TypeOK /\ Stopping /\ Flow /\ Joins /\ Reported, [Next]_vars PROVE Reported'
  OBVIOUS
<1> USE SandboxAssumption DEF TypeOK, Stopping, Flow, Joins, Reported, Past, Held, Least, Streams, PCs, Results, main, flow, procs, files
<1>1. CASE Popen
  BY <1>1 DEF Popen
<1>2. CASE PopenFails
  BY <1>2 DEF PopenFails
<1>3. CASE Poll
  BY <1>3 DEF Poll
<1>4. CASE LoopBody
  BY <1>4 DEF LoopBody
<1>5. CASE Recheck
  BY <1>5 DEF Recheck
<1>6. CASE Kill
  BY <1>6 DEF Kill
<1>7. CASE StopSucceeds
  BY <1>7 DEF StopSucceeds, StopCommands, KilledCode
<1>8. CASE StopFails
  BY <1>8 DEF StopFails, StopCommands
<1>9. CASE StopHangs
  BY <1>9 DEF StopHangs, StopCanHang, StopCommands
<1>10. CASE Wait
  BY <1>10 DEF Wait
<1>11. CASE WaitExpires
  BY <1>11 DEF WaitExpires
<1>12. ASSUME NEW s \in Streams, Join(s) PROVE Reported'
  BY <1>12 DEF Join
<1>13. CASE ListCanary
  BY <1>13 DEF ListCanary
<1>14. CASE Cleanup
  BY <1>14 DEF Cleanup
<1>15. CASE Return
  BY <1>15 DEF Return, Results
<1>16. CASE DeadlinePasses
  BY <1>16 DEF DeadlinePasses
<1>17. ASSUME NEW s \in Streams, ReadChunk(s) PROVE Reported'
  BY <1>17 DEF ReadChunk, Held, Least
<1>18. ASSUME NEW s \in Streams, ReadEof(s) PROVE Reported'
  BY <1>18 DEF ReadEof, Held
<1>19. ASSUME NEW s \in Streams, ContainerWrites(s) PROVE Reported'
  BY <1>19 DEF ContainerWrites, Held
<1>20. CASE ContainerStarts
  BY <1>20 DEF ContainerStarts
<1>21. ASSUME NEW n \in Names, ContainerLeaves(n) PROVE Reported'
  BY <1>21 DEF ContainerLeaves
<1>22. ASSUME NEW c \in ExitCodes, ContainerEnds(c) PROVE Reported'
  BY <1>22 DEF ContainerEnds
<1>23. CASE ClientExits
  BY <1>23 DEF ClientExits
<1>24. CASE ClientRefused
  BY <1>24 DEF ClientRefused, RefusedCode
<1>25. CASE ClientDies
  BY <1>25 DEF ClientDies, SIGKILLED
<1>26. CASE UNCHANGED vars
  BY <1>26 DEF vars
<1> QED
  BY <1>1, <1>2, <1>3, <1>4, <1>5, <1>6, <1>7, <1>8, <1>9, <1>10, <1>11, <1>12, <1>13, <1>14, <1>15, <1>16, <1>17, <1>18, <1>19, <1>20, <1>21, <1>22, <1>23, <1>24, <1>25, <1>26 DEF Next, MainStep, Environment, Done

-----------------------------------------------------------------------------
(***************************************************************************)
(* The theorems.                                                           *)
(***************************************************************************)

\* The initial state has every part of the invariant.
LEMMA InitIInv == Init => IInv
<1> SUFFICES ASSUME Init PROVE IInv
  OBVIOUS
<1> USE SandboxAssumption DEF Init, Streams
<1>1. TypeOK
  <2>1. result \in Results \union {NoResult} /\ rc \in Int /\ code \in Int
    BY DEF NoCode
  <2> QED
    BY <2>1 DEF TypeOK, PCs
<1>2. Lifecycle /\ Stopping
  BY DEF Lifecycle, Stopping, Past, SIGKILLED, NoCode
<1>3. Flow
  BY DEF Flow, Held, Least
<1>4. Joins /\ Files /\ Reported
  BY DEF Joins, Files, Reported, Past
<1> QED
  BY <1>1, <1>2, <1>3, <1>4 DEF IInv

\* Type correctness: every variable of a call keeps its type in every state.
THEOREM TypeCorrect == Spec => []TypeOK
<1>1. Init => TypeOK
  BY InitIInv DEF IInv
<1>2. TypeOK /\ [Next]_vars => TypeOK'
  BY TypeStep
<1> QED
  BY <1>1, <1>2, PTL DEF Spec

\* The inductive invariant: all its parts hold in every state of a call.
THEOREM Invariance == Spec => []IInv
<1>1. IInv /\ [Next]_vars => IInv'
  <2> SUFFICES ASSUME IInv, [Next]_vars PROVE IInv'
    OBVIOUS
  <2>1. TypeOK' /\ Lifecycle'
    BY TypeStep, LifecycleStep DEF IInv
  <2>2. Stopping' /\ Flow' /\ Joins'
    BY StoppingStep, FlowStep, JoinsStep DEF IInv
  <2>3. Files' /\ Reported'
    BY FilesStep, ReportedStep DEF IInv
  <2> QED
    BY <2>1, <2>2, <2>3 DEF IInv
<1> QED
  BY InitIInv, <1>1, PTL DEF Spec

\* The invariant rules out a running container where run relies on it.
LEMMA StoppedContainer == IInv => NoContainerOutlivesCall
BY DEF IInv, NoContainerOutlivesCall, TypeOK, Lifecycle, Stopping, Past

\* When run lists the canary files, and ever after it has returned, the
\* container has stopped, unless a stop command reported an error.
THEOREM ContainerStopped == Spec => []NoContainerOutlivesCall
<1> QED
  BY Invariance, StoppedContainer, PTL

\* What a result says of the output is true, for every cap and chunk size.
THEOREM HonestOutput == Spec => []OutputIsHonest
<1>1. IInv => OutputIsHonest
  <2> SUFFICES ASSUME IInv, pc = "returned"
               PROVE  /\ \A s \in Streams : result.out[s] <= OutputCap
                      /\ result.output_truncated => \E s \in Streams : piped[s] > OutputCap
                      /\ ~result.output_truncated /\ expired = {} => result.out = piped
    BY DEF OutputIsHonest
  <2>1. \A s \in Streams : result.out[s] <= OutputCap
    BY DEF IInv, Reported
  <2>2. result.output_truncated => \E s \in Streams : piped[s] > OutputCap
    BY SandboxAssumption DEF IInv, Reported, Flow, TypeOK
  <2>3. ASSUME ~result.output_truncated, expired = {} PROVE result.out = piped
    <3>1. result \in Results
      BY DEF IInv, Reported
    <3>2. \A s \in Streams : reader[s] = "done"
      BY <2>3 DEF IInv, Joins, Past, Streams
    <3>3. \A s \in Streams : result.out[s] = piped[s]
      BY <2>3, <3>2, SandboxAssumption DEF IInv, Reported, Flow, TypeOK, Least
    <3> QED
      BY <3>1, <3>3 DEF Results, IInv, TypeOK
  <2> QED
    BY <2>1, <2>2, <2>3
<1> QED
  BY Invariance, <1>1, PTL

\* A returned exit code other than -SIGKILL is the one the container ended with.
THEOREM HonestExitCode == Spec => []ExitCodeIsTheContainers
<1>1. IInv => ExitCodeIsTheContainers
  BY DEF IInv, ExitCodeIsTheContainers, Lifecycle, Stopping, Reported, Past
<1> QED
  BY Invariance, <1>1, PTL

\* No way out of run, by return or by exception, leaves the canary directory.
THEOREM CanaryRemoved == Spec => []CanaryDirIsRemoved
<1>1. IInv => CanaryDirIsRemoved
  BY DEF IInv, CanaryDirIsRemoved, Files, Ended
<1> QED
  BY Invariance, <1>1, PTL

\* With a daemon that hangs only on a live client's full pipe, _stop never
\* gives up: the client is dead or dying before the first stop command.
THEOREM StopNeverGivesUp == Spec => []NeverGivesUpOnContainer
<1>1. IInv => NeverGivesUpOnContainer
  BY DEF IInv, NeverGivesUpOnContainer, Stopping, StopCommands
<1> QED
  BY Invariance, <1>1, PTL

\* DockerSandbox.run keeps the promise of module SandboxCall: what it reports is
\* all the payload did, and the payload does nothing after it returned.
THEOREM Implementation == Spec => KeepsPromise
<1>1. Init => Promise!Init
  BY DEF Init, Promise!Init, phase, reported
<1>2. IInv /\ [Next]_vars => [Promise!Next]_<<phase, effects, reported>>
  <2> SUFFICES ASSUME IInv, [Next]_vars
               PROVE  [Promise!Next]_<<phase, effects, reported>>
    OBVIOUS
  <2> USE DEF phase, reported, main, flow, procs, files
  <2>1. CASE Return
    <3>1. phase = "open" /\ effects' = effects /\ reported' = listed
      BY <2>1 DEF Return
    <3>2. CASE stopRc = "failed"
      <4>1. phase' = "loose" /\ listed \in SUBSET effects
        BY <2>1, <3>2 DEF Return, IInv, Files
      <4> QED
        BY <3>1, <4>1 DEF Promise!Next, Promise!ReturnLoose
    <3>3. CASE stopRc # "failed"
      <4>1. phase' = "returned" /\ listed = effects
        BY <2>1, <3>3 DEF Return, IInv, Files
      <4> QED
        BY <3>1, <4>1 DEF Promise!Next, Promise!Return
    <3> QED
      BY <3>2, <3>3
  <2>2. CASE Cleanup
    <3>1. phase = "open" /\ reported = {} /\ reported' = {} /\ effects' = effects
      BY <2>2 DEF Cleanup
    <3>2. phase' = "open" \/ phase' = "raised"
      BY <2>2 DEF Cleanup
    <3> QED
      BY <3>1, <3>2 DEF Promise!Next, Promise!Raise
  <2>3. ASSUME NEW n \in Names, ContainerLeaves(n)
        PROVE  [Promise!Next]_<<phase, effects, reported>>
    <3>1. phase # "returned"
      BY <2>3, StoppedContainer DEF ContainerLeaves, NoContainerOutlivesCall
    <3>2. effects' = effects \union {n} /\ phase' = phase /\ reported' = reported
      BY <2>3 DEF ContainerLeaves
    <3> QED
      BY <3>1, <3>2 DEF Promise!Next, Promise!Effect
  <2>4. CASE MainStep /\ ~Return /\ ~Cleanup
    <3>1. pc \notin {"returned", "raised"} /\ pc' \notin {"returned", "raised"}
      BY <2>4 DEF MainStep, Popen, PopenFails, Poll, LoopBody, Recheck, Kill,
                  StopSucceeds, StopFails, StopHangs, StopCommands, Wait, WaitExpires,
                  Join, ListCanary
    <3>2. effects' = effects
      BY <2>4 DEF MainStep, Popen, PopenFails, Poll, LoopBody, Recheck, Kill,
                  StopSucceeds, StopFails, StopHangs, Wait, WaitExpires, Join, ListCanary
    <3> QED
      BY <3>1, <3>2
  <2>5. CASE Environment /\ ~(\E n \in Names : ContainerLeaves(n))
    <3>1. UNCHANGED << pc, stopRc, result, effects >>
      BY <2>5 DEF Environment, DeadlinePasses, ReadChunk, ReadEof, ContainerWrites,
                  ContainerStarts, ContainerEnds, ClientExits, ClientRefused, ClientDies
    <3> QED
      BY <3>1
  <2>6. CASE Done \/ UNCHANGED vars
    BY <2>6 DEF Done, vars
  <2> QED
    BY <2>1, <2>2, <2>3, <2>4, <2>5, <2>6 DEF Next, Environment
<1> QED
  BY Invariance, <1>1, <1>2, PTL DEF Spec, KeepsPromise, Promise!Spec, Promise!vars

=============================================================================
