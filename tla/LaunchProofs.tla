---------------------------- MODULE LaunchProofs ----------------------------
(***************************************************************************)
(* What launch tells its caller and what ~process leaves behind, for every *)
(* set of signals that others may send.  Each part of the invariant says   *)
(* what one of the parties may rely on at a point of its own.              *)
(***************************************************************************)
EXTENDS Launch, Integers, TLAPS

\* Before launch or attach there is nothing.
Nothing ==
    phase = "start" =>
        step = "none" /\ cstate = "none" /\ ~traced /\ ~message /\ writers = {} /\ result = "none"

\* A launched child that has not come to its program, and lives, holds the pipe open; and
\* then launch is still reading it, or has read why the child will end.
Pipe ==
    /\ phase # "start" /\ Alive /\ step # "program" => "child" \in writers
    /\ "child" \in writers => Alive /\ step # "program" /\ (phase = "read" \/ message)
    /\ writers \subseteq {"child"}
    /\ step = "exit" <=> message
    /\ phase = "read" => result = "none"
    /\ message => phase \in {"read", "reap_failed", "done"} /\ result # "process"
    /\ phase # "start" => step # "none" /\ cstate # "none"

\* Who ends up where.
Origin ==
    /\ phase \in {"read", "reap_failed", "terminate", "reap"} => how = "launch"
    /\ ~attached => how = "launch" /\ phase \in {"read", "reap_failed", "user", "terminate", "reap", "done"}
    /\ phase # "start" /\ how = "attach" => attached /\ step = "program" /\ ~message

\* What a ptrace stop says.
Stopped ==
    /\ cstate = "stopped" => traced /\ step = "program"
    /\ cstate = "suspended" => ~traced
    /\ result = "process" /\ attached => step = "program" /\ (phase = "user" => traced)
    /\ phase \in {"options", "detach"} => cstate \in {"stopped", "zombie", "reaped"}
    /\ phase = "user" /\ attached /\ state_ # "running" => cstate \in {"stopped", "zombie", "reaped"}

\* What is left once the debugger has let go.
Left ==
    /\ phase = "continue" /\ Alive => ~traced
    /\ phase = "done" /\ how = "launch" => cstate = "reaped"
    /\ phase = "done" /\ how = "attach" /\ Alive =>
           ~traced /\ cstate = "running" /\ "SIGSTOP" \notin pending

LInv == TypeOK /\ Nothing /\ Pipe /\ Origin /\ Stopped /\ Left

LEMMA InitEstablishesLInv == Init => LInv
BY DEF Init, LInv, TypeOK, Nothing, Pipe, Origin, Stopped, Left, Alive

\* launch, up to the point where it knows what has become of the child.
LEMMA LaunchPreserves ==
    ASSUME LInv, (\E debug \in BOOLEAN : launch(debug)) \/ ReadPipe \/ LaunchFails
    PROVE  LInv'
<1> USE DEF LInv, TypeOK, Nothing, Pipe, Origin, Stopped, Left, Alive, inferior, channel
<1>1. ASSUME NEW debug \in BOOLEAN, launch(debug) PROVE LInv'
  BY <1>1 DEF launch, fork
<1>2. CASE ReadPipe
  BY <1>2 DEF ReadPipe, read_returns
<1>3. CASE LaunchFails
  BY <1>3 DEF LaunchFails, Reap
<1> QED
  BY <1>1, <1>2, <1>3

\* attach, and what both do with the first stop.
LEMMA AttachPreserves ==
    ASSUME LInv, attach \/ FirstWait \/ set_ptrace_options
    PROVE  LInv'
<1> USE DEF LInv, TypeOK, Nothing, Pipe, Origin, Stopped, Left, Alive, inferior, channel
<1>1. CASE attach
  BY <1>1 DEF attach
<1>2. CASE FirstWait
  BY <1>2 DEF FirstWait, waitpid, Reap
<1>3. CASE set_ptrace_options
  BY <1>3 DEF set_ptrace_options
<1> QED
  BY <1>1, <1>2, <1>3

LEMMA UserPreserves == ASSUME LInv, Resume \/ Wait \/ Destroy PROVE LInv'
<1> USE DEF LInv, TypeOK, Nothing, Pipe, Origin, Stopped, Left, Alive, inferior, channel
<1>1. CASE Resume
  BY <1>1 DEF Resume
<1>2. CASE Wait
  BY <1>2 DEF Wait, waitpid, Reap
<1>3. CASE Destroy
  BY <1>3 DEF Destroy
<1> QED
  BY <1>1, <1>2, <1>3

\* ~process.
LEMMA DestructorPreserves ==
    ASSUME LInv, SendStop \/ StopWait \/ Detach \/ SendContinue \/ Terminate \/ LastWait
    PROVE  LInv'
<1> USE DEF LInv, TypeOK, Nothing, Pipe, Origin, Stopped, Left, Alive, inferior, channel
<1>1. CASE SendStop
  BY <1>1 DEF SendStop
<1>2. CASE StopWait
  <2>1. TypeOK' /\ Nothing' /\ Pipe' /\ Origin'
    BY <1>2 DEF StopWait, Reap
  <2>2. Stopped' /\ Left'
    BY <1>2 DEF StopWait, Reap
  <2> QED
    BY <2>1, <2>2
<1>3. CASE Detach
  BY <1>3 DEF Detach
<1>4. CASE SendContinue
  BY <1>4 DEF SendContinue
<1>5. CASE Terminate
  BY <1>5 DEF Terminate
<1>6. CASE LastWait
  BY <1>6 DEF LastWait, Reap
<1> QED
  BY <1>1, <1>2, <1>3, <1>4, <1>5, <1>6

\* The child, until it executes the program.
LEMMA ChildPreserves == ASSUME LInv, Child PROVE LInv'
<1> USE DEF LInv, TypeOK, Nothing, Pipe, Origin, Stopped, Left, Alive, inferior, channel
<1>1. CASE Prepare
  BY <1>1 DEF Prepare, ChildRuns
<1>2. CASE TraceMe
  BY <1>2 DEF TraceMe, ChildRuns
<1>3. CASE Exec
  BY <1>3 DEF Exec, exec, ChildRuns
<1>4. CASE exit_with_perror
  BY <1>4 DEF exit_with_perror, write, ChildRuns
<1>5. CASE ExitAfterError
  BY <1>5 DEF ExitAfterError, End, ChildRuns
<1> QED
  BY <1>1, <1>2, <1>3, <1>4, <1>5 DEF Child

\* The program, the kernel and the others.
LEMMA WorldPreserves ==
    ASSUME LInv, ProgramExits \/ Kill \/ Stray \/ Deliver
    PROVE  LInv'
<1> USE DEF LInv, TypeOK, Nothing, Pipe, Origin, Stopped, Left, Alive, inferior, channel
<1>1. CASE ProgramExits
  BY <1>1 DEF ProgramExits, End, ChildRuns
<1>2. CASE Kill
  BY <1>2 DEF Kill, End
<1>3. CASE Stray
  BY <1>3 DEF Stray
<1>4. CASE Deliver
  BY <1>4 DEF Deliver
<1> QED
  BY <1>1, <1>2, <1>3, <1>4

LEMMA StutterPreserves == ASSUME LInv, UNCHANGED vars PROVE LInv'
BY DEF vars, LInv, TypeOK, Nothing, Pipe, Origin, Stopped, Left, Alive

THEOREM Inductive == Spec => []LInv
<1>1. LInv /\ [Next]_vars => LInv'
  BY LaunchPreserves, AttachPreserves, UserPreserves, DestructorPreserves, ChildPreserves,
     WorldPreserves, StutterPreserves DEF Next, Debugger
<1> QED
  BY InitEstablishesLInv, <1>1, PTL DEF Spec

\* What launch's variables may be, and that its program has left the pipe.
THEOREM TypeCorrect == Spec => []TypeOK
<1>1. LInv => TypeOK
  BY DEF LInv
<1> QED
  BY Inductive, <1>1, PTL

\* What launch or attach returns to be debugged executes its program.
THEOREM LaunchedIsExec == Spec => []LaunchIsExec
<1>1. LInv => LaunchIsExec
  BY DEF LInv, LaunchIsExec, Stopped
<1> QED
  BY Inductive, <1>1, PTL

\* A child that fails makes launch throw.
THEOREM FailuresAreTold == Spec => []FailureIsTold
<1>1. LInv => FailureIsTold
  BY DEF LInv, FailureIsTold, Pipe
<1> QED
  BY Inductive, <1>1, PTL

\* ~process leaves no zombie, and no program stopped or traced.
THEOREM LeavesNothing == Spec => []NothingIsLeft
<1>1. LInv => NothingIsLeft
  BY DEF LInv, NothingIsLeft, Left, TypeOK
<1> QED
  BY Inductive, <1>1, PTL

-----------------------------------------------------------------------------
(***************************************************************************)
(* That the debugger never waits for nothing.  Its only steps that can     *)
(* block are the read of the pipe and the waitpids; whenever it is at one, *)
(* what it waits for is there, or somebody else's next step brings it      *)
(* nearer.                                                                 *)
(***************************************************************************)
Answer == cstate = "zombie" \/ (cstate = "stopped" /\ unread)

\* The child has steps of launch before it, and nothing holds it up.
Launching == ChildRuns /\ step \in {"setpgid", "dup2", "traceme", "exec", "exit"}

\* A signal will stop the inferior for its debugger.
WillStop == cstate = "running" /\ step = "program" /\ traced /\ pending # {}

NeverStuck ==
    /\ phase = "read" => read_returns \/ Launching
    /\ phase = "reap_failed" => cstate = "zombie" \/ (ChildRuns /\ step = "exit")
    /\ phase \in {"first_wait", "stop_wait"} => Answer \/ WillStop
    /\ phase = "reap" => cstate \in {"zombie", "reaped"}

\* Before its program nothing stops the child, and it is traced by then, if it is to be.
Unhindered ==
    /\ step # "program" => pending = {} /\ cstate # "suspended"
    /\ how = "launch" /\ attached /\ step = "exec" => traced

\* Where the debugger waits for a stop, or will, the inferior is its own and no stop of it
\* has been taken by another wait.
Expects ==
    \/ phase \in {"read", "first_wait", "stop", "stop_wait"}
    \/ phase = "user" /\ attached /\ state_ = "running"

NotTaken ==
    /\ Expects => cstate # "reaped" /\ (cstate = "stopped" => unread)
    /\ Expects /\ phase # "read" /\ Alive => step = "program" /\ traced
    /\ phase \in {"stop", "stop_wait"} => attached /\ state_ = "running"
    /\ phase \in {"user", "stop", "stop_wait"} => result = "process"
    /\ phase = "options" => state_ # "running"

\* An inferior that runs has a signal before it that stops it.
Signalled ==
    /\ phase \in {"read", "first_wait"} /\ how = "launch" /\ attached /\ step = "program" /\ Alive =>
           cstate = "stopped" /\ traced
    /\ phase = "first_wait" /\ how = "attach" /\ cstate = "running" => "SIGSTOP" \in pending
    /\ phase = "stop_wait" /\ cstate = "running" => "SIGSTOP" \in pending

Ends ==
    /\ phase = "reap_failed" => message /\ cstate # "reaped"
    /\ phase = "reap" => cstate \in {"zombie", "reaped"}

SInv == LInv /\ Unhindered /\ NotTaken /\ Signalled /\ Ends

LEMMA InitEstablishesSInv == Init => SInv
<1>1. Init => LInv
  BY InitEstablishesLInv
<1> QED
  BY <1>1 DEF Init, SInv, Unhindered, NotTaken, Expects, Signalled, Ends, Alive

\* The debugger, until launch or attach has returned.
LEMMA BeginningKeepsSInv ==
    ASSUME SInv, LInv', (\E debug \in BOOLEAN : launch(debug)) \/ ReadPipe \/ LaunchFails \/ attach \/ FirstWait \/ set_ptrace_options
    PROVE  SInv'
<1> USE DEF LInv, TypeOK, Nothing, Pipe, Origin, Stopped, Alive, inferior, channel, SInv, Unhindered,
           NotTaken, Expects, Signalled, Ends
<1>1. CASE (\E debug \in BOOLEAN : launch(debug))
  BY <1>1 DEF launch, fork
<1>2. CASE ReadPipe
  <2>1. Unhindered' /\ Ends'
    BY <1>2 DEF ReadPipe, read_returns
  <2>2. NotTaken'
    BY <1>2 DEF ReadPipe, read_returns
  <2>3. Signalled'
    BY <1>2 DEF ReadPipe, read_returns
  <2> QED
    BY <2>1, <2>2, <2>3
<1>3. CASE LaunchFails
  BY <1>3 DEF LaunchFails, Reap
<1>4. CASE attach
  BY <1>4 DEF attach
<1>5. CASE FirstWait
  BY <1>5 DEF FirstWait, waitpid, Reap
<1>6. CASE set_ptrace_options
  BY <1>6 DEF set_ptrace_options
<1> QED
  BY <1>1, <1>2, <1>3, <1>4, <1>5, <1>6

\* The user: an inferior that is resumed has told all its stops.
LEMMA UserKeepsSInv ==
    ASSUME SInv, LInv', Resume \/ Wait \/ Destroy
    PROVE  SInv'
<1> USE DEF LInv, TypeOK, Nothing, Pipe, Origin, Stopped, Alive, inferior, channel, SInv, Unhindered,
           NotTaken, Expects, Signalled, Ends
<1>1. CASE Resume
  BY <1>1 DEF Resume
<1>2. CASE Wait
  BY <1>2 DEF Wait, waitpid, Reap
<1>3. CASE Destroy
  BY <1>3 DEF Destroy
<1> QED
  BY <1>1, <1>2, <1>3

\* ~process: SIGSTOP is sent to an inferior that runs, is stopped unread or has ended.
LEMMA DestructorKeepsSInv ==
    ASSUME SInv, LInv', SendStop \/ StopWait \/ Detach \/ SendContinue \/ Terminate \/ LastWait
    PROVE  SInv'
<1> USE DEF LInv, TypeOK, Nothing, Pipe, Origin, Stopped, Alive, inferior, channel, SInv, Unhindered,
           NotTaken, Expects, Signalled, Ends
<1>1. CASE SendStop
  BY <1>1 DEF SendStop
<1>2. CASE StopWait
  BY <1>2 DEF StopWait, Reap
<1>3. CASE Detach
  BY <1>3 DEF Detach
<1>4. CASE SendContinue
  BY <1>4 DEF SendContinue
<1>5. CASE Terminate
  BY <1>5 DEF Terminate
<1>6. CASE LastWait
  BY <1>6 DEF LastWait, Reap
<1> QED
  BY <1>1, <1>2, <1>3, <1>4, <1>5, <1>6

\* The child.
LEMMA ChildKeepsSInv ==
    ASSUME SInv, LInv', Prepare \/ TraceMe \/ Exec \/ exit_with_perror \/ ExitAfterError
    PROVE  SInv'
<1> USE DEF LInv, TypeOK, Nothing, Pipe, Origin, Stopped, Alive, inferior, channel, SInv, Unhindered,
           NotTaken, Expects, Signalled, Ends
<1>1. CASE Prepare
  BY <1>1 DEF Prepare, ChildRuns
<1>2. CASE TraceMe
  BY <1>2 DEF TraceMe, ChildRuns
<1>3. CASE Exec
  BY <1>3 DEF Exec, exec, ChildRuns
<1>4. CASE exit_with_perror
  BY <1>4 DEF exit_with_perror, write, ChildRuns
<1>5. CASE ExitAfterError
  BY <1>5 DEF ExitAfterError, End, ChildRuns
<1> QED
  BY <1>1, <1>2, <1>3, <1>4, <1>5

\* The program, the kernel and the others.
LEMMA WorldKeepsSInv ==
    ASSUME SInv, LInv', ProgramExits \/ Kill \/ Stray \/ Deliver
    PROVE  SInv'
<1> USE DEF LInv, TypeOK, Nothing, Pipe, Origin, Stopped, Alive, inferior, channel, SInv, Unhindered,
           NotTaken, Expects, Signalled, Ends
<1>1. CASE ProgramExits
  BY <1>1 DEF ProgramExits, End, ChildRuns
<1>2. CASE Kill
  BY <1>2 DEF Kill, End
<1>3. CASE Stray
  BY <1>3 DEF Stray
<1>4. CASE Deliver
  BY <1>4 DEF Deliver
<1> QED
  BY <1>1, <1>2, <1>3, <1>4

LEMMA SInvariance == Spec => []SInv
<1>1. LInv /\ [Next]_vars => LInv'
  BY LaunchPreserves, AttachPreserves, UserPreserves, DestructorPreserves, ChildPreserves,
     WorldPreserves, StutterPreserves DEF Next, Debugger
<1>2. SInv /\ [Next]_vars => SInv'
  <2> SUFFICES ASSUME SInv, [Next]_vars PROVE SInv'
    OBVIOUS
  <2>1. LInv'
    BY <1>1 DEF SInv
  <2>2. CASE UNCHANGED vars
    BY <2>1, <2>2 DEF vars, SInv, Unhindered, NotTaken, Expects, Signalled, Ends, Alive
  <2>3. CASE Next
    BY <2>1, <2>3, BeginningKeepsSInv, UserKeepsSInv, DestructorKeepsSInv, ChildKeepsSInv,
       WorldKeepsSInv DEF Next, Debugger, Child
  <2> QED
    BY <2>2, <2>3
<1> QED
  BY InitEstablishesSInv, <1>2, PTL DEF Spec

\* The debugger is never at a read of the pipe or at a waitpid with nothing to come: this is
\* all of LaunchReturns and DestroyReturns that does not depend on the scheduler.
THEOREM NeverWaitsForNothing == Spec => []NeverStuck
<1>1. SInv => NeverStuck
  <2> USE DEF SInv, LInv, TypeOK, Pipe, Origin, Stopped, Alive, Unhindered, NotTaken, Expects,
              Signalled, Ends, Answer, WillStop, ChildRuns
  <2> SUFFICES ASSUME SInv PROVE NeverStuck
    OBVIOUS
  <2>1. phase = "read" => read_returns \/ Launching
    BY DEF read_returns, Launching
  <2>2. phase = "reap_failed" => cstate = "zombie" \/ (ChildRuns /\ step = "exit")
    OBVIOUS
  <2>3. phase \in {"first_wait", "stop_wait"} => Answer \/ WillStop
    OBVIOUS
  <2>4. phase = "reap" => cstate \in {"zombie", "reaped"}
    OBVIOUS
  <2> QED
    BY <2>1, <2>2, <2>3, <2>4 DEF NeverStuck
<1> QED
  BY SInvariance, <1>1, PTL

\* How many steps of the child or of a signal what the debugger waits for is away.
Distance ==
    IF phase \in {"read", "reap_failed"} /\ Launching /\ ~(phase = "read" /\ read_returns)
    THEN [setpgid |-> 4, dup2 |-> 3, traceme |-> 2, exec |-> 1, exit |-> 1][step]
    ELSE IF phase \in {"first_wait", "stop_wait"} /\ WillStop THEN 1 ELSE 0

\* As long as the debugger waits nothing puts what it waits for off, whatever others do to
\* the inferior, and each step of the child in launch and each signal that is delivered
\* brings it nearer.
THEOREM WaitsComeToAnEnd ==
    Spec => [][phase' = phase =>
                  /\ Distance' <= Distance
                  /\ (Child \/ Deliver) /\ Distance > 0 => Distance' < Distance]_vars
<1>1. SInv /\ LInv' /\ [Next]_vars =>
          [phase' = phase =>
              /\ Distance' <= Distance
              /\ (Child \/ Deliver) /\ Distance > 0 => Distance' < Distance]_vars
  <2> SUFFICES ASSUME SInv, LInv', Next, phase' = phase
               PROVE  /\ Distance' <= Distance
                      /\ (Child \/ Deliver) /\ Distance > 0 => Distance' < Distance
    OBVIOUS
  <2> USE DEF SInv, LInv, TypeOK, Pipe, Origin, Stopped, Alive, Unhindered, NotTaken, Expects,
              Signalled, Ends, WillStop, ChildRuns, Launching, Distance, read_returns
  <2>1. CASE Child
    <3>1. CASE Prepare
      BY <3>1 DEF Prepare
    <3>2. CASE TraceMe
      BY <3>2 DEF TraceMe
    <3>3. CASE Exec
      BY <3>3 DEF Exec, exec
    <3>4. CASE exit_with_perror
      BY <3>4 DEF exit_with_perror, write
    <3>5. CASE ExitAfterError
      BY <3>5 DEF ExitAfterError, End
    <3> QED
      BY <2>1, <3>1, <3>2, <3>3, <3>4, <3>5 DEF Child
  <2>2. CASE Deliver
    BY <2>2 DEF Deliver
  <2>3. CASE ProgramExits \/ Kill
    BY <2>3 DEF ProgramExits, Kill, End
  <2>4. CASE Stray
    <3>1. Distance' <= Distance
      BY <2>4 DEF Stray
    <3>2. step' = step /\ cstate' = cstate /\ pending \subseteq pending'
      BY <2>4 DEF Stray
    <3>3. ~Child
      BY <3>2 DEF Child, Prepare, TraceMe, Exec, exit_with_perror, ExitAfterError, End
    <3>4. ~Deliver
      BY <3>2 DEF Deliver
    <3> QED
      BY <3>1, <3>3, <3>4
  <2>5. CASE Resume \/ Wait
    BY <2>5 DEF Resume, Wait, waitpid, Reap
  <2>6. CASE (\E debug \in BOOLEAN : launch(debug)) \/ attach \/ Destroy \/ Debugger
    BY <2>6 DEF launch, attach, Destroy, Debugger, ReadPipe, LaunchFails, FirstWait,
                set_ptrace_options, SendStop, StopWait, Detach, SendContinue, Terminate, LastWait
  <2> QED
    BY <2>1, <2>2, <2>3, <2>4, <2>5, <2>6 DEF Next
<1> QED
  BY <1>1, SInvariance, Inductive, PTL DEF Spec
=============================================================================
