------------------------------- MODULE Launch -------------------------------
(***************************************************************************)
(* The life of an inferior around the run/stop cycle of Process.tla: how   *)
(* process::launch creates it and learns, through a pipe that exec closes, *)
(* whether that succeeded; how process::attach takes hold of a program     *)
(* that runs already; and what ~process leaves behind.  The user's time in *)
(* between is reduced to resume and wait_on_signal.                        *)
(***************************************************************************)
EXTENDS FiniteSets

CONSTANT Strays   \* signals that others send to the inferior; each stops it when traced

ASSUME StraysAssumption == "SIGSTOP" \notin Strays

VARIABLES
    \* The inferior
    step,       \* its next step in launch, or "program" once it executes the program
    cstate,     \* "none", "running", "stopped" by ptrace, "suspended", "zombie", "reaped"
    traced,
    pending,    \* its signals
    unread,     \* its last ptrace stop has not been waited for
    \* The pipe
    writers,    \* who has its write end open
    message,    \* what is in it: an error message, or not
    \* The debugger
    how,        \* "launch" or "attach": launch sets terminate_on_end_
    attached,   \* is_attached_
    state_,
    phase,      \* where the debugger is
    result      \* what launch or attach gave its caller

inferior == <<step, cstate, traced, pending, unread>>
channel  == <<writers, message>>
vars     == <<step, cstate, traced, pending, unread, writers, message,
              how, attached, state_, phase, result>>

Alive == cstate \in {"running", "stopped", "suspended"}

(***************************************************************************)
(* launch and attach, in the debugger.                                     *)
(***************************************************************************)
\* The pipe survives the exec.
exec_INHERITED(ends) == ends

\* O_CLOEXEC.
exec(ends) == ends \ {"child"}

\* The parent keeps its own write end open while it reads.
fork_BOTH == {"parent", "child"}

\* pipe, fork, and close_write in the parent.
fork == {"child"}

launch(debug) ==
    /\ phase = "start"
    /\ how' = "launch" /\ attached' = debug
    /\ step' = "setpgid" /\ cstate' = "running"
    /\ writers' = fork
    /\ phase' = "read"
    /\ UNCHANGED <<traced, pending, unread, message, state_, result>>

\* pipe::read returns what is in the pipe or, with every write end closed, nothing.
read_returns == message \/ writers = {}

\* With nothing read there is a process, to be waited for if it is traced.
ReadPipe ==
    /\ phase = "read" /\ read_returns
    /\ IF message
       THEN phase' = "reap_failed" /\ UNCHANGED result
       ELSE IF attached THEN phase' = "first_wait" /\ UNCHANGED result
       ELSE phase' = "user" /\ result' = "process"
    /\ UNCHANGED <<inferior, channel, how, attached, state_>>

\* waitpid, in launch and in ~process: the end of the inferior.
Reap == cstate = "zombie" /\ cstate' = "reaped"

LaunchFails ==
    /\ phase = "reap_failed"
    /\ Reap
    /\ phase' = "done" /\ result' = "error"
    /\ UNCHANGED <<step, traced, pending, unread, channel, how, attached, state_>>

\* PTRACE_ATTACH, of a program that runs or, if that is refused, of nothing.
attach ==
    /\ phase = "start"
    /\ how' = "attach" /\ attached' = TRUE
    /\ step' = "program" /\ cstate' = "running" /\ traced' = TRUE
    /\ \E sigs \in SUBSET Strays : pending' = sigs \union {"SIGSTOP"}
    /\ phase' = "first_wait"
    /\ UNCHANGED <<unread, channel, state_, result>>

\* wait_on_signal: whatever comes, a stop or the end.
waitpid ==
    \/ cstate = "stopped" /\ unread /\ unread' = FALSE /\ state_' = "stopped" /\ UNCHANGED cstate
    \/ Reap /\ state_' = "ended" /\ UNCHANGED unread

FirstWait ==
    /\ phase = "first_wait"
    /\ waitpid
    /\ phase' = "options"
    /\ UNCHANGED <<step, traced, pending, channel, how, attached, result>>

\* set_ptrace_options does not look at what ptrace returns.
set_ptrace_options_UNCHECKED ==
    /\ phase = "options"
    /\ phase' = "user" /\ result' = "process"
    /\ UNCHANGED <<inferior, channel, how, attached, state_>>

\* set_ptrace_options, which throws if there is no stopped tracee: then ~process runs.
set_ptrace_options ==
    /\ phase = "options"
    /\ IF cstate = "stopped" THEN phase' = "user" /\ result' = "process"
       ELSE phase' = "detach" /\ result' = "error"
    /\ UNCHANGED <<inferior, channel, how, attached, state_>>

(***************************************************************************)
(* The user.                                                               *)
(***************************************************************************)
Resume ==
    /\ phase = "user" /\ attached /\ state_ = "stopped" /\ cstate = "stopped"
    /\ cstate' = "running" /\ state_' = "running"
    /\ UNCHANGED <<step, traced, pending, unread, channel, how, attached, phase, result>>

Wait ==
    /\ phase = "user" /\ attached /\ state_ = "running"
    /\ waitpid
    /\ UNCHANGED <<step, traced, pending, channel, how, attached, phase, result>>

(***************************************************************************)
(* ~process.  None of its calls looks at what it returns.                  *)
(***************************************************************************)
\* It stops an inferior that is stopped already.
Destroy_STOPPED ==
    /\ phase = "user"
    /\ phase' = IF attached THEN "stop" ELSE "terminate"
    /\ UNCHANGED <<inferior, channel, how, attached, state_, result>>

\* Only an inferior that runs has to be stopped first.
Destroy ==
    /\ phase = "user"
    /\ phase' = IF ~attached THEN "terminate" ELSE IF state_ = "running" THEN "stop" ELSE "detach"
    /\ UNCHANGED <<inferior, channel, how, attached, state_, result>>

\* kill(pid_, SIGSTOP)
SendStop ==
    /\ phase = "stop"
    /\ pending' = IF Alive THEN pending \union {"SIGSTOP"} ELSE pending
    /\ phase' = "stop_wait"
    /\ UNCHANGED <<step, cstate, traced, unread, channel, how, attached, state_, result>>

\* The waitpid after it: the first stop, of this signal or not, or the end.
StopWait ==
    /\ phase = "stop_wait"
    /\ \/ cstate = "stopped" /\ unread /\ unread' = FALSE /\ UNCHANGED cstate
       \/ Reap /\ UNCHANGED unread
    /\ phase' = "detach"
    /\ UNCHANGED <<step, traced, pending, channel, how, attached, state_, result>>

\* PTRACE_DETACH only acts on a tracee that is stopped.
Detach ==
    /\ phase = "detach"
    /\ IF cstate = "stopped" THEN cstate' = "running" /\ traced' = FALSE
       ELSE UNCHANGED <<cstate, traced>>
    /\ phase' = "continue"
    /\ UNCHANGED <<step, pending, unread, channel, how, attached, state_, result>>

\* ~process does not send a SIGCONT.
SendContinue_NOT ==
    /\ phase = "continue"
    /\ phase' = IF how = "launch" THEN "terminate" ELSE "done"
    /\ UNCHANGED <<inferior, channel, how, attached, state_, result>>

\* kill(pid_, SIGCONT): it takes back a SIGSTOP that is pending.
SendContinue ==
    /\ phase = "continue"
    /\ pending' = pending \ {"SIGSTOP"}
    /\ cstate' = IF cstate = "suspended" THEN "running" ELSE cstate
    /\ phase' = IF how = "launch" THEN "terminate" ELSE "done"
    /\ UNCHANGED <<step, traced, unread, channel, how, attached, state_, result>>

\* kill(pid_, SIGKILL), of what launch created.
Terminate ==
    /\ phase = "terminate"
    /\ cstate' = IF Alive THEN "zombie" ELSE cstate
    /\ writers' = IF Alive THEN {} ELSE writers
    /\ phase' = "reap"
    /\ UNCHANGED <<step, traced, pending, unread, message, how, attached, state_, result>>

\* The last waitpid, which fails if there is nothing left to wait for.
LastWait ==
    /\ phase = "reap"
    /\ Reap \/ (cstate = "reaped" /\ UNCHANGED cstate)
    /\ phase' = "done"
    /\ UNCHANGED <<step, traced, pending, unread, channel, how, attached, state_, result>>

Debugger ==
    \/ ReadPipe \/ LaunchFails \/ FirstWait \/ set_ptrace_options
    \/ SendStop \/ StopWait \/ Detach \/ SendContinue \/ Terminate \/ LastWait

(***************************************************************************)
(* The child, in launch.                                                   *)
(***************************************************************************)
ChildRuns == cstate = "running" /\ pending = {}

\* setpgid, personality, close_read and dup2.
Prepare ==
    /\ ChildRuns /\ step \in {"setpgid", "dup2"}
    /\ step' = CASE step = "setpgid"           -> "dup2"
                 [] step = "dup2" /\ attached  -> "traceme"
                 [] step = "dup2" /\ ~attached -> "exec"
    /\ UNCHANGED <<cstate, traced, pending, unread, channel, how, attached, state_, phase, result>>

\* PTRACE_TRACEME, if launch is to debug.
TraceMe ==
    /\ ChildRuns /\ step = "traceme"
    /\ step' = "exec" /\ traced' = TRUE
    /\ UNCHANGED <<cstate, pending, unread, channel, how, attached, state_, phase, result>>

\* execlp succeeds; a tracee stops.
Exec ==
    /\ ChildRuns /\ step = "exec"
    /\ step' = "program"
    /\ writers' = exec(writers)
    /\ cstate' = IF traced THEN "stopped" ELSE "running"
    /\ unread' = traced
    /\ UNCHANGED <<traced, pending, message, how, attached, state_, phase, result>>

\* exit_with_perror forgets to tell.
exit_with_perror_SILENT ==
    /\ ChildRuns /\ step \in {"setpgid", "dup2", "traceme", "exec"}
    /\ step' = "exit"
    /\ UNCHANGED <<message, cstate, traced, pending, unread, writers, how, attached, state_,
                   phase, result>>

\* pipe::write.
write == message' = TRUE

\* exit_with_perror: any step may fail.
exit_with_perror ==
    /\ ChildRuns /\ step \in {"setpgid", "dup2", "traceme", "exec"}
    /\ step' = "exit" /\ write
    /\ UNCHANGED <<cstate, traced, pending, unread, writers, how, attached, state_, phase, result>>

(***************************************************************************)
(* The kernel, and the program.                                            *)
(***************************************************************************)
End == cstate' = "zombie" /\ writers' = {}

ExitAfterError ==
    /\ ChildRuns /\ step = "exit" /\ End
    /\ UNCHANGED <<step, traced, pending, unread, message, how, attached, state_, phase, result>>

\* The program ends of itself.
ProgramExits ==
    /\ ChildRuns /\ step = "program" /\ End
    /\ UNCHANGED <<step, traced, pending, unread, message, how, attached, state_, phase, result>>

\* A SIGKILL from elsewhere.
Kill ==
    /\ Alive /\ End
    /\ UNCHANGED <<step, traced, pending, unread, message, how, attached, state_, phase, result>>

\* Another signal.  One that reached a traced child before its exec would stop it, and
\* launch would wait for the pipe for ever; the child is in a process group of its own by
\* then, which keeps the terminal's signals away, and no other is assumed.
Stray ==
    /\ Alive /\ step = "program" /\ traced
    /\ \E sig \in Strays : pending' = pending \union {sig}
    /\ UNCHANGED <<step, cstate, traced, unread, channel, how, attached, state_, phase, result>>

\* A traced program stops for its debugger; another one suspends itself.
Deliver ==
    /\ cstate = "running" /\ step = "program"
    /\ \E sig \in pending :
        /\ pending' = pending \ {sig}
        /\ cstate' = IF traced THEN "stopped" ELSE IF sig = "SIGSTOP" THEN "suspended" ELSE "running"
    /\ unread' = traced
    /\ UNCHANGED <<step, traced, channel, how, attached, state_, phase, result>>

Child == Prepare \/ TraceMe \/ Exec \/ exit_with_perror \/ ExitAfterError

(***************************************************************************)
(* The specification.                                                      *)
(***************************************************************************)
Init ==
    /\ step = "none" /\ cstate = "none" /\ traced = FALSE /\ pending = {} /\ unread = FALSE
    /\ writers = {} /\ message = FALSE
    /\ how = "launch" /\ attached = TRUE /\ state_ = "stopped"
    /\ phase = "start" /\ result = "none"

Next ==
    \/ (\E debug \in BOOLEAN : launch(debug)) \/ attach \/ Resume \/ Wait \/ Destroy
    \/ Debugger
    \/ Child \/ ProgramExits \/ Kill \/ Stray \/ Deliver

Spec == Init /\ [][Next]_vars

\* The scheduler runs the child and the debugger, and signals are delivered.
Fairness == WF_vars(Debugger) /\ WF_vars(Child) /\ WF_vars(Deliver)

FairSpec == Spec /\ Fairness

(***************************************************************************)
(* Properties.                                                             *)
(***************************************************************************)
\* What the variables may be; and a launched inferior that has the program has left the
\* pipe, so that the message in it can only be about a step of launch.
TypeOK ==
    /\ step \in {"none", "setpgid", "dup2", "traceme", "exec", "exit", "program"}
    /\ cstate \in {"none", "running", "stopped", "suspended", "zombie", "reaped"}
    /\ {traced, unread, message, attached} \subseteq BOOLEAN
    /\ pending \subseteq Strays \union {"SIGSTOP"}
    /\ writers \subseteq {"parent", "child"}
    /\ how \in {"launch", "attach"}
    /\ state_ \in {"stopped", "running", "ended"}
    /\ phase \in {"start", "read", "reap_failed", "first_wait", "options", "user",
                  "stop", "stop_wait", "detach", "continue", "terminate", "reap", "done"}
    /\ result \in {"none", "process", "error"}
    /\ step = "program" => "child" \notin writers /\ ~message

\* A process that launch or attach has given its caller to debug executes the program, not
\* what launch does before its exec, and is traced: no stop and no end of the child before
\* its exec is taken for the stop after it.
LaunchIsExec ==
    result = "process" /\ attached => step = "program" /\ (phase = "user" => traced)

\* A child that fails before its program runs makes launch throw, debugging or not.
FailureIsTold == step = "exit" => result # "process"

\* Whatever the user did and whatever happened meanwhile, ~process, also when launch or
\* attach itself throws, leaves no zombie of a program that it launched, and leaves a
\* program that it was attached to alone: not traced, not stopped, and with no SIGSTOP of
\* the debugger's on its way.
NothingIsLeft ==
    phase = "done" =>
        IF how = "launch" THEN cstate = "reaped"
        ELSE Alive => ~traced /\ cstate = "running" /\ "SIGSTOP" \notin pending

\* launch and attach return, or throw.
LaunchReturns == phase = "read" \/ phase = "first_wait" ~> phase \in {"user", "done"}

\* ~process ends: none of its waitpids is left without anything to wait for.
DestroyReturns == phase \in {"stop", "detach", "terminate"} ~> phase = "done"

=============================================================================
