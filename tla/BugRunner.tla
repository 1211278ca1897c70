------------------------------- MODULE BugRunner -------------------------------
(***************************************************************************)
(* The runner of the bug-class suite (runner.c): the parent forks a child  *)
(* per run, reads its stderr from a pipe until the pipe is closed, waits   *)
(* for it, classifies how it ended from the wait status, the shared state  *)
(* and what it printed, and counts equal outcomes of a bug.  The child     *)
(* (bugs.c) announces its stages in the shared state; what its faulty      *)
(* operation does is undefined, so it may end in any way at any stage (but *)
(* it does not forge the shared state or the exit status of the handler).  *)
(* The pipe, signals and wait are the kernel's.                            *)
(***************************************************************************)
EXTENDS Integers, Sequences, FiniteSetsExt, SequencesExt

CONSTANTS
  NBugs,        \* g_nbugs
  Runs,         \* runs of a bug
  MaxDistinct,  \* MAX_DISTINCT
  StderrMax,    \* STDERR_MAX, in chunks of output
  PipeCap,      \* chunks that the pipe holds
  Noise,        \* bound: chunks that a child prints besides a message
  WrongAt,      \* bound: stages at which a child does not go on as written
  Fault         \* the faults that occur: records of sig and code

STAGE_SETUP == 0
STAGE_ACCESS == 1
STAGE_AFTER == 2
STAGE_CLEANUP == 3
Stage == STAGE_SETUP .. STAGE_CLEANUP

Obs == {"no_effect", "corruption", "leak"}
Message == {"stack smashing", "buffer overflow detected", "libc"}

SEGV_MTEAERR == 8
SEGV_MTESERR == 9
SegvCap == 10 .. 14    \* SEGV_CAP_FIRST .. SEGV_CAP_LAST

ASSUME RunnerAssumption ==
  /\ {NBugs, Runs, MaxDistinct, StderrMax, PipeCap} \subseteq Nat \ {0}
  /\ Noise \in Nat
  /\ WrongAt \subseteq Stage
  /\ \A f \in Fault : f.sig \in {"SEGV", "BUS", "ILL", "TRAP", "FPE"} /\ f.code \in Nat

VARIABLES
  parent,   \* where the parent is
  bug, run, \* the loops of main and run_bug
  tally,    \* t[MAX_DISTINCT]: outcomes and how often they were seen
  shared,   \* *g_state: stage, and the fault that the handler caught
  err,      \* the buffer of run_once
  pipe,     \* what is in the pipe
  child,    \* where the child is
  at,       \* the stage that it is in, announced or not
  said,     \* chunks it has printed besides a message
  message,  \* what it prints before it aborts, or none
  status,   \* how it ended, for waitpid
  truth,    \* what really happened to the child, and at which stage (history)
  seen      \* the outcomes of this bug's runs so far (history)

own == <<at, said, message>>
kids == <<shared, pipe, child, own, status, truth>>
counts == <<bug, run, tally, seen>>
vars == <<parent, bug, run, tally, shared, err, pipe, child, at, said, message,
          status, truth, seen>>

NoFault == [sig |-> "none", code |-> 0]
Cleared == [stage |-> STAGE_SETUP, fault |-> NoFault]
NoStatus == [how |-> "none", what |-> "none"]
NoTruth == [event |-> "none", what |-> "none", fault |-> NoFault, stage |-> STAGE_SETUP]

Init ==
  /\ parent = "start"
  /\ bug = 1 /\ run = 0 /\ tally = << >>
  /\ shared = Cleared
  /\ err = << >> /\ pipe = << >>
  /\ child = "none" /\ at = STAGE_SETUP /\ said = 0 /\ message = "none"
  /\ status = NoStatus /\ truth = NoTruth
  /\ seen = << >>
-----------------------------------------------------------------------------
(***************************************************************************)
(* The child: child_setup, and then a bug function.                        *)
(***************************************************************************)
Happens(event, what, f) ==
  truth' = [event |-> event, what |-> what, fault |-> f, stage |-> at]

\* STAGE(n): the stages follow each other; not every bug has a cleanup.
NextStage ==
  /\ child = "runs"
  /\ at < STAGE_CLEANUP
  /\ at' = at + 1
  /\ shared' = [shared EXCEPT !.stage = at']
  /\ UNCHANGED <<parent, counts, err, pipe, child, said, message, status, truth>>

\* The bug returns what it observed.
Returns ==
  /\ child = "runs"
  /\ at \in {STAGE_AFTER, STAGE_CLEANUP}
  /\ \E obs \in Obs :
       /\ status' = [how |-> "exited", what |-> obs]
       /\ Happens("returned", obs, NoFault)
  /\ child' = "ended"
  /\ UNCHANGED <<parent, counts, shared, err, pipe, own>>

\* A chunk of output fits into the pipe, or the child waits.
Output(chunk) == Len(pipe) < PipeCap /\ pipe' = Append(pipe, chunk)

Prints ==
  /\ child = "runs"
  /\ said < Noise
  /\ Output("noise")
  /\ said' = said + 1
  /\ UNCHANGED <<parent, counts, shared, err, child, message, at, status, truth>>

Wrong == child = "runs" /\ at \in WrongAt

Faults ==
  /\ Wrong
  /\ \E f \in Fault : Happens("faulted", "none", f)
  /\ child' = "handler"
  /\ UNCHANGED <<parent, counts, shared, err, pipe, own, status>>

\* fault_handler: on a stack of its own.
HandlerExits ==
  /\ child = "handler"
  /\ shared' = [shared EXCEPT !.fault = truth.fault]
  /\ status' = [how |-> "exited", what |-> "trapped"]
  /\ child' = "ended"
  /\ UNCHANGED <<parent, counts, err, pipe, own, truth>>

\* A libc check, the stack protector or the bug itself calls abort().
Aborts ==
  /\ Wrong
  /\ \E m \in Message \union {"none"} :
       /\ message' = m
       /\ Happens("aborted", m, NoFault)
  /\ child' = "aborts"
  /\ UNCHANGED <<parent, counts, shared, err, pipe, said, at, status>>

Killed(signal) ==
  /\ status' = [how |-> "signaled", what |-> signal]
  /\ child' = "ended"

PrintsMessage ==
  /\ child = "aborts"
  /\ message # "none"
  /\ Output(message)
  /\ Killed("ABRT")
  /\ UNCHANGED <<parent, counts, shared, err, own, truth>>

AbortsSilently ==
  /\ child = "aborts"
  /\ message = "none"
  /\ Killed("ABRT")
  /\ UNCHANGED <<parent, counts, shared, err, pipe, own, truth>>

Loops ==
  /\ Wrong
  /\ Happens("looped", "none", NoFault)
  /\ child' = "loops"
  /\ UNCHANGED <<parent, counts, shared, err, pipe, own, status>>

\* It goes astray and exits, with a status that is nobody's.
Quits ==
  /\ Wrong
  /\ Happens("quit", "other", NoFault)
  /\ status' = [how |-> "exited", what |-> "other"]
  /\ child' = "ended"
  /\ UNCHANGED <<parent, counts, shared, err, pipe, own>>

\* A signal that has no handler, or that strikes within the handler.
IsKilled ==
  /\ Wrong
  /\ Happens("killed", "KILL", NoFault)
  /\ Killed("KILL")
  /\ UNCHANGED <<parent, counts, shared, err, pipe, own>>

\* alarm(CHILD_TIMEOUT_S): long enough for every child but one that loops or
\* waits for a pipe that nobody reads.
Stuck == child = "loops" \/ (child \in {"runs", "aborts"} /\ Len(pipe) = PipeCap
                             /\ parent = "wait")
Alarm ==
  /\ Stuck
  /\ Killed("ALRM")
  /\ UNCHANGED <<parent, counts, shared, err, pipe, own, truth>>

Child ==
  \/ NextStage \/ Returns \/ Prints \/ Faults \/ HandlerExits \/ Aborts
  \/ PrintsMessage \/ AbortsSilently \/ Loops \/ Quits \/ IsKilled \/ Alarm
-----------------------------------------------------------------------------
(***************************************************************************)
(* The parent.                                                             *)
(***************************************************************************)
Closed == child \in {"none", "ended"}    \* no write end of the pipe is left

\* Seeded fault: the shared state is not cleared.
BugKeepState == shared

ClearedState == Cleared

\* run_once: memset, pipe and fork.
Fork ==
  /\ parent = "start"
  /\ shared' = ClearedState
  /\ err' = << >> /\ pipe' = << >>
  /\ child' = "runs" /\ at' = STAGE_SETUP /\ said' = 0 /\ message' = "none"
  /\ status' = NoStatus /\ truth' = NoTruth
  /\ parent' = "read"
  /\ UNCHANGED counts

\* pipe or fork fails: perror and exit(1).
ForkFails ==
  /\ parent = "start"
  /\ parent' = "failed"
  /\ UNCHANGED <<counts, err, kids>>

Taken == LET room == StderrMax - Len(err)
         IN  IF Len(pipe) < room THEN Len(pipe) ELSE room

Read ==
  /\ parent = "read"
  /\ pipe # << >>
  /\ err' = err \o SubSeq(pipe, 1, Taken)
  /\ pipe' = SubSeq(pipe, Taken + 1, Len(pipe))
  /\ parent' = IF Len(err') = StderrMax THEN "drain" ELSE "read"
  /\ UNCHANGED <<counts, shared, child, own, status, truth>>

\* Seeded fault: what does not fit into the buffer stays in the pipe.
BugDrain ==
  /\ parent = "drain"
  /\ parent' = "wait"
  /\ UNCHANGED <<counts, err, kids>>

\* Seeded fault: the end of the pipe does not end the loop.
BugDrainForever ==
  /\ parent = "drain"
  /\ pipe' = << >>
  /\ UNCHANGED <<parent, counts, shared, err, child, own, status, truth>>

\* Keep draining so the child never blocks.
Drain ==
  /\ parent = "drain"
  /\ \/ /\ pipe # << >>
        /\ pipe' = << >>
        /\ UNCHANGED parent
     \/ /\ pipe = << >> /\ Closed
        /\ parent' = "wait"
        /\ UNCHANGED pipe
  /\ UNCHANGED <<counts, shared, err, child, own, status, truth>>

EndOfFile ==
  /\ parent = "read"
  /\ pipe = << >> /\ Closed
  /\ parent' = "wait"
  /\ UNCHANGED <<counts, err, kids>>

TimingOf(stage) ==
  CASE stage = STAGE_SETUP -> "setup" [] stage = STAGE_ACCESS -> "access"
    [] stage = STAGE_AFTER -> "after" [] stage = STAGE_CLEANUP -> "cleanup"

\* The detail is what the text of the row is made of.
Outcome(o, detail, timing) == [outcome |-> o, detail |-> detail, timing |-> timing]

\* classify, for a child whose handler ran: from sig and si_code.
Trapped(f, timing) ==
  CASE f.sig = "SEGV" /\ f.code = SEGV_MTESERR -> Outcome("hw_trap", <<"mte_sync">>, timing)
    [] f.sig = "SEGV" /\ f.code = SEGV_MTEAERR -> Outcome("hw_trap", <<"mte_async">>, timing)
    [] f.sig = "SEGV" /\ f.code \in SegvCap -> Outcome("hw_trap", <<"cheri", f.code>>, timing)
    [] f.sig \in {"ILL", "TRAP"} -> Outcome("runtime_abort", <<f.sig>>, timing)
    [] OTHER -> Outcome("crash", <<f.sig, f.code>>, timing)

Printed(m) == \E i \in DOMAIN err : err[i] = m

\* classify, for a child that a signal killed: from the signal and stderr.
Signaled(sig, timing) ==
  CASE sig = "ALRM" -> Outcome("hang", << >>, timing)
    [] sig = "ABRT" /\ Printed("stack smashing") ->
         Outcome("runtime_abort", <<"stack_protector">>, timing)
    [] sig = "ABRT" /\ ~Printed("stack smashing") /\ Printed("buffer overflow detected") ->
         Outcome("runtime_abort", <<"fortify_source">>, timing)
    [] sig = "ABRT" /\ {m \in Message : Printed(m)} = {"libc"} ->
         Outcome("runtime_abort", <<"libc">>, timing)
    [] sig = "ABRT" /\ {m \in Message : Printed(m)} = {} ->
         Outcome("runtime_abort", <<"abort">>, timing)
    [] OTHER -> Outcome("crash", <<sig>>, timing)

Classify ==
  LET timing == TimingOf(shared.stage)
  IN  IF status.how = "signaled" THEN Signaled(status.what, timing)
      ELSE IF status.what = "trapped" THEN Trapped(shared.fault, timing)
      ELSE Outcome(IF status.what \in Obs THEN "silent" ELSE "exit", <<status.what>>, "-")

Equal(o) == {k \in DOMAIN tally : tally[k].o = o}

\* Seeded fault: an outcome that finds no bucket is not counted.
BugDropTail(o) ==
  IF Len(tally) = MaxDistinct THEN tally ELSE Append(tally, [o |-> o, count |-> 1])

\* A new outcome gets a bucket, or is folded into the last one.
NewBucket(o) ==
  IF Len(tally) = MaxDistinct THEN [tally EXCEPT ![MaxDistinct].count = @ + 1]
                              ELSE Append(tally, [o |-> o, count |-> 1])

Counted(o) ==
  IF Equal(o) = {} THEN NewBucket(o)
                   ELSE [tally EXCEPT ![Min(Equal(o))].count = @ + 1]

\* waitpid, classify, and the count in run_bug.
Wait ==
  /\ parent = "wait"
  /\ child = "ended"
  /\ child' = "none"
  /\ tally' = Counted(Classify)
  /\ seen' = Append(seen, Classify)
  /\ run' = run + 1
  /\ parent' = IF run' = Runs THEN "print" ELSE "start"
  /\ UNCHANGED <<bug, err, shared, pipe, own, status, truth>>

\* The rows of the bug are written, and the next bug begins.
PrintRows ==
  /\ parent = "print"
  /\ run' = 0 /\ tally' = << >> /\ seen' = << >>
  /\ bug' = bug + 1
  /\ parent' = IF bug' > NBugs THEN "done" ELSE "start"
  /\ UNCHANGED <<err, kids>>

Parent == Fork \/ ForkFails \/ Read \/ Drain \/ EndOfFile \/ Wait \/ PrintRows

Exited == parent \in {"done", "failed"} /\ UNCHANGED vars

Next == Parent \/ Child \/ Exited

Spec == Init /\ [][Next]_vars

\* The parent keeps running, the kernel delivers the alarm, and a child that
\* is neither stuck nor ended takes its next step.
FairSpec == Spec /\ WF_vars(Parent) /\ WF_vars(Child)
-----------------------------------------------------------------------------
TypeOK ==
  /\ parent \in {"start", "read", "drain", "wait", "print", "done", "failed"}
  /\ bug \in 1 .. NBugs + 1 /\ run \in 0 .. Runs
  /\ Len(tally) <= MaxDistinct
  /\ \A k \in DOMAIN tally : tally[k].count \in 1 .. Runs
  /\ shared.stage \in Stage /\ shared.fault \in Fault \union {NoFault}
  /\ Len(err) <= StderrMax /\ Len(pipe) <= PipeCap
  /\ child \in {"none", "runs", "handler", "aborts", "loops", "ended"}
  /\ said \in 0 .. Noise
  /\ message \in Message \union {"none"}

\* The outcome is that of this child and of the moment at which it went wrong,
\* not of an earlier child's or of a parent that did not listen: a hang is a
\* child that looped, a hardware trap one whose access the hardware stopped.
HwFault == {f \in Fault : f.sig = "SEGV" /\ f.code \in {SEGV_MTEAERR, SEGV_MTESERR} \union SegvCap}
ReportsTheEnd ==
  child = "none" /\ seen # << >> =>
    /\ Last(seen).outcome = "hang" <=> truth.event = "looped"
    /\ Last(seen).outcome = "hw_trap" <=> truth.event = "faulted" /\ truth.fault \in HwFault
    /\ Last(seen).outcome = "silent" <=> truth.event = "returned"
    /\ truth.event = "aborted" => Last(seen).outcome = "runtime_abort"
    /\ truth.event = "killed" => Last(seen).outcome = "crash"
    /\ Last(seen).timing = IF truth.event \in {"returned", "quit"} THEN "-"
                                                          ELSE TimingOf(truth.stage)

\* What the parent names as the reason of an abort is what the child printed,
\* unless so much came before it that it was drained.
NamesTheCheck ==
  child = "none" /\ seen # << >> /\ truth.event = "aborted" =>
    LET heard == IF said >= StderrMax THEN "none" ELSE truth.what
    IN  Last(seen).detail = <<CASE heard = "none" -> "abort"
                                [] heard = "libc" -> "libc"
                                [] heard = "stack smashing" -> "stack_protector"
                                [] OTHER -> "fortify_source">>

\* The rows of a bug add up to its runs; each but the last bucket of a full
\* table counts its own outcome and no other.
Times(o) == Cardinality({r \in DOMAIN seen : seen[r] = o})
RowsAddUp ==
  /\ TypeOK
  /\ FoldLeft(LAMBDA n, b : n + b.count, 0, tally) = Len(seen)
  /\ \A j, k \in DOMAIN tally : tally[j].o = tally[k].o => j = k
  /\ \A k \in DOMAIN tally :
       k < MaxDistinct => tally[k].count = Times(tally[k].o)
  /\ Len(tally) < MaxDistinct => \A r \in DOMAIN seen : Equal(seen[r]) # {}

\* Whatever the children do, the parent gets through all bugs, or stops
\* because it cannot fork.
SuiteEnds == <>(parent \in {"done", "failed"})
=============================================================================
