-------------------------- MODULE WorkGroupTracking --------------------------
(***************************************************************************)
(* A dry run of the CPU debugger (main.cpp, DebuggerContext.cpp): LLDB     *)
(* runs the host program, whose pocl workers take work-groups; the program *)
(* stops as a whole, with any number of its threads at a breakpoint, and   *)
(* the loop of track_workgroup_dispatches() counts dispatches, reports     *)
(* hits of one source line and remembers which worker runs which group.    *)
(*                                                                         *)
(* A work-item passes the source line once.                                *)
(***************************************************************************)
EXTENDS NDRange

CONSTANTS
    Workers,  \* the threads of pocl
    main,     \* the thread of the host program that enqueues kernels
    NoGroup,  \* no work-group
    Setups    \* the runs of the debugger: see SetupAssumption

Threads == Workers \cup {main}

ASSUME ThreadAssumption == main \notin Workers /\ IsFiniteSet(Workers) /\ NoGroup \notin Size3

\* OpenCL refuses an empty range.
ASSUME SetupAssumption ==
    \A s \in Setups :
      /\ s.workers \subseteq Workers /\ s.workers # {}
      /\ s.global \in Size3 /\ s.local \in Size3 /\ s.work_dim \in 1 .. 3
      /\ \A d \in Dims : s.global[d] > 0
      /\ {s.named, s.track, s.break_at, s.inspect, s.faulty} \subseteq BOOLEAN
      /\ s.launches \in Nat \ {0} /\ s.break_for \in Nat

VARIABLES
    setup,           \* the command line and the host program
    pc,              \* the debugger: "infer", "continue", "wait", "handle" or "finished"
    launch_info,     \* launch_info
    wg_breakpoint,   \* wg_breakpoint is set
    line_breakpoint, \* line_breakpoint is set
    thread_to_wg,    \* the tracker's map; wg_for_thread() gives group 0 for NoGroup
    dispatch_count,  \* dispatch_count
    line_hit_count,  \* line_hit_count
    inspected,       \* inspected
    report,          \* the last report: the group shown and the thread's own
    at,              \* threads: the place, the group and its work-items to go
    reason,          \* threads: LLDB's stop reason
    todo,            \* groups no worker has taken
    launches,        \* kernels not yet enqueued
    process          \* "alive", "exited" or "crashed"

debuggerVars == <<launch_info, wg_breakpoint, line_breakpoint, thread_to_wg,
                  dispatch_count, line_hit_count, inspected, report>>
hostVars == <<at, todo, launches, process>>
vars == <<setup, pc, debuggerVars, hostVars, reason>>

NoLaunch == [global_size |-> Point(0, 0, 0)]
NoReport == [shown |-> NoGroup, actual |-> NoGroup]

\* The groups that really run: pocl chooses a local size that is not named.
RealLocal == setup.local
RealGroups == Groups(Read(setup.global, setup.work_dim), RealLocal)
RealCount(wg) == ItemCount(wg, Read(setup.global, setup.work_dim), RealLocal)

\* LLDB has stopped the program where it enqueues its first kernel.
Init ==
    /\ setup \in Setups /\ pc = "infer" /\ launch_info = NoLaunch
    /\ wg_breakpoint = FALSE /\ line_breakpoint = FALSE
    /\ thread_to_wg = [t \in Threads |-> NoGroup]
    /\ dispatch_count = 0 /\ line_hit_count = 0
    /\ inspected = FALSE /\ report = NoReport
    /\ at = [t \in Threads |-> [place |-> "idle", group |-> NoGroup, left |-> 0]]
    /\ reason = [t \in Threads |-> IF t = main THEN "breakpoint" ELSE "none"]
    /\ todo = {} /\ launches = setup.launches
    /\ process = "alive"

-----------------------------------------------------------------------------
(* The host program.                                                       *)

Running(t) == pc = "wait" /\ process = "alive" /\ reason[t] = "none"

\* A thread arrives at a breakpoint, or would if it were set.
Arrive(t, armed) ==
    reason' = IF armed THEN [reason EXCEPT ![t] = "breakpoint"] ELSE reason

TakeGroup(t) ==
    /\ t \in setup.workers /\ Running(t) /\ at[t].place = "idle"
    /\ \E g \in todo :
         /\ todo' = todo \ {g}
         /\ at' = [at EXCEPT ![t] = [place |-> "dispatch", group |-> g, left |-> RealCount(g)]]
    /\ Arrive(t, wg_breakpoint)
    /\ UNCHANGED <<setup, pc, debuggerVars, launches, process>>

ReachLine(t) ==
    /\ Running(t) /\ at[t].place \in {"dispatch", "kernel"} /\ at[t].left > 0
    /\ at' = [at EXCEPT ![t].place = "line"]
    /\ Arrive(t, line_breakpoint)
    /\ UNCHANGED <<setup, pc, debuggerVars, todo, launches, process>>

PassLine(t) ==
    /\ Running(t) /\ at[t].place = "line"
    /\ at' = [at EXCEPT ![t].place = "kernel", ![t].left = @ - 1]
    /\ UNCHANGED <<setup, pc, debuggerVars, reason, todo, launches, process>>

LeaveKernel(t) ==
    /\ Running(t) /\ at[t].place = "kernel" /\ at[t].left = 0
    /\ at' = [at EXCEPT ![t].place = "idle"]
    /\ UNCHANGED <<setup, pc, debuggerVars, reason, todo, launches, process>>

KernelDone == todo = {} /\ \A t \in Workers : at[t].place = "idle"

\* The main thread calls clEnqueueNDRangeKernel, where LLDB has a breakpoint.
EnqueueAgain ==
    /\ Running(main) /\ at[main].place = "waiting" /\ KernelDone /\ launches > 0
    /\ at' = [at EXCEPT ![main].place = "idle"]
    /\ Arrive(main, TRUE)
    /\ UNCHANGED <<setup, pc, debuggerVars, todo, launches, process>>

HostEnds ==
    /\ Running(main) /\ KernelDone /\ launches = 0
    /\ process' = "exited"
    /\ UNCHANGED <<setup, pc, debuggerVars, reason, at, todo, launches>>

\* A fault of the kernel: LLDB stops at a signal, or finds the process dead.
Fault(t) ==
    /\ setup.faulty /\ Running(t) /\ at[t].place = "kernel"
    /\ \/ reason' = [reason EXCEPT ![t] = "signal"] /\ UNCHANGED process
       \/ process' = "crashed" /\ UNCHANGED reason
    /\ UNCHANGED <<setup, pc, debuggerVars, at, todo, launches>>

-----------------------------------------------------------------------------
(* The registers a group id is read from.                                  *)

\* read_workgroup_id(): at a dispatch they hold the group.  Where the kernel is
\* enqueued they hold its work_dim and two pointers, one null and one too large.
read_workgroup_id(t) ==
    IF t = main THEN Point(setup.work_dim, 0, 0) ELSE at[t].group

wg_for_thread(t) == IF thread_to_wg[t] = NoGroup THEN Point(0, 0, 0) ELSE thread_to_wg[t]

-----------------------------------------------------------------------------
(* The debugger.                                                           *)

\* infer_kernel_launch(); then set_workgroup_breakpoint(), if it is wanted.
InferLaunch ==
    /\ pc = "infer"
    /\ launch_info' = LaunchInfo(setup.global, setup.local, setup.named, setup.work_dim)
    /\ wg_breakpoint' = (setup.track \/ setup.break_at)
    /\ pc' = IF wg_breakpoint' THEN "continue" ELSE "finished"
    /\ UNCHANGED <<setup, line_breakpoint, thread_to_wg, dispatch_count, line_hit_count>>
    /\ UNCHANGED <<inspected, report, hostVars, reason>>

\* Threads at a breakpoint step over it; the kernel that was enqueued is there.
Continue ==
    /\ pc = "continue" /\ pc' = "wait"
    /\ reason' = [t \in Threads |-> "none"]
    /\ IF reason[main] = "breakpoint"
         THEN /\ todo' = RealGroups /\ launches' = launches - 1
              /\ at' = [at EXCEPT ![main].place = "waiting"]
         ELSE UNCHANGED <<todo, launches, at>>
    /\ UNCHANGED <<setup, debuggerVars, process>>

\* The whole program stops; threads not yet at a breakpoint have no reason.
Stop ==
    /\ pc = "wait" /\ process = "alive" /\ \E t \in Threads : reason[t] # "none"
    /\ pc' = "handle"
    /\ UNCHANGED <<setup, debuggerVars, hostVars, reason>>

\* find_line_breakpoint_thread()
AtLine(t) == line_breakpoint /\ reason[t] = "breakpoint" /\ at[t].place = "line"

\* handle_line_breakpoint(): the stop is dealt with, whatever else stopped.
HandleLine(t) ==
    /\ pc = "handle" /\ AtLine(t) /\ pc' = "continue"
    /\ line_hit_count' = line_hit_count + 1
    /\ report' = [shown |-> wg_for_thread(t), actual |-> at[t].group]
    /\ line_breakpoint' = ~(setup.break_for > 0 /\ line_hit_count' >= setup.break_for)
    /\ UNCHANGED <<setup, launch_info, wg_breakpoint, thread_to_wg, dispatch_count, inspected>>
    /\ UNCHANGED <<hostVars, reason>>

NoLineHit == pc = "handle" /\ \A t \in Threads : ~AtLine(t)
AtBreakpoint == {t \in Threads : reason[t] = "breakpoint"}

\* Wrong variant: one dispatch is recorded of a stop.
RecordFirst ==
    /\ dispatch_count' = dispatch_count + 1
    /\ \E t \in AtBreakpoint : thread_to_wg' = [thread_to_wg EXCEPT ![t] = read_workgroup_id(t)]

\* Wrong variant: the map is built anew at every stop.
RecordAnew ==
    /\ dispatch_count' = dispatch_count + Cardinality(AtBreakpoint)
    /\ thread_to_wg' = [t \in AtBreakpoint |-> read_workgroup_id(t)]

\* record_stopped_workgroups()
RecordStopped ==
    /\ dispatch_count' = dispatch_count + Cardinality(AtBreakpoint)
    /\ thread_to_wg' = [t \in Threads |->
         IF t \in AtBreakpoint THEN read_workgroup_id(t) ELSE thread_to_wg[t]]

\* Wrong variant: the line is broken at again after break_for hits.
ArmLineAlways == line_breakpoint' = setup.break_at

\* Wrong variant: the bound is compared also when there is none.
ArmLineBounded ==
    line_breakpoint' = (line_breakpoint \/ (setup.break_at /\ line_hit_count < setup.break_for))

\* set_source_breakpoint(), of a line the kernel has.
ArmLine ==
    line_breakpoint' = \/ line_breakpoint
                       \/ /\ setup.break_at
                          /\ setup.break_for = 0 \/ line_hit_count < setup.break_for

\* handle_first_dispatch_inspection(): two steps take the first thread into the
\* kernel, before the line; the other threads stay where they are.
InspectFirst ==
    IF setup.inspect /\ ~inspected
    THEN \E t \in AtBreakpoint :
           /\ inspected' = TRUE
           /\ report' = [shown |-> thread_to_wg'[t], actual |-> at[t].group]
           /\ at' = IF at[t].place = "dispatch" THEN [at EXCEPT ![t].place = "kernel"] ELSE at
    ELSE UNCHANGED <<inspected, report, at>>

HandleDispatches ==
    /\ NoLineHit /\ AtBreakpoint # {} /\ pc' = "continue"
    /\ RecordStopped
    /\ ArmLine
    /\ InspectFirst
    /\ UNCHANGED <<setup, launch_info, wg_breakpoint, line_hit_count>>
    /\ UNCHANGED <<todo, launches, process, reason>>

\* The loop ends when the process does, or at a stop that is no breakpoint's.
Finish ==
    /\ \/ pc = "wait" /\ process # "alive"
       \/ NoLineHit /\ AtBreakpoint = {}
    /\ pc' = "finished" /\ wg_breakpoint' = FALSE /\ line_breakpoint' = FALSE
    /\ UNCHANGED <<setup, launch_info, thread_to_wg, dispatch_count, line_hit_count>>
    /\ UNCHANGED <<inspected, report, hostVars, reason>>

Host ==
    \/ \E t \in Workers : TakeGroup(t) \/ ReachLine(t) \/ PassLine(t) \/ LeaveKernel(t) \/ Fault(t)
    \/ EnqueueAgain \/ HostEnds

Debugger ==
    \/ InferLaunch \/ Continue \/ Stop \/ HandleDispatches \/ Finish
    \/ \E t \in Threads : HandleLine(t)

Next == Host \/ Debugger

Spec == Init /\ [][Next]_vars

-----------------------------------------------------------------------------
TypeOK ==
    /\ pc \in {"infer", "continue", "wait", "handle", "finished"}
    /\ {wg_breakpoint, line_breakpoint, inspected} \subseteq BOOLEAN
    /\ thread_to_wg \in [Threads -> Size3 \cup {NoGroup}]
    /\ dispatch_count \in Nat /\ line_hit_count \in Nat /\ launches \in Nat
    /\ \A t \in Threads : at[t].place \in {"idle", "waiting", "dispatch", "kernel", "line"}
    /\ reason \in [Threads -> {"none", "breakpoint", "signal"}]
    /\ todo \subseteq RealGroups
    /\ process \in {"alive", "exited", "crashed"}

OneWorker == Cardinality(setup.workers) = 1
RanToTheEnd == pc = "finished" /\ process = "exited"

(***************************************************************************)
(* The work-groups the debugger prints partition the global range: every   *)
(* work-item is inside exactly one, the one the work-item mapping gives it *)
(* (compute_work_groups, DebuggerContext.cpp:40-69, and line 98).          *)
(***************************************************************************)
Inside(id, wg, info) ==
    \A d \in Dims : /\ id[d] >= MinWI(wg, info.local_size)[d]
                    /\ id[d] <= MaxWI(wg, info.global_size, info.local_size)[d]
EveryItemInOneGroup ==
    pc = "finished" =>
      \A id \in Below(launch_info.global_size) :
        {wg \in launch_info.work_groups : Inside(id, wg, launch_info)}
          = {GroupOf(id, launch_info.local_size)}

(***************************************************************************)
(* The number of work-items printed for a group is that of the work-items  *)
(* inside it, also for the last, cut-off group of a dimension              *)
(* (DebuggerContext.cpp:54-59).                                            *)
(***************************************************************************)
ItemCountsRight ==
    pc = "finished" =>
      \A wg \in launch_info.work_groups :
        ItemCount(wg, launch_info.global_size, launch_info.local_size)
          = Cardinality({id \in Below(launch_info.global_size) : Inside(id, wg, launch_info)})

(***************************************************************************)
(* The sample work-items of the mapping exist, where a group is no larger  *)
(* than the range (compute_sample_work_items, DebuggerContext.cpp:71-103). *)
(***************************************************************************)
SamplesExist ==
    pc = "finished"
      /\ (\A d \in Dims : launch_info.local_size[d] <= launch_info.global_size[d])
    => launch_info.samples \subseteq Below(launch_info.global_size)

(***************************************************************************)
(* "Dispatches" is "Expected" at the end of a program that enqueues one    *)
(* kernel with a local size, however many workers reach the breakpoint in  *)
(* one stop, unless stops at a line come between (DebuggerContext.cpp:493).*)
(***************************************************************************)
EveryDispatchCounted ==
    RanToTheEnd /\ setup.named /\ setup.launches = 1 /\ (OneWorker \/ ~setup.break_at)
    => dispatch_count = Times(launch_info.num_groups)

(***************************************************************************)
(* The line stops the program break_for times and never again, although    *)
(* every later dispatch arms what is not armed (DebuggerContext.cpp:246,   *)
(* 503-504).                                                               *)
(***************************************************************************)
NoMoreThanBreakFor == setup.break_for > 0 => line_hit_count <= setup.break_for

(***************************************************************************)
(* With one worker no pass of the line is missed: the breakpoint is there  *)
(* from the first group on, over all kernels, until break_for is reached.  *)
(***************************************************************************)
AllPasses == Times(Read(setup.global, setup.work_dim)) * setup.launches
EveryPassReported ==
    RanToTheEnd /\ OneWorker /\ setup.break_at =>
      line_hit_count = IF setup.break_for > 0 THEN Lower(setup.break_for, AllPasses) ELSE AllPasses

(***************************************************************************)
(* A report shows the work-group the thread is in, if one worker runs or   *)
(* no line is broken at (resolve_stopped_work_item, DebuggerContext.cpp:958).*)
(***************************************************************************)
ReportedGroupIsRunning == [][report' # report => report'.shown = report'.actual]_vars
ReportsRight ==
    OneWorker \/ ~setup.break_at => report.shown = report.actual

=============================================================================
