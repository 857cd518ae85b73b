--------------------------- MODULE OclgrindPlugin ---------------------------
(***************************************************************************)
(* The host process: DebugPlugin (ocldbg/backends/oclgrind/plugin/) inside *)
(* the Oclgrind interpreter.  The interpreter has one worker thread, since *)
(* the plugin is not thread safe, and calls the plugin at kernel begin and *)
(* end and after every instruction; while the plugin is in serve() the     *)
(* interpreter is suspended in it.                                         *)
(*                                                                         *)
(* The interpreter and the host program are outside the repository.  They  *)
(* are modelled from what the plugin uses: any unfinished work-item may    *)
(* execute next, at any line and call depth.                               *)
(***************************************************************************)
EXTENDS OclgrindProtocol

CONSTANTS
    GroupOf,     \* the work-group of each work-item
    Depths,      \* call-stack depths a work-item can have
    MaxKernels,  \* bound on the kernels the host enqueues
    MaxInstrs    \* bound on the instructions a kernel executes

ASSUME BoundAssumption == MaxKernels \in Nat /\ MaxInstrs \in Nat
ASSUME DepthAssumption == Depths \subseteq Nat

VARIABLES
    invocation,        \* invocation_ # nullptr: a kernel is executing
    current,           \* the interpreter's current work-item
    at,                \* the line each work-item executed last
    depth,             \* the call depth of each work-item
    finished,          \* work-items that ran to the end of the kernel
    breakpoint_lines,  \* breakpoint_lines_
    breakpoint_ids,    \* breakpoint_ids_, NoLine for an id without entry
    mode,              \* mode_
    stepping_index,    \* stepping_index_
    stepping_depth,    \* stepping_depth_
    last_line,         \* last_line_, NoLine for a work-item without entry
    kernels, instrs    \* how much of the bounds is used

debugVars == <<breakpoint_lines, breakpoint_ids>>
runVars == <<mode, stepping_index, stepping_depth>>
interpVars == <<invocation, at, depth, finished, kernels, instrs>>
pluginVars == <<current, last_line, debugVars, runVars, interpVars>>

Modes == {"running"} \cup StepKinds

PluginTypeOK ==
    /\ invocation \in BOOLEAN
    /\ current \in WorkItems \cup {NoWI}
    /\ at \in [WorkItems -> MaybeLine]
    /\ depth \in [WorkItems -> Depths \cup {0}]
    /\ finished \in SUBSET WorkItems
    /\ breakpoint_lines \in SUBSET Lines
    /\ breakpoint_ids \in [Ids -> MaybeLine]
    /\ mode \in Modes
    /\ stepping_index \in WorkItems \cup {NoWI}
    /\ stepping_depth \in Depths \cup {0}
    /\ last_line \in [WorkItems -> MaybeLine]
    /\ kernels \in 0 .. MaxKernels /\ instrs \in 0 .. MaxInstrs

NoLastLines == [wi \in WorkItems |-> NoLine]

PluginInit ==
    /\ invocation = FALSE /\ current = NoWI
    /\ at = NoLastLines /\ depth = [wi \in WorkItems |-> 0] /\ finished = {}
    /\ breakpoint_lines = {} /\ breakpoint_ids = [id \in Ids |-> NoLine]
    /\ mode = "running" /\ stepping_index = NoWI /\ stepping_depth = 0
    /\ last_line = NoLastLines
    /\ kernels = 0 /\ instrs = 0

\* exec(): a new process, in which nothing of the plugin exists yet.
Exec ==
    /\ host' = "starting"
    /\ invocation' = FALSE /\ current' = NoWI
    /\ at' = NoLastLines /\ depth' = [wi \in WorkItems |-> 0] /\ finished' = {}
    /\ breakpoint_lines' = {} /\ breakpoint_ids' = [id \in Ids |-> NoLine]
    /\ mode' = "running" /\ stepping_index' = NoWI /\ stepping_depth' = 0
    /\ last_line' = NoLastLines
    /\ kernels' = 0 /\ instrs' = 0

-----------------------------------------------------------------------------
(* Startup: the plugin's constructor.                                      *)

\* connect_to_debugger(): a plugin that gets no connection stays inert.
Connect ==
    /\ host = "starting"
    /\ \/ listening /\ pfd' = "open" /\ host' = "connected"
       \/ host' = "between" /\ UNCHANGED pfd
    /\ UNCHANGED pluginVars
    /\ UNCHANGED <<toPlugin, toDebugger, dfd, listening>>

\* send(m) with its result ignored: nothing arrives when the peer is gone,
\* and the signal that raises ends the process unless it is ignored.
SendAndServe(m) ==
    \/ /\ DebuggerEnd
       /\ toDebugger' = Append(toDebugger, m) /\ host' = "serving"
       /\ UNCHANGED <<toPlugin, pfd>>
    \/ /\ ~DebuggerEnd /\ ~SigPipeFatal
       /\ host' = "serving" /\ UNCHANGED <<toDebugger, toPlugin, pfd>>
    \/ /\ ~DebuggerEnd /\ SigPipeFatal
       /\ host' = "sigpipe" /\ ClosePluginEnd /\ UNCHANGED toDebugger

SendReady ==
    /\ host = "connected"
    /\ SendAndServe(Ready)
    /\ UNCHANGED <<pluginVars, dfd, listening>>

-----------------------------------------------------------------------------
(* serve(): one command per step.                                          *)

\* serve() returns into the instruction, or the constructor, that called it.
Caller == IF invocation THEN "kernel" ELSE "between"

Receive(m) ==
    /\ host = "serving"
    /\ toPlugin # <<>> /\ m = Head(toPlugin)
    /\ UNCHANGED <<last_line, interpVars, dfd, listening>>

\* The plugin answers and stays in serve(); when the answer cannot be sent it
\* closes the channel and lets the interpreter go on.
Answer(reply) ==
    \/ /\ DebuggerEnd
       /\ toDebugger' = Append(toDebugger, reply) /\ toPlugin' = Tail(toPlugin)
       /\ UNCHANGED <<host, pfd>>
    \/ /\ ~DebuggerEnd
       /\ host' = IF SigPipeFatal THEN "sigpipe" ELSE Caller
       /\ ClosePluginEnd /\ UNCHANGED toDebugger

Leave == host' = Caller /\ toPlugin' = Tail(toPlugin) /\ UNCHANGED <<toDebugger, pfd>>

HandleContinue ==
    /\ Receive(Continue)
    /\ mode' = "running" /\ Leave
    /\ UNCHANGED <<current, debugVars, stepping_index, stepping_depth>>

HandleStep(how) ==
    /\ Receive(Step(how))
    /\ UNCHANGED <<current, debugVars>>
    /\ \/ /\ current = NoWI
          /\ Answer(Err) /\ UNCHANGED runVars
       \/ /\ current # NoWI
          /\ mode' = how /\ stepping_index' = current /\ stepping_depth' = depth[current]
          /\ Leave

HandleBreak(id, line) ==
    /\ Receive(Break(id, line))
    /\ breakpoint_lines' = breakpoint_lines \cup {line}
    /\ breakpoint_ids' = [breakpoint_ids EXCEPT ![id] = line]
    /\ Answer(Ok)
    /\ UNCHANGED <<current, runVars>>

\* Wrong variant: the line is disarmed although another id is on it.
HandleDeleteDisarms(id) ==
    /\ Receive(Delete(id))
    /\ breakpoint_ids' = [breakpoint_ids EXCEPT ![id] = NoLine]
    /\ breakpoint_lines' = breakpoint_lines \ {breakpoint_ids[id]}
    /\ Answer(Ok)
    /\ UNCHANGED <<current, runVars>>

\* Several ids may share one line; it stays armed until the last one goes.
HandleDelete(id) ==
    /\ Receive(Delete(id))
    /\ \/ /\ breakpoint_ids[id] = NoLine
          /\ Answer(Err) /\ UNCHANGED debugVars
       \/ /\ breakpoint_ids[id] # NoLine
          /\ breakpoint_ids' = [breakpoint_ids EXCEPT ![id] = NoLine]
          /\ breakpoint_lines' =
               IF \E other \in Ids \ {id} : breakpoint_ids[other] = breakpoint_ids[id]
               THEN breakpoint_lines ELSE breakpoint_lines \ {breakpoint_ids[id]}
          /\ Answer(Ok)
    /\ UNCHANGED <<current, runVars>>

\* Oclgrind drops a work-group when its last work-item finishes.
Reachable(wi) ==
    /\ invocation /\ wi \in WorkItems
    /\ \E peer \in WorkItems \ finished : GroupOf[peer] = GroupOf[wi]

\* Selecting switches the interpreter itself to the work-item.
HandleSelect(wi) ==
    /\ Receive(Select(wi))
    /\ \/ Reachable(wi) /\ current' = wi /\ Answer(Located)
       \/ ~Reachable(wi) /\ Answer(Err) /\ UNCHANGED current
    /\ UNCHANGED <<debugVars, runVars>>

\* The expression may not be in scope.
HandlePrint ==
    /\ Receive(PrintExpr)
    /\ \/ current # NoWI /\ Answer(Value(current))
       \/ Answer(Err)
    /\ UNCHANGED <<current, debugVars, runVars>>

HandleRead ==
    /\ Receive(ReadMemory)
    /\ \E reply \in {Data, Err} : Answer(reply)
    /\ UNCHANGED <<current, debugVars, runVars>>

\* Wrong variant: the end of the stream does not end serve().
ServeEofWaits ==
    /\ host = "serving" /\ PluginEof /\ pfd # "closed"
    /\ ClosePluginEnd
    /\ UNCHANGED <<host, pluginVars, toDebugger, dfd, listening>>

\* The debugger went away.
ServeEof ==
    /\ host = "serving" /\ PluginEof
    /\ ClosePluginEnd /\ host' = Caller
    /\ UNCHANGED pluginVars
    /\ UNCHANGED <<toDebugger, dfd, listening>>

Serve ==
    \/ HandleContinue \/ HandlePrint \/ HandleRead \/ ServeEof
    \/ \E how \in StepKinds : HandleStep(how)
    \/ \E id \in Ids : HandleDelete(id) \/ \E line \in Lines : HandleBreak(id, line)
    \/ \E wi \in GlobalIds : HandleSelect(wi)

-----------------------------------------------------------------------------
(* The interpreter's callbacks.                                            *)

KernelBegin ==
    /\ host = "between" /\ kernels < MaxKernels
    /\ host' = "kernel" /\ invocation' = TRUE /\ kernels' = kernels + 1 /\ instrs' = 0
    /\ last_line' = NoLastLines
    /\ at' = NoLastLines /\ depth' = [wi \in WorkItems |-> 0] /\ finished' = {}
    /\ UNCHANGED <<current, debugVars, runVars, wireVars>>

\* Wrong variant: one last halted line for all work-items.
ShouldHaltShared(wi, line, d) ==
    /\ \A other \in WorkItems : last_line[other] # line
    /\ \/ mode = "running" /\ line \in breakpoint_lines
       \/ mode = "in" /\ wi = stepping_index
       \/ mode = "over" /\ wi = stepping_index /\ d <= stepping_depth

\* Wrong variant: a step halts in whichever work-item comes next.
ShouldHaltAnyone(wi, line, d) ==
    /\ last_line[wi] # line
    /\ \/ mode = "running" /\ line \in breakpoint_lines
       \/ mode = "in"
       \/ mode = "over" /\ d <= stepping_depth

\* should_halt(), for a work-item now at line with call depth d.
ShouldHalt(wi, line, d) ==
    /\ last_line[wi] # line
    /\ \/ mode = "running" /\ line \in breakpoint_lines
       \/ mode = "in" /\ wi = stepping_index
       \/ mode = "over" /\ wi = stepping_index /\ d <= stepping_depth

\* Wrong variant: instructions without debug location are not passed over.
HaltsAnywhere(wi, line, d) == PluginEnd /\ ShouldHalt(wi, line, d)

\* instructionExecuted(); an instruction without debug location has line 0.
Halts(wi, line, d) == PluginEnd /\ line # NoLine /\ ShouldHalt(wi, line, d)

Execute(wi, line, d) ==
    /\ host = "kernel" /\ instrs < MaxInstrs /\ wi \notin finished
    /\ instrs' = instrs + 1
    /\ current' = wi /\ depth' = [depth EXCEPT ![wi] = d]
    /\ at' = [at EXCEPT ![wi] = IF line = NoLine THEN @ ELSE line]
    /\ \/ /\ Halts(wi, line, d)
          /\ last_line' = [last_line EXCEPT ![wi] = line]
          /\ SendAndServe(Stopped(wi, line))
       \/ /\ ~Halts(wi, line, d)
          /\ UNCHANGED <<host, last_line, toPlugin, toDebugger, pfd>>
    /\ UNCHANGED <<invocation, finished, kernels, debugVars, runVars, dfd, listening>>

Finish(wi) ==
    /\ host = "kernel" /\ wi \notin finished
    /\ finished' = finished \cup {wi}
    /\ UNCHANGED <<host, invocation, current, last_line, at, depth, kernels, instrs>>
    /\ UNCHANGED <<debugVars, runVars, wireVars>>

KernelEnd ==
    /\ host = "kernel" /\ finished = WorkItems
    /\ host' = "between" /\ invocation' = FALSE /\ current' = NoWI
    /\ last_line' = NoLastLines
    /\ UNCHANGED <<at, depth, finished, kernels, instrs, debugVars, runVars, wireVars>>

-----------------------------------------------------------------------------
(* The end of the plugin and of the process.                               *)

\* releasePlugins(), when the host releases its context and so is done with
\* kernels: deleting the plugin closes its channel.
ReleasePlugin ==
    /\ host = "between" /\ host' = "released"
    /\ toPlugin' = <<>> /\ pfd' = IF PluginEnd THEN "closed" ELSE pfd
    /\ UNCHANGED <<pluginVars, toDebugger, dfd, listening>>

\* The kernel closes the descriptors of a process that ends.
EndProcess(how) ==
    /\ host' = how
    /\ toPlugin' = <<>> /\ pfd' = IF PluginEnd THEN "closed" ELSE pfd
    /\ UNCHANGED pluginVars
    /\ UNCHANGED <<toDebugger, dfd, listening>>

HostExit == host \in {"starting", "between", "released"} /\ EndProcess("exited")
HostKilled == host \notin HostGone \cup {"none"} /\ EndProcess("killed")

=============================================================================
