---------------------------- MODULE OclgrindLink ----------------------------
(***************************************************************************)
(* ocldbg and the host program it debugs under Oclgrind: the backend of    *)
(* OclgrindBackend and the plugin of OclgrindPlugin, over their socket.    *)
(* A client of the backend makes calls whenever none is in progress, the   *)
(* host program runs, and either process may be killed.                    *)
(***************************************************************************)
EXTENDS OclgrindPlugin, OclgrindBackend

CONSTANT Killable  \* which processes may be killed: a subset of {"host", "debugger"}
ASSUME KillableAssumption == Killable \subseteq {"host", "debugger"}

vars == <<host, wireVars, pluginVars, backendVars>>

Init == WireInit /\ BackendInit /\ PluginInit

LaunchHost == Launch /\ Exec

HostRuns ==
    \/ Connect \/ SendReady
    \/ KernelBegin \/ KernelEnd \/ ReleasePlugin \/ HostExit
    \/ \E wi \in WorkItems :
         Finish(wi) \/ \E line \in MaybeLine, d \in Depths : Execute(wi, line, d)

Next ==
    \/ LaunchHost
    \/ (Client \/ Progress) /\ UNCHANGED pluginVars
    \/ (Serve \/ HostRuns) /\ UNCHANGED backendVars
    \/ "host" \in Killable /\ HostKilled /\ UNCHANGED backendVars
    \/ "debugger" \in Killable /\ DebuggerKilled /\ UNCHANGED pluginVars

Spec == Init /\ [][Next]_vars

(***************************************************************************)
(* Both processes are scheduled, and a host program is finite: it ends its *)
(* kernels and exits.  Nothing obliges the client to make another call, or *)
(* poll() to fail: a wait for the plugin's connection ends by connection   *)
(* or by the waitpid() beside it.                                          *)
(***************************************************************************)
Fairness ==
    /\ WF_vars(Progress /\ ~PollFails /\ UNCHANGED pluginVars)
    /\ WF_vars(Serve /\ UNCHANGED backendVars)
    /\ WF_vars(HostRuns /\ UNCHANGED backendVars)
    /\ WF_vars(HostExit /\ UNCHANGED backendVars)
    /\ \A wi \in WorkItems : WF_vars(Finish(wi) /\ UNCHANGED backendVars)

FairSpec == Spec /\ Fairness

-----------------------------------------------------------------------------
TypeOK == WireTypeOK /\ PluginTypeOK /\ BackendTypeOK

\* Both ends are up and the handshake is over.
Linked == PluginEnd /\ dfd = "open" /\ dpc # "handshake"

\* The debugger waits for nothing the plugin has to say, and believes that
\* the interpreter is halted.
AtHalt == Linked /\ halted /\ dpc \in {"idle", "register", "stepping"}

Armed(ids) == {ids[id] : id \in Ids} \ {NoLine}

\* Which answers the protocol has for a request: OclgrindProtocol.h:14-18, and
\* the refusal of a work-item that is gone.
AnswersTo(m) ==
    CASE m.verb \in {"break", "delete"} -> {Ok}
      [] m.verb = "select" -> {Located, Err}
      [] m.verb = "print" -> {Value(stopped), Err}
      [] m.verb = "read" -> {Data, Err}

(***************************************************************************)
(* Exchanges are synchronous (OclgrindProtocol.h:9): while the link is up  *)
(* at most one line is under way.  A debugger that awaits a reply finds    *)
(* its own request, or an answer that request can have; in particular a    *)
(* delete is never refused, and a value is that of the selected work-item. *)
(***************************************************************************)
RepliesMatch ==
    Linked =>
      /\ Len(toPlugin) + Len(toDebugger) <= 1
      /\ dpc = "request" =>
           \/ toPlugin = <<pending>>
           \/ \E m \in AnswersTo(pending) : toDebugger = <<m>>

(***************************************************************************)
(* After a resume the next line is a stopped event (OclgrindProtocol.h:22):*)
(* it is never the refusal of a step, on which resume_with() would return  *)
(* while the plugin still serves.                                          *)
(***************************************************************************)
AfterResume ==
    dpc = "resumed" /\ toDebugger # <<>> => Head(toDebugger).tag = "stopped"

(***************************************************************************)
(* Neither side has to reconcile a second id space (OclgrindProtocol.h:21):*)
(* whenever the client can look, both ends hold the same breakpoints, and  *)
(* the plugin halts on exactly their lines, shared lines included.         *)
(***************************************************************************)
BreakpointsAgree ==
    AtHalt /\ dpc # "register" =>
      breakpoint_ids = breakpoints /\ breakpoint_lines = Armed(breakpoints)

(***************************************************************************)
(* evaluate() and the steps act on the plugin's current work-item without  *)
(* naming it: it is the one the backend calls stopped.                     *)
(***************************************************************************)
SelectedIsCurrent == AtHalt /\ invocation => current = stopped

(***************************************************************************)
(* A stopped event is one the debugger asked for: at a line it has a       *)
(* breakpoint on after a continue, by the work-item it stepped after a     *)
(* step; the plugin is in the mode the debugger put it in.                 *)
(***************************************************************************)
StopsAreAskedFor ==
    \A wi \in WorkItems, ln \in Lines :
      dpc = "resumed" /\ toDebugger = <<Stopped(wi, ln)>> =>
        IF after \in StepKinds THEN wi = stopped ELSE ln \in Armed(breakpoints)

(***************************************************************************)
(* Seen from a client the two processes are one debugger that is free,     *)
(* halted or running: DebuggerContract.  In particular the interpreter     *)
(* does not move while the backend says halted, so what a client reads in  *)
(* several requests is one state of the kernel.                            *)
(***************************************************************************)
Target ==
    IF dpc \in {"dead", "waitpid"} THEN "free"
    ELSE IF halted THEN "halted"
    ELSE IF dpc = "resumed" THEN "running"
    ELSE "free"

Contract == INSTANCE DebuggerContract WITH
    target <- Target, armed <- Armed(breakpoints),
    who <- stopped, line <- stop_line,
    stepping <- (dpc = "resumed" /\ after \in StepKinds),
    machine <- interpVars

ImplementsContract == Contract!Spec

(***************************************************************************)
(* A breakpoint the debugger holds is not run past: after a continue, the  *)
(* first time a work-item of the kernel reaches its line it halts.         *)
(***************************************************************************)
FirstArrivalHalts ==
    [][\A wi \in WorkItems :
         /\ Linked /\ dpc = "resumed" /\ toPlugin = <<>> /\ after = "client"
         /\ instrs' > instrs /\ current' = wi /\ at'[wi] # at[wi]
         /\ last_line[wi] = NoLine /\ at'[wi] \in Armed(breakpoints)
         => host' = "serving"]_vars

(***************************************************************************)
(* Every call of the backend returns, whatever the host does: no wait of   *)
(* one process for the other is circular.                                  *)
(***************************************************************************)
CallsReturn == dpc \in Blocked ~> dpc \in {"idle", "dead"}

(***************************************************************************)
(* "The debugger went away; let the host program run to completion."       *)
(* (DebugPlugin.cpp:161)                                                   *)
(***************************************************************************)
HostOutlivesDebugger == dpc = "dead" ~> host \in {"none", "exited"}

=============================================================================
