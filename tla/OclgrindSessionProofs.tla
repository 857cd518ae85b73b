------------------------ MODULE OclgrindSessionProofs ------------------------
(***************************************************************************)
(* Theorems about the session, for every set of work-items and lines, any  *)
(* number of kernels, instructions and hits, and whether or not a write to *)
(* a closed socket ends a process.  A session is one of the clients of the *)
(* link, so the invariants of the link are there to build on.              *)
(***************************************************************************)
EXTENDS OclgrindSession, OclgrindLinkProofs, FiniteSetTheorems

-----------------------------------------------------------------------------
(* The invariant.                                                          *)

\* Which call of the backend is in progress, and what it asks for.
CallInv ==
    /\ spc \in {"begin", "launch"} =>
         /\ dpc = "idle" /\ ~halted /\ host = "none" /\ pfd = "none" /\ dfd = "none"
         /\ seen = {} /\ kernels = 0 /\ ~invocation /\ at = NoLastLines /\ last_line = NoLastLines
    /\ spc = "launching" =>
         dpc \in {"accept", "handshake", "register", "request", "waitpid", "idle", "dead"}
    /\ spc = "launching" /\ halted => dpc # "waitpid"
    /\ spc = "running" => dpc \in {"resumed", "idle", "dead"}
    /\ spc = "loop" => dpc \in {"idle", "request", "dead"}
    /\ spc = "detaching" => dpc \in {"waitpid", "idle"}
    /\ spc \in {"done", "failed"} => dpc = "idle"
    /\ dpc = "request" =>
         IF spc = "launching" THEN pending.verb = "break" /\ after = "launch"
                              ELSE pending.verb = "print"
    /\ dpc = "resumed" => after = "client"
    /\ spc = "loop" /\ ~halted => dpc = "idle" /\ printed = print_exprs

\* The breakpoint stays.
ArmedInv == spc # "begin" /\ break_at # NoLine => break_at \in Armed(breakpoints)

\* How many hits there are, and which are wanted.
HitsInv ==
    /\ spc \in {"begin", "launch", "launching"} => hits = 0
    /\ break_for # 0 => hits <= break_for /\ (spc = "running" => hits < break_for)

\* A host that runs no kernels any more.
OverHosts == {"none", "released"} \cup HostGone

\* A session that has no halted host, or is done before it saw enough, has none
\* that runs kernels.
Short == spc \in {"detaching", "done"} /\ (break_for = 0 \/ hits < break_for)
OverInv ==
    /\ dpc = "dead" => host \in OverHosts
    /\ spc = "running" /\ dpc = "idle" => host \in OverHosts
    /\ spc = "loop" /\ ~halted => host \in OverHosts
    /\ Short => host \in OverHosts
    /\ spc \in {"detaching", "done"} /\ dpc = "idle" => host = "none"
    /\ spc = "launching" /\ dpc = "idle" /\ ~halted => host = "none"
    /\ spc = "failed" => host = "none"

\* Where the kernels of the host are, as the session has seen them.
KernelInv ==
    /\ invocation => kernels > 0
    /\ host \in {"starting", "connected"} => kernels = 0
    /\ host = "serving" /\ ~invocation => kernels = 0
    /\ spc = "launching" /\ dpc \in {"accept", "handshake"} /\ pfd # "none" =>
         kernels = 0 /\ host # "released"
    /\ \A e \in seen : e[1] <= kernels
    /\ break_at # NoLine =>
         \A wi \in WorkItems : at[wi] = break_at \/ last_line[wi] = break_at => <<kernels, wi>> \in seen

\* Every work-item that came to the line has been reported, or is about to be.
Counting == spc \in {"running", "loop"} \/ (spc = "launching" /\ halted) \/ Short
Due == IF dpc = "resumed" /\ toDebugger # <<>> THEN 1 ELSE 0
CountInv == IsFiniteSet(seen) /\ (Counting => Cardinality(seen) <= hits + Due)

\* How a host ends that nothing killed.
EndInv ==
    /\ host = "killed" => killed
    /\ PluginEnd /\ dfd = "closed" => host \in {"connected", "serving"} /\ toPlugin = <<>>
    /\ host \notin {"kernel", "serving"} /\ ~killed =>
         ~invocation /\ (kernels > 0 => finished = WorkItems)

SessionInv ==
    /\ SessionTypeOK /\ CallInv /\ ArmedInv /\ HitsInv /\ OverInv
    /\ KernelInv /\ CountInv /\ EndInv

-----------------------------------------------------------------------------
(* The session as a client of the link.                                    *)

\* Its steps are steps of the link, or change none of the link's variables.
LEMMA SessionSteps == ASSUME [SessionNext]_allVars PROVE [Next]_vars
<1>1. CASE UNCHANGED allVars
  BY <1>1 DEF allVars
<1>2. CASE RegisterBreakpoint
  <2>1. break_at # NoLine => break_at \in Lines
    BY ConfigAssumption DEF MaybeLine
  <2> QED BY <1>2, <2>1 DEF RegisterBreakpoint, Next, Client
<1>3. CASE SessionLaunch
  BY <1>3 DEF SessionLaunch, Next
<1>4. CASE LaunchFailed \/ ResumeFailed \/ Completed
  BY <1>4 DEF LaunchFailed, ResumeFailed, Completed
<1>5. CASE FirstResume \/ ResumeAgain \/ EvaluateExpr \/ SessionDetach
  BY <1>5 DEF FirstResume, ResumeAgain, EvaluateExpr, SessionDetach, Next, Client
<1>6. CASE EventRead \/ CallProgress
  BY <1>6 DEF EventRead, CallProgress, Next, Progress
<1>7. CASE HostStep
  BY <1>7 DEF HostStep, Next
<1> QED BY <1>1, <1>2, <1>3, <1>4, <1>5, <1>6, <1>7 DEF SessionNext, SessionStep

(***************************************************************************)
(* run_oclgrind_session() makes no call a client of the backend might not  *)
(* make: what holds of the link with any client holds under the session.   *)
(***************************************************************************)
THEOREM SessionIsAClient == SessionSpec => Spec
<1>1. SessionInit => Init
  BY DEF SessionInit
<1>2. [SessionNext]_allVars => [Next]_vars
  BY SessionSteps
<1> QED BY <1>1, <1>2, PTL DEF SessionSpec, Spec

\* The invariants of the link under the session.
LEMMA LinkIsSafe == SessionSpec => []SafeInv
BY SessionIsAClient, KnownInvariant, PhaseInvariant, SelectionInvariant, BreakpointInvariant,
   ModeInvariant, HaltInvariant, PTL DEF SafeInv

-----------------------------------------------------------------------------
(* What the link's invariants say of the host.                             *)

\* A debugger whose end is open has a plugin, or a host that is over.
LEMMA LostHost ==
    ASSUME SafeInv, dfd = "open", ~PluginEnd PROVE host \in OverHosts
BY DEF SafeInv, Known, EndsInv, HaltInv, PluginEnd, OverHosts, TypeInv, TypeOK, WireTypeOK, HostGone

\* The host of a halted debugger serves it, or is over.
LEMMA HaltedHost ==
    ASSUME SafeInv, halted, dpc \in {"idle", "register", "request"}
    PROVE  /\ dfd = "open" /\ (dpc = "idle" => after = "client")
           /\ host = "serving" \/ host \in OverHosts
           /\ PluginEnd => host = "serving"
           /\ PluginEnd /\ dpc # "request" => toPlugin = <<>> /\ toDebugger = <<>>
<1>1. dfd = "open" /\ (dpc = "idle" => after = "client")
  BY DEF SafeInv, HaltInv, Known, PurposeInv
<1>2. PluginEnd => host = "serving" /\ (dpc # "request" => toPlugin = <<>> /\ toDebugger = <<>>)
  BY <1>1 DEF SafeInv, PhaseInv, Waiting, Asking
<1> QED BY <1>1, <1>2, LostHost

\* A plugin that was sent a command can answer.
LEMMA CanAnswer ==
    ASSUME SafeInv, EndInv, host = "serving", toPlugin # <<>> PROVE DebuggerEnd
BY DEF SafeInv, Known, EndsInv, EndInv, PluginEnd, DebuggerEnd, TypeInv, TypeOK, WireTypeOK


-----------------------------------------------------------------------------
(* The steps of the host.                                                  *)

\* An answer keeps the plugin serving a debugger that is there.
LEMMA AnswerServes ==
    ASSUME SafeInv, EndInv, host = "serving", toPlugin # <<>>, NEW m, Answer(m)
    PROVE  /\ host' = "serving" /\ toDebugger' # <<>> /\ dfd # "closed"
<1>1. DebuggerEnd
  BY CanAnswer
<1>2. toDebugger \in Seq(Events \cup Replies)
  BY DEF SafeInv, Known, TypeInv, TypeOK, WireTypeOK
<1>3. Append(toDebugger, m) # <<>>
  BY <1>2, AppendProperties
<1> QED BY <1>1, <1>3 DEF Answer, DebuggerEnd

\* serve() answers, or returns to where it was called.
LEMMA ServeEffect ==
    ASSUME SafeInv, EndInv, Serve
    PROVE  /\ host = "serving" /\ host' \in {"serving", Caller} /\ PluginEnd
           /\ UNCHANGED <<interpVars, last_line>>
           /\ toDebugger # <<>> => toDebugger' # <<>>
           /\ dfd = "closed" => pfd' = "closed"
<1>1. host = "serving" => PluginEnd
  BY DEF SafeInv, Known, EndsInv, PluginEnd
<1>2. CASE ServeEof
  BY <1>1, <1>2 DEF ServeEof, ClosePluginEnd, pluginVars
<1>3. ASSUME NEW m, Receive(m) PROVE host = "serving" /\ toPlugin # <<>>
  BY <1>3 DEF Receive
<1>4. ASSUME host = "serving", toPlugin # <<>> PROVE dfd # "closed"
  BY <1>4, CanAnswer DEF DebuggerEnd
<1>5. CASE HandleContinue
  BY <1>1, <1>3, <1>4, <1>5 DEF HandleContinue, Receive, Leave
<1>6. ASSUME NEW how \in StepKinds, HandleStep(how)
      PROVE  /\ host = "serving" /\ host' \in {"serving", Caller} /\ PluginEnd
             /\ UNCHANGED <<interpVars, last_line>>
             /\ toDebugger # <<>> => toDebugger' # <<>>
             /\ dfd # "closed"
  <2>1. host = "serving" /\ toPlugin # <<>> /\ UNCHANGED <<interpVars, last_line>>
    BY <1>6 DEF HandleStep, Receive
  <2>2. CASE Answer(Err)
    BY <1>1, <2>1, <2>2, AnswerServes
  <2>3. CASE Leave
    BY <1>1, <1>4, <2>1, <2>3 DEF Leave
  <2> QED BY <1>6, <2>2, <2>3 DEF HandleStep
<1>7. ASSUME NEW m, NEW reply, Receive(m), Answer(reply)
      PROVE  /\ host = "serving" /\ host' = "serving" /\ PluginEnd
             /\ UNCHANGED <<interpVars, last_line>>
             /\ toDebugger' # <<>> /\ dfd # "closed"
  BY <1>1, <1>3, <1>7, AnswerServes DEF Receive
<1>8. CASE HandlePrint \/ HandleRead
  BY <1>7, <1>8 DEF HandlePrint, HandleRead
<1>9. CASE \E id \in Ids : HandleDelete(id) \/ \E line \in Lines : HandleBreak(id, line)
  BY <1>7, <1>9 DEF HandleDelete, HandleBreak
<1>10. CASE \E wi \in GlobalIds : HandleSelect(wi)
  BY <1>7, <1>10 DEF HandleSelect
<1> QED BY <1>2, <1>5, <1>6, <1>8, <1>9, <1>10 DEF Serve

\* What the host leaves alone.
LEMMA HostLeaves ==
    ASSUME HostStep
    PROVE  /\ UNCHANGED <<dpc, halted, breakpoints, next_id, stopped, stop_line, pending, after, todo>>
           /\ UNCHANGED <<launches, spc, hits, printed>>
           /\ host # "none" /\ UNCHANGED dfd
<1>1. UNCHANGED backendVars /\ UNCHANGED <<spc, hits, printed>>
  BY DEF HostStep
<1>2. UNCHANGED <<dpc, halted, breakpoints, next_id, stopped, stop_line, pending, after, todo, launches>>
  BY <1>1 DEF backendVars, bpVars, stopVars, callVars
<1>3. host # "none" /\ dfd' = dfd
  BY DEF HostStep, Serve, HandleContinue, HandlePrint, HandleRead, ServeEof, HandleStep,
         HandleDelete, HandleBreak, HandleSelect, Receive, HostRuns, Connect, SendReady, KernelBegin,
         KernelEnd, ReleasePlugin, HostExit, Finish, Execute, HostKilled, EndProcess, wireVars
<1> QED BY <1>1, <1>2, <1>3

\* What the session remembers of a step in which no instruction is executed.
LEMMA SeenStays ==
    ASSUME HostStep, ~(instrs' > instrs) PROVE seen' = seen
BY DEF HostStep

\* ... and of an instruction: that its work-item came to the line.
LEMMA SeenGrows ==
    ASSUME HostStep, NEW wi \in WorkItems, current' = wi, instrs' > instrs
    PROVE  seen' = seen \cup
             (IF at'[wi] = break_at /\ break_at # NoLine THEN {<<kernels, wi>>} ELSE {})
BY DEF HostStep

\* A host that is over stays so, and its kernels with it.
LEMMA OverStays ==
    ASSUME SessionTypeOK, SafeInv, HostStep, host \in OverHosts
    PROVE  host' \in OverHosts /\ UNCHANGED <<interpVars, last_line, seen>>
<1>1. HostExit \/ HostKilled
  BY DEF OverHosts, HostGone, HostStep, Serve, HandleContinue, HandlePrint, HandleRead, ServeEof,
         HandleStep, HandleDelete, HandleBreak, HandleSelect, Receive, HostRuns, Connect, SendReady,
         KernelBegin, KernelEnd, ReleasePlugin, Finish, Execute
<1>2. UNCHANGED <<interpVars, last_line>> /\ host' \in {"exited", "killed"}
  BY <1>1 DEF HostExit, HostKilled, EndProcess, pluginVars
<1>3. instrs' = instrs /\ instrs \in Nat
  BY <1>2, BoundAssumption DEF interpVars, SafeInv, Known, TypeInv, TypeOK, PluginTypeOK
<1> QED BY <1>2, <1>3, SeenStays DEF OverHosts, HostGone

\* The host's steps are not calls of the session.
LEMMA HostCalls ==
    ASSUME SafeInv, SessionInv, HostStep
    PROVE  CallInv' /\ ArmedInv' /\ HitsInv' /\ OverInv'
<1>1. CallInv'
  <2>1. spc \notin {"begin", "launch"}
    BY HostLeaves DEF SessionInv, CallInv
  <2> QED BY <2>1, HostLeaves DEF SessionInv, CallInv
<1>2. ArmedInv' /\ HitsInv'
  BY HostLeaves DEF SessionInv, ArmedInv, HitsInv, Armed
<1>3. OverInv'
  <2>1. host \in OverHosts => host' \in OverHosts
    BY OverStays DEF SessionInv
  <2>2. Short' = Short
    BY HostLeaves DEF Short
  <2> QED BY <2>1, <2>2, HostLeaves DEF SessionInv, OverInv
<1> QED BY <1>1, <1>2, <1>3

\* An instruction is executed under the session only while it waits for a stop,
\* with the breakpoint armed, or when the session does not count any more.
LEMMA ExecutesUnderSession ==
    ASSUME SafeInv, SessionInv, host = "kernel", Counting
    PROVE  /\ dpc = "resumed" /\ PluginEnd /\ DebuggerEnd /\ toDebugger = <<>>
           /\ mode = "running" /\ (break_at # NoLine => break_at \in breakpoint_lines)
<1>1. host \notin OverHosts
  BY DEF OverHosts, HostGone
<1>2. ~(halted /\ dpc \in {"idle", "register", "request"})
  BY <1>1, HaltedHost
<1>3. dpc # "dead" /\ ~Short
  BY <1>1 DEF SessionInv, OverInv
<1>4. ~(spc = "launching" /\ halted)
  BY <1>2, <1>3 DEF SessionInv, CallInv, SafeInv, HaltInv
<1>5. spc # "loop"
  BY <1>1, <1>2, <1>3 DEF SessionInv, CallInv, OverInv
<1>6. spc = "running"
  BY <1>3, <1>4, <1>5 DEF Counting
<1>7. dpc = "resumed" /\ after = "client"
  BY <1>1, <1>3, <1>6 DEF SessionInv, CallInv, OverInv
<1>8. dfd = "open"
  BY <1>7 DEF SafeInv, Known, EndsInv, TypeInv, TypeOK, WireTypeOK
<1>9. PluginEnd
  BY <1>1, <1>8, LostHost
<1>10. toDebugger = <<>> /\ toPlugin = <<>>
  BY <1>7, <1>9 DEF SafeInv, PhaseInv, Resumed
<1>11. mode = "running"
  BY <1>7, <1>9, <1>10 DEF SafeInv, ModeInv, StepKinds
<1>12. breakpoint_lines = Armed(breakpoints)
  <2>1. \A id \in Ids : breakpoint_ids[id] = breakpoints[id]
    BY <1>7, <1>8, <1>9
    DEF SafeInv, BreakpointInv, IdsAgree, Linked, Unregistered, Unheard
  <2> QED BY <1>9, <2>1 DEF SafeInv, BreakpointInv, PluginArmed, PluginEnd, Armed
<1>13. break_at # NoLine => break_at \in breakpoint_lines
  BY <1>6, <1>12 DEF SessionInv, ArmedInv
<1> QED BY <1>7, <1>8, <1>9, <1>10, <1>11, <1>13 DEF DebuggerEnd

\* A plugin whose kernel runs and whose end is open has a debugger.
LEMMA KernelHasDebugger ==
    ASSUME SafeInv, SessionInv, host = "kernel", PluginEnd PROVE dfd = "open" /\ DebuggerEnd
BY DEF SafeInv, Known, EndsInv, PhaseInv, Greeting, SessionInv, EndInv, PluginEnd, DebuggerEnd,
       TypeInv, TypeOK, WireTypeOK

\* What an instruction does.
LEMMA ExecuteEffect ==
    ASSUME SafeInv, SessionInv, NEW wi \in WorkItems, NEW ln \in MaybeLine, NEW d \in Depths,
           Execute(wi, ln, d)
    PROVE  /\ host = "kernel" /\ instrs' = instrs + 1 /\ instrs \in Nat /\ current' = wi
           /\ UNCHANGED <<invocation, finished, kernels>>
           /\ kernels \in 1 .. MaxKernels
           /\ \A w \in WorkItems : w # wi => at'[w] = at[w] /\ last_line'[w] = last_line[w]
           /\ at'[wi] = IF ln = NoLine THEN at[wi] ELSE ln
           /\ \/ /\ Halts(wi, ln, d) /\ last_line'[wi] = ln /\ host' = "serving"
                 /\ toDebugger' # <<>> /\ pfd' = pfd
              \/ /\ ~Halts(wi, ln, d) /\ last_line'[wi] = last_line[wi] /\ host' = "kernel"
                 /\ toDebugger' = toDebugger /\ pfd' = pfd
<1>1. /\ host = "kernel" /\ instrs' = instrs + 1 /\ current' = wi
      /\ UNCHANGED <<invocation, finished, kernels>>
      /\ at' = [at EXCEPT ![wi] = IF ln = NoLine THEN @ ELSE ln]
      /\ \/ /\ Halts(wi, ln, d) /\ last_line' = [last_line EXCEPT ![wi] = ln]
            /\ SendAndServe(Stopped(wi, ln))
         \/ /\ ~Halts(wi, ln, d)
            /\ UNCHANGED <<host, last_line, toPlugin, toDebugger, pfd>>
  BY DEF Execute
<1>2. /\ at \in [WorkItems -> MaybeLine] /\ last_line \in [WorkItems -> MaybeLine]
      /\ kernels \in 0 .. MaxKernels /\ instrs \in Nat /\ toDebugger \in Seq(Events \cup Replies)
      /\ MaxKernels \in Nat
  BY BoundAssumption DEF SafeInv, Known, TypeInv, TypeOK, PluginTypeOK, WireTypeOK
<1>3. kernels > 0
  BY <1>1 DEF SafeInv, Known, EndsInv, SessionInv, KernelInv
<1>4. /\ \A w \in WorkItems : w # wi => at'[w] = at[w] /\ last_line'[w] = last_line[w]
      /\ at'[wi] = IF ln = NoLine THEN at[wi] ELSE ln
      /\ Halts(wi, ln, d) => last_line'[wi] = ln
  BY <1>1, <1>2
<1>5. ASSUME Halts(wi, ln, d), SendAndServe(Stopped(wi, ln))
      PROVE  host' = "serving" /\ toDebugger' # <<>> /\ pfd' = pfd
  <2>1. DebuggerEnd
    BY <1>1, <1>5, KernelHasDebugger DEF Halts
  <2>2. Append(toDebugger, Stopped(wi, ln)) # <<>>
    BY <1>2, AppendProperties
  <2> QED BY <1>5, <2>1, <2>2 DEF SendAndServe
<1>6. kernels \in 1 .. MaxKernels
  BY <1>2, <1>3
<1> QED BY <1>1, <1>2, <1>4, <1>5, <1>6

\* Instructions keep the invariant: who comes to the line for the first time in
\* a kernel is stopped there.
LEMMA ExecuteKeeps ==
    ASSUME SafeInv, SessionInv, HostStep,
           NEW wi \in WorkItems, NEW ln \in MaybeLine, NEW d \in Depths, Execute(wi, ln, d)
    PROVE  SessionTypeOK' /\ KernelInv' /\ CountInv' /\ EndInv'
<1> DEFINE arrives == at'[wi] = break_at /\ break_at # NoLine
           new == <<kernels, wi>>
<1>1. /\ host = "kernel" /\ kernels \in 1 .. MaxKernels /\ invocation /\ pfd' = pfd
      /\ UNCHANGED <<invocation, finished, kernels>>
      /\ host' \in {"kernel", "serving"}
  BY ExecuteEffect DEF SafeInv, Known, EndsInv
<1>2. seen' = seen \cup (IF arrives THEN {new} ELSE {})
  BY ExecuteEffect, SeenGrows
<1>3. /\ \A w \in WorkItems : w # wi => at'[w] = at[w] /\ last_line'[w] = last_line[w]
      /\ at'[wi] = IF ln = NoLine THEN at[wi] ELSE ln
      /\ last_line'[wi] = IF Halts(wi, ln, d) THEN ln ELSE last_line[wi]
      /\ Halts(wi, ln, d) => ln # NoLine /\ toDebugger' # <<>>
      /\ ~Halts(wi, ln, d) => toDebugger' = toDebugger
  BY ExecuteEffect DEF Halts
<1>4. UNCHANGED <<spc, dpc, dfd, halted, hits, printed>>
  BY HostLeaves
<1>5. SessionTypeOK'
  <2>1. new \in (1 .. MaxKernels) \X WorkItems
    BY <1>1
  <2> HIDE DEF new, arrives
  <2> QED BY <1>2, <1>4, <2>1 DEF SessionInv, SessionTypeOK
<1>6. \A w \in WorkItems : break_at # NoLine /\ (at'[w] = break_at \/ last_line'[w] = break_at)
        => <<kernels, w>> \in seen'
  BY <1>2, <1>3 DEF SessionInv, KernelInv
<1>7. \A e \in seen' : e[1] <= kernels
  BY <1>1, <1>2 DEF SessionInv, KernelInv
<1>8. KernelInv'
  <2>1. ~(spc = "launching" /\ dpc \in {"accept", "handshake"} /\ pfd # "none")
    BY <1>1 DEF SessionInv, KernelInv
  <2> QED BY <1>1, <1>4, <1>6, <1>7, <2>1 DEF KernelInv
<1>9. EndInv'
  <2>1. PluginEnd => dfd # "closed"
    BY <1>1, KernelHasDebugger
  <2> QED BY <1>1, <1>4, <2>1 DEF EndInv, PluginEnd
<1>10. IsFiniteSet(seen) /\ IsFiniteSet(seen') /\ Cardinality(seen) \in Nat
       /\ Cardinality(seen') = IF arrives /\ new \notin seen THEN Cardinality(seen) + 1
                                                             ELSE Cardinality(seen)
  <2>1. IsFiniteSet(seen) /\ Cardinality(seen) \in Nat
    BY FS_CardinalityType DEF SessionInv, CountInv
  <2>2. /\ IsFiniteSet(seen \cup {new})
        /\ Cardinality(seen \cup {new}) = IF new \in seen THEN Cardinality(seen) ELSE Cardinality(seen) + 1
    BY <2>1, FS_AddElement
  <2> HIDE DEF new, arrives
  <2>3. CASE arrives /\ new \notin seen
    BY <1>2, <2>1, <2>2, <2>3
  <2>4. CASE arrives /\ new \in seen
    <3>1. seen' = seen
      BY <1>2, <2>4
    <3> QED BY <2>1, <2>4, <3>1
  <2>5. CASE ~arrives
    <3>1. seen' = seen
      BY <1>2, <2>5
    <3> QED BY <2>1, <2>5, <3>1
  <2> QED BY <2>3, <2>4, <2>5
<1>11. ASSUME Counting PROVE Cardinality(seen') <= hits + Due'
  <2>1. /\ dpc = "resumed" /\ PluginEnd /\ toDebugger = <<>> /\ mode = "running"
        /\ break_at # NoLine => break_at \in breakpoint_lines
    BY <1>1, <1>11, ExecutesUnderSession
  <2>2. Cardinality(seen) <= hits /\ hits \in Nat
    BY <1>11, <2>1 DEF SessionInv, CountInv, Due, SessionTypeOK
  <2>3. CASE arrives /\ new \notin seen
    <3>1. ln = break_at /\ last_line[wi] # break_at
      BY <1>3, <2>3 DEF SessionInv, KernelInv
    <3>2. Halts(wi, ln, d)
      BY <2>1, <2>3, <3>1 DEF Halts, ShouldHalt
    <3>3. Due' = 1
      BY <1>3, <1>4, <2>1, <3>2 DEF Due
    <3> QED BY <1>10, <2>2, <2>3, <3>3
  <2>4. CASE ~(arrives /\ new \notin seen)
    <3>1. Due' \in {0, 1}
      BY DEF Due
    <3> QED BY <1>10, <2>2, <2>4, <3>1
  <2> QED BY <2>3, <2>4
<1>12. CountInv'
  <2>1. Counting' = Counting
    BY <1>4 DEF Counting, Short
  <2> QED BY <1>4, <1>10, <1>11, <2>1 DEF CountInv
<1> QED BY <1>5, <1>8, <1>9, <1>12

\* The steps of the host other than instructions remember nothing, and what is
\* under way to the debugger stays under way.
LEMMA QuietCounts ==
    ASSUME SessionInv, HostStep, seen' = seen, toDebugger # <<>> => toDebugger' # <<>>
    PROVE  SessionTypeOK' /\ CountInv'
<1>1. SessionTypeOK'
  BY HostLeaves DEF SessionInv, SessionTypeOK
<1>2. Counting' = Counting
  BY HostLeaves DEF Counting, Short
<1>3. Due' \in {Due, 1} /\ Due \in {0, 1}
  BY HostLeaves DEF Due
<1>4. hits' = hits /\ hits \in Nat /\ (IsFiniteSet(seen) => Cardinality(seen) \in Nat)
  BY HostLeaves, FS_CardinalityType DEF SessionInv, SessionTypeOK
<1>5. CountInv'
  BY <1>2, <1>3, <1>4 DEF SessionInv, CountInv
<1> QED BY <1>1, <1>5

\* Serving a command keeps the invariant.
LEMMA ServeKeeps ==
    ASSUME SafeInv, SessionInv, HostStep, Serve
    PROVE  SessionTypeOK' /\ KernelInv' /\ CountInv' /\ EndInv'
<1>1. /\ host = "serving" /\ host' \in {"serving", Caller} /\ PluginEnd
      /\ UNCHANGED <<interpVars, last_line>>
      /\ toDebugger # <<>> => toDebugger' # <<>>
      /\ dfd = "closed" => pfd' = "closed"
  BY ServeEffect DEF SessionInv
<1>2. UNCHANGED <<invocation, at, finished, kernels, instrs, last_line>>
  BY <1>1 DEF interpVars
<1>3. seen' = seen
  <2>1. instrs \in Nat
    BY BoundAssumption DEF SafeInv, Known, TypeInv, TypeOK, PluginTypeOK
  <2> QED BY <1>2, <2>1, SeenStays
<1>4. KernelInv'
  BY <1>1, <1>2, <1>3, HostLeaves DEF SessionInv, KernelInv, Caller, PluginEnd
<1>5. EndInv'
  <2>1. kernels \in Nat
    BY DEF SafeInv, Known, TypeInv, TypeOK, PluginTypeOK
  <2>2. host' = "between" => ~invocation /\ kernels = 0
    BY <1>1 DEF SessionInv, KernelInv, Caller
  <2> QED BY <1>1, <1>2, <2>1, <2>2, HostLeaves DEF EndInv, Caller, PluginEnd
<1> QED BY <1>1, <1>3, <1>4, <1>5, QuietCounts

\* So do the steps of the host between its kernels, at their beginning and end,
\* and at its own.
LEMMA OtherHostKeeps ==
    ASSUME SafeInv, SessionInv, HostStep,
           \/ Connect \/ SendReady \/ KernelBegin \/ KernelEnd \/ ReleasePlugin \/ HostExit
           \/ HostKilled /\ killed' = TRUE
           \/ \E wi \in WorkItems : Finish(wi)
    PROVE  SessionTypeOK' /\ KernelInv' /\ CountInv' /\ EndInv'
<1>1. /\ kernels \in 0 .. MaxKernels /\ instrs \in Nat /\ toDebugger \in Seq(Events \cup Replies)
      /\ finished \subseteq WorkItems /\ pfd \in {"none", "open", "closed"}
      /\ dfd \in {"none", "open", "closed"}
  BY BoundAssumption DEF SafeInv, Known, TypeInv, TypeOK, PluginTypeOK, WireTypeOK
<1>2. killed => killed'
  BY DEF HostStep
<1>3. CASE Connect
  <2>1. /\ UNCHANGED <<last_line, invocation, at, finished, kernels, instrs, toDebugger, toPlugin>>
        /\ host = "starting" /\ host' \in {"connected", "between"}
        /\ PluginEnd' /\ ~PluginEnd => host' = "connected" /\ listening
    BY <1>3 DEF Connect, pluginVars, interpVars, PluginEnd
  <2>2. seen' = seen
    BY <1>1, <2>1, SeenStays
  <2>3. kernels = 0 /\ ~PluginEnd /\ toPlugin = <<>>
    BY <2>1 DEF SessionInv, KernelInv, SafeInv, Known, EndsInv, PluginEnd
  <2>4. KernelInv'
    BY <2>1, <2>2, <2>3, HostLeaves DEF SessionInv, KernelInv
  <2>5. EndInv'
    BY <1>2, <2>1, <2>3, HostLeaves DEF SessionInv, EndInv
  <2> QED BY <2>1, <2>2, <2>4, <2>5, QuietCounts
<1>4. CASE SendReady
  <2>1. /\ UNCHANGED <<last_line, invocation, at, finished, kernels, instrs>>
        /\ host = "connected" /\ host' \in {"serving", "sigpipe"}
        /\ toPlugin' \in {toPlugin, <<>>}
    BY <1>4 DEF SendReady, SendAndServe, ClosePluginEnd, pluginVars, interpVars
  <2>2. seen' = seen
    BY <1>1, <2>1, SeenStays
  <2>3. kernels = 0 /\ PluginEnd
    BY <2>1 DEF SessionInv, KernelInv, SafeInv, Known, EndsInv, PluginEnd
  <2>4. KernelInv'
    BY <2>1, <2>2, <2>3, HostLeaves DEF SessionInv, KernelInv, PluginEnd
  <2>5. EndInv'
    <3>1. host' = "sigpipe" => pfd' = "closed"
      BY <1>4, <2>1 DEF SendReady, SendAndServe, ClosePluginEnd
    <3> QED BY <1>2, <2>1, <2>3, <3>1, HostLeaves DEF SessionInv, EndInv, PluginEnd
  <2>6. toDebugger # <<>> => toDebugger' # <<>>
    BY <1>1, <1>4, AppendProperties DEF SendReady, SendAndServe
  <2> QED BY <2>2, <2>4, <2>5, <2>6, QuietCounts
<1>5. CASE KernelBegin
  <2>1. /\ host = "between" /\ host' = "kernel" /\ invocation' /\ kernels' = kernels + 1
        /\ instrs' = 0 /\ last_line' = NoLastLines /\ at' = NoLastLines
        /\ UNCHANGED <<toDebugger, toPlugin, pfd>>
    BY <1>5 DEF KernelBegin, wireVars
  <2>2. seen' = seen
    BY <1>1, <2>1, SeenStays
  <2>3. pfd = "none" \/ ~(spc = "launching" /\ dpc \in {"accept", "handshake"})
    BY <2>1 DEF SafeInv, PhaseInv, Greeting, HaltInv, Known, EndsInv, PluginEnd, TypeInv, TypeOK,
                WireTypeOK
  <2>4. KernelInv'
    <3>1. kernels' > 0
      BY <1>1, <2>1
    <3>2. \A e \in seen' : e[1] <= kernels'
      <4> SUFFICES ASSUME NEW e \in seen PROVE e[1] <= kernels + 1
        BY <2>1, <2>2
      <4>1. e[1] \in Nat /\ e[1] <= kernels
        BY <1>1 DEF SessionInv, SessionTypeOK, KernelInv
      <4> QED BY <1>1, <4>1
    <3>3. \A wi \in WorkItems : at'[wi] = NoLine /\ last_line'[wi] = NoLine
      BY <2>1 DEF NoLastLines
    <3> QED BY <2>1, <2>2, <2>3, <3>1, <3>2, <3>3, HostLeaves DEF KernelInv
  <2>5. EndInv'
    <3>1. ~(PluginEnd /\ dfd = "closed")
      BY <2>1 DEF SessionInv, EndInv
    <3> QED BY <2>1, <3>1, HostLeaves DEF EndInv, PluginEnd
  <2> QED BY <2>1, <2>2, <2>4, <2>5, QuietCounts
<1>6. CASE KernelEnd
  <2>1. /\ host = "kernel" /\ finished = WorkItems /\ host' = "between" /\ ~invocation'
        /\ last_line' = NoLastLines
        /\ UNCHANGED <<at, finished, kernels, instrs, toDebugger, toPlugin, pfd>>
    BY <1>6 DEF KernelEnd, wireVars
  <2>2. seen' = seen
    BY <1>1, <2>1, SeenStays
  <2>3. kernels > 0
    BY <2>1 DEF SafeInv, Known, EndsInv, SessionInv, KernelInv
  <2>4. KernelInv'
    <3>1. \A wi \in WorkItems : last_line'[wi] = NoLine
      BY <2>1 DEF NoLastLines
    <3> QED BY <2>1, <2>2, <3>1, HostLeaves DEF SessionInv, KernelInv
  <2>5. EndInv'
    <3>1. ~(PluginEnd /\ dfd = "closed")
      BY <2>1 DEF SessionInv, EndInv
    <3> QED BY <2>1, <3>1, HostLeaves DEF EndInv, PluginEnd
  <2> QED BY <2>1, <2>2, <2>4, <2>5, QuietCounts
<1>7. CASE ReleasePlugin \/ HostExit
  <2>1. /\ UNCHANGED <<last_line, invocation, at, finished, kernels, instrs, toDebugger>>
        /\ host \in {"starting", "between", "released"} /\ host' \in {"released", "exited"}
        /\ ~PluginEnd'
        /\ host' = "released" => host = "between"
        /\ pfd' # "none" => pfd # "none"
    BY <1>7 DEF ReleasePlugin, HostExit, EndProcess, pluginVars, interpVars, PluginEnd
  <2>2. seen' = seen
    BY <1>1, <2>1, SeenStays
  <2>3. pfd = "none" \/ host' # "released" \/ ~(spc = "launching" /\ dpc \in {"accept", "handshake"})
    BY <2>1 DEF SafeInv, PhaseInv, Greeting, HaltInv, Known, EndsInv, PluginEnd, TypeInv, TypeOK,
                WireTypeOK
  <2>4. KernelInv'
    BY <2>1, <2>2, <2>3, HostLeaves DEF SessionInv, KernelInv
  <2>5. EndInv'
    BY <1>2, <2>1, HostLeaves DEF SessionInv, EndInv
  <2> QED BY <2>1, <2>2, <2>4, <2>5, QuietCounts
<1>8. CASE HostKilled /\ killed' = TRUE
  <2>1. /\ UNCHANGED <<last_line, invocation, at, finished, kernels, instrs, toDebugger>>
        /\ host' = "killed" /\ killed' /\ ~PluginEnd' /\ (pfd' # "none" => pfd # "none")
    BY <1>8 DEF HostKilled, EndProcess, pluginVars, interpVars, PluginEnd
  <2>2. seen' = seen
    BY <1>1, <2>1, SeenStays
  <2>3. KernelInv'
    BY <2>1, <2>2, HostLeaves DEF SessionInv, KernelInv
  <2>4. EndInv'
    BY <2>1 DEF EndInv
  <2> QED BY <2>1, <2>2, <2>3, <2>4, QuietCounts
<1>9. CASE \E wi \in WorkItems : Finish(wi)
  <2>1. /\ UNCHANGED <<host, invocation, last_line, at, kernels, instrs, toDebugger, toPlugin, pfd>>
        /\ host = "kernel"
    BY <1>9 DEF Finish, wireVars
  <2>2. seen' = seen
    BY <1>1, <2>1, SeenStays
  <2>3. KernelInv'
    BY <2>1, <2>2, HostLeaves DEF SessionInv, KernelInv
  <2>4. EndInv'
    BY <1>2, <2>1, HostLeaves DEF SessionInv, EndInv, PluginEnd
  <2> QED BY <2>1, <2>2, <2>3, <2>4, QuietCounts
<1> QED BY <1>3, <1>4, <1>5, <1>6, <1>7, <1>8, <1>9

\* Whatever the host does keeps the invariant.
LEMMA HostKeeps == ASSUME SafeInv, SessionInv, HostStep PROVE SessionInv'
<1>1. SessionTypeOK' /\ KernelInv' /\ CountInv' /\ EndInv'
  <2>1. CASE Serve
    BY <2>1, ServeKeeps
  <2>2. CASE HostKilled /\ killed' = TRUE
    BY <2>2, OtherHostKeeps
  <2>3. CASE HostRuns
    BY <2>3, ExecuteKeeps, OtherHostKeeps DEF HostRuns
  <2> QED BY <2>1, <2>2, <2>3 DEF HostStep
<1> QED BY <1>1, HostCalls DEF SessionInv

-----------------------------------------------------------------------------
(* The steps of the session.                                               *)

\* Where the debugger makes a step, the kernels stand still, and a host that has
\* ended is at most reaped.
LEMMA DebuggerSteps ==
    ASSUME SafeInv, SessionInv, UNCHANGED <<pluginVars, seen, killed, pfd>>,
           host' = host \/ (host \in Dead /\ host' = "none"),
           spc' = "launching" /\ dpc' \in {"accept", "handshake"} =>
             spc = "launching" /\ dpc \in {"accept", "handshake"},
           dfd' = "closed" /\ PluginEnd => host \in {"connected", "serving"} /\ toPlugin' = <<>>,
           printed' \in 0 .. print_exprs, hits' \in Nat,
           spc' \in {"begin", "launch", "launching", "running", "loop", "detaching", "done", "failed"}
    PROVE  SessionTypeOK' /\ KernelInv' /\ EndInv'
<1>1. UNCHANGED <<last_line, invocation, at, finished, kernels>>
  BY DEF pluginVars, interpVars
<1>2. host' # "none" => host' = host
  OBVIOUS
<1>3. host' # host => host \in {"none", "exited", "killed", "sigpipe"} /\ host' = "none"
  BY DEF Dead, HostGone
<1>4. SessionTypeOK'
  BY DEF SessionInv, SessionTypeOK
<1>5. KernelInv'
  BY <1>1, <1>3 DEF SessionInv, KernelInv
<1>6. EndInv'
  <2>1. PluginEnd' = PluginEnd
    BY DEF PluginEnd
  <2>2. host # host' => ~PluginEnd
    BY <1>3 DEF SafeInv, Known, EndsInv, PluginEnd
  <2>3. host' \notin {"kernel", "serving"} /\ ~killed =>
          ~invocation /\ (kernels > 0 => finished = WorkItems)
    BY <1>3 DEF SessionInv, EndInv
  <2> QED BY <1>1, <1>3, <2>1, <2>2, <2>3 DEF SessionInv, EndInv
<1> QED BY <1>4, <1>5, <1>6

\* What resume() does: it is sent, or the host is over.
LEMMA ResumeEffect ==
    ASSUME SafeInv, resume, UNCHANGED pluginVars
    PROVE  /\ halted /\ ~halted' /\ after' = "client" /\ dfd = "open"
           /\ UNCHANGED <<host, pfd, breakpoints>>
           /\ \/ dpc' = "resumed" /\ dfd' = dfd
              \/ dpc' \in {"idle", "dead"} /\ ~PluginEnd /\ host \in OverHosts
<1>1. /\ dpc = "idle" /\ halted /\ ~halted' /\ after' = after /\ UNCHANGED <<host, pfd, breakpoints>>
      /\ SendCommand(Continue, "resumed", "idle")
  BY DEF resume, ResumeWith, bpVars, callVars
<1>2. dfd = "open" /\ after = "client"
  BY <1>1, HaltedHost
<1>3. ~PluginEnd => host \in OverHosts
  BY <1>2, LostHost
<1> QED BY <1>1, <1>2, <1>3 DEF SendCommand

\* What a request of a halted debugger does: it is sent, or the host is over.
LEMMA RequestEffect ==
    ASSUME SafeInv, NEW m, NEW why, NEW failed, dfd = "open", Request(m, why, failed),
           failed \in {"idle", "register"}
    PROVE  \/ dpc' = "request" /\ pending' = m /\ after' = why /\ dfd' = dfd
           \/ dpc' = failed /\ after' = "client" /\ dfd' = dfd
           \/ dpc' = "dead" /\ after' = "client" /\ ~PluginEnd /\ host \in OverHosts
<1>1. ~PluginEnd => host \in OverHosts
  BY LostHost
<1> QED BY <1>1 DEF Request, SendCommand

\* Where no hit is counted, none is lost.
LEMMA CountsStay ==
    ASSUME SafeInv, SessionInv, UNCHANGED <<seen, hits>>, Counting' => Counting,
           dpc # "resumed" \/ (dpc' = "resumed" /\ toDebugger' = toDebugger)
    PROVE  CountInv'
<1>1. Due' \in {0, 1} /\ (dpc # "resumed" => Due = 0)
  BY DEF Due
<1>2. dpc = "resumed" => Due' = Due
  BY DEF Due
<1>3. hits \in Nat /\ (IsFiniteSet(seen) => Cardinality(seen) \in Nat)
  BY FS_CardinalityType DEF SessionInv, SessionTypeOK
<1> QED BY <1>1, <1>2, <1>3 DEF SessionInv, CountInv

\* The breakpoint is set before there is a host.
LEMMA RegisterKeeps == ASSUME SafeInv, SessionInv, RegisterBreakpoint PROVE SessionInv'
<1>1. /\ spc = "begin" /\ spc' = "launch" /\ UNCHANGED <<hits, printed, seen, killed, pluginVars>>
      /\ \/ break_at = NoLine /\ UNCHANGED vars
         \/ break_at # NoLine /\ set_breakpoint(break_at)
  BY DEF RegisterBreakpoint, Goto, vars
<1>2. dpc = "idle" /\ ~halted /\ host = "none" /\ pfd = "none" /\ dfd = "none"
  BY <1>1 DEF SessionInv, CallInv
<1>3. UNCHANGED <<dpc, halted, host, pfd, dfd, toPlugin, toDebugger, pending, after>>
  BY <1>1, <1>2 DEF set_breakpoint, Quietly, vars, wireVars, backendVars, callVars
<1>4. break_at # NoLine => break_at \in Armed(breakpoints)'
  <2>1. ASSUME break_at # NoLine
        PROVE  next_id \in Ids /\ breakpoints' = [breakpoints EXCEPT ![next_id] = break_at]
               /\ breakpoints \in [Ids -> MaybeLine]
    <3>1. next_id \in 1 .. MaxId + 1 /\ breakpoints \in [Ids -> MaybeLine]
      BY DEF SafeInv, Known, TypeInv, TypeOK, BackendTypeOK
    <3>2. next_id <= MaxId /\ breakpoints' = [breakpoints EXCEPT ![next_id] = break_at]
      BY <1>1, <1>2, <2>1 DEF set_breakpoint
    <3> QED BY <3>1, <3>2, MaxIdAssumption DEF Ids
  <2> QED BY <2>1 DEF Armed
<1>5. /\ UNCHANGED <<at, last_line, kernels, invocation>>
      /\ spc' = "launch" /\ hits = 0 /\ hits \in Nat /\ printed \in 0 .. print_exprs
  BY <1>1 DEF pluginVars, interpVars, SessionInv, HitsInv, SessionTypeOK
<1>6. SessionTypeOK' /\ KernelInv' /\ EndInv'
  BY <1>1, <1>2, <1>3, <1>5, DebuggerSteps
<1>7. CallInv'
  BY <1>1, <1>2, <1>3, <1>5 DEF SessionInv, CallInv
<1>8. ArmedInv' /\ HitsInv' /\ OverInv'
  BY <1>1, <1>2, <1>3, <1>4, <1>5, ConfigAssumption DEF ArmedInv, HitsInv, OverInv, Short
<1>9. CountInv'
  BY <1>1, <1>2, <1>3, CountsStay DEF Counting, Short
<1> QED BY <1>6, <1>7, <1>8, <1>9 DEF SessionInv

\* The host is launched: a new process, and nothing seen of it.
LEMMA SessionLaunchKeeps == ASSUME SafeInv, SessionInv, SessionLaunch PROVE SessionInv'
<1>1. /\ spc = "launch" /\ spc' = "launching" /\ UNCHANGED <<hits, printed, seen, killed>>
      /\ dpc' = "accept" /\ UNCHANGED <<halted, breakpoints>>
      /\ pfd' = "none" /\ dfd' = "none" /\ host' = "starting"
      /\ kernels' = 0 /\ invocation' = FALSE /\ at' = NoLastLines /\ last_line' = NoLastLines
  BY DEF SessionLaunch, Goto, LaunchHost, Launch, Exec, bpVars
<1>2. ~halted /\ seen = {} /\ hits = 0
  BY <1>1 DEF SessionInv, CallInv, HitsInv
<1>3. SessionTypeOK'
  BY <1>1 DEF SessionInv, SessionTypeOK
<1>4. CallInv' /\ HitsInv' /\ OverInv'
  BY <1>1, <1>2, ConfigAssumption DEF CallInv, HitsInv, OverInv, Short
<1>5. ArmedInv'
  BY <1>1 DEF SessionInv, ArmedInv, Armed
<1>6. KernelInv'
  <2>1. \A wi \in WorkItems : at'[wi] = NoLine /\ last_line'[wi] = NoLine
    BY <1>1 DEF NoLastLines
  <2> QED BY <1>1, <1>2, <2>1 DEF KernelInv
<1>7. CountInv'
  BY <1>1, <1>2 DEF SessionInv, CountInv, Counting, Short
<1>8. EndInv'
  BY <1>1 DEF EndInv, PluginEnd
<1> QED BY <1>3, <1>4, <1>5, <1>6, <1>7, <1>8 DEF SessionInv

\* The steps of the session in which it makes no call.
LEMMA NoCallKeeps ==
    ASSUME SafeInv, SessionInv, LaunchFailed \/ ResumeFailed \/ Completed PROVE SessionInv'
<1>1. /\ UNCHANGED <<dpc, halted, host, pfd, dfd, toPlugin, toDebugger, pending, after, breakpoints>>
      /\ UNCHANGED <<pluginVars, hits, seen, killed>> /\ dpc = "idle"
      /\ \/ spc = "launching" /\ spc' = "failed" /\ ~halted /\ printed' = printed
         \/ spc = "running" /\ spc' = "loop" /\ ~halted /\ printed' = print_exprs
         \/ spc = "detaching" /\ spc' = "done" /\ printed' = printed
  BY DEF LaunchFailed, ResumeFailed, Completed, Goto, vars, wireVars, backendVars, callVars, bpVars
<1>2. /\ printed' \in 0 .. print_exprs /\ hits' \in Nat
      /\ dfd' = "closed" /\ PluginEnd => host \in {"connected", "serving"} /\ toPlugin' = <<>>
  BY <1>1, ConfigAssumption DEF SessionInv, SessionTypeOK, EndInv
<1>3. SessionTypeOK' /\ KernelInv' /\ EndInv'
  BY <1>1, <1>2, DebuggerSteps
<1>4. CallInv'
  BY <1>1 DEF SessionInv, CallInv
<1>5. ArmedInv' /\ HitsInv'
  BY <1>1 DEF SessionInv, ArmedInv, Armed, HitsInv
<1>6. OverInv'
  BY <1>1 DEF SessionInv, OverInv, Short
<1>7. CountInv'
  BY <1>1, CountsStay DEF Counting, Short
<1> QED BY <1>3, <1>4, <1>5, <1>6, <1>7 DEF SessionInv

\* A resume is asked for where more hits are wanted; where it cannot be sent the
\* host is over.
LEMMA ResumeKeeps ==
    ASSUME SafeInv, SessionInv, FirstResume \/ ResumeAgain PROVE SessionInv'
<1>1. /\ UNCHANGED <<pluginVars, hits, printed, seen, killed>> /\ resume
      /\ spc' = "running" /\ spc \in {"launching", "loop"}
      /\ spc = "loop" => break_for = 0 \/ hits < break_for
  BY DEF FirstResume, ResumeAgain, Goto, WantsMore
<1>2. /\ halted /\ ~halted' /\ after' = "client" /\ dfd = "open"
      /\ UNCHANGED <<host, pfd, breakpoints>>
      /\ \/ dpc' = "resumed" /\ dfd' = dfd
         \/ dpc' \in {"idle", "dead"} /\ ~PluginEnd /\ host \in OverHosts
  BY <1>1, ResumeEffect
<1>3. dpc = "idle"
  BY <1>1 DEF resume
<1>4. SessionTypeOK' /\ KernelInv' /\ EndInv'
  BY <1>1, <1>2, DebuggerSteps DEF SessionInv, SessionTypeOK
<1>5. CallInv'
  BY <1>1, <1>2 DEF SessionInv, CallInv
<1>6. ArmedInv'
  BY <1>1, <1>2 DEF SessionInv, ArmedInv, Armed
<1>7. HitsInv'
  BY <1>1, ConfigAssumption DEF SessionInv, HitsInv, SessionTypeOK
<1>8. OverInv'
  BY <1>1, <1>2 DEF OverInv, Short
<1>9. CountInv'
  BY <1>1, <1>2, <1>3, CountsStay DEF Counting, Short
<1> QED BY <1>4, <1>5, <1>6, <1>7, <1>8, <1>9 DEF SessionInv

\* What the session reads after a resume is a stop, which is a hit, or that the
\* host is over.
LEMMA EventReadKeeps == ASSUME SafeInv, SessionInv, EventRead PROVE SessionInv'
<1>1. /\ spc = "running" /\ spc' = "loop" /\ dpc = "resumed" /\ dpc' = "idle" /\ after' = "client"
      /\ UNCHANGED <<pluginVars, seen, killed, pfd, host, breakpoints, toPlugin>>
      /\ \/ DebuggerEof /\ dfd' = "closed" /\ halted' = halted
         \/ /\ toDebugger # <<>> /\ dfd' = dfd
            /\ \/ Head(toDebugger).tag = "stopped" /\ halted' = TRUE
               \/ Head(toDebugger).tag # "stopped" /\ halted' = halted
      /\ hits' = IF halted' THEN hits + 1 ELSE hits
      /\ printed' = IF halted' THEN 0 ELSE print_exprs
  BY DEF EventRead, Goto, ReceiveEvent, CloseDebuggerEnd, bpVars
<1>2. dfd = "open" /\ ~halted
  BY <1>1 DEF SafeInv, Known, EndsInv, HaltInv, TypeInv, TypeOK, WireTypeOK
<1>3. toDebugger # <<>> => Head(toDebugger).tag = "stopped"
  <2>1. toDebugger = <<>> \/ \E wi \in WorkItems, ln \in Lines : toDebugger = <<Stopped(wi, ln)>>
    BY <1>1 DEF SafeInv, PhaseInv
  <2> QED BY <2>1 DEF Stopped
<1>4. \/ DebuggerEof /\ dfd' = "closed" /\ ~halted' /\ hits' = hits /\ printed' = print_exprs
         /\ Due = 0 /\ ~PluginEnd /\ host \in OverHosts
      \/ toDebugger # <<>> /\ dfd' = dfd /\ halted' /\ hits' = hits + 1 /\ printed' = 0 /\ Due = 1
  BY <1>1, <1>2, <1>3, LostHost DEF DebuggerEof, Due
<1>5. hits \in Nat /\ break_for \in Nat /\ print_exprs \in Nat
  BY ConfigAssumption DEF SessionInv, SessionTypeOK
<1>6. SessionTypeOK' /\ KernelInv' /\ EndInv'
  <2>1. hits' \in Nat /\ printed' \in 0 .. print_exprs
    BY <1>4, <1>5
  <2>2. ~(dfd' = "closed" /\ PluginEnd)
    BY <1>2, <1>4
  <2> QED BY <1>1, <2>1, <2>2, DebuggerSteps
<1>7. CallInv'
  BY <1>1, <1>4 DEF CallInv
<1>8. ArmedInv'
  BY <1>1 DEF SessionInv, ArmedInv, Armed
<1>9. HitsInv'
  BY <1>1, <1>4, <1>5 DEF SessionInv, HitsInv
<1>10. OverInv'
  BY <1>1, <1>4 DEF OverInv, Short
<1>11. CountInv'
  <2>1. IsFiniteSet(seen) /\ Cardinality(seen) <= hits + Due /\ Cardinality(seen) \in Nat
    BY <1>1, FS_CardinalityType DEF SessionInv, CountInv, Counting
  <2>2. Due' = 0 /\ hits' = hits + Due
    BY <1>1, <1>4, <1>5 DEF Due
  <2> QED BY <1>1, <1>5, <2>1, <2>2 DEF CountInv
<1> QED BY <1>6, <1>7, <1>8, <1>9, <1>10, <1>11 DEF SessionInv

\* An expression is asked for at a halt.
LEMMA EvaluateKeeps == ASSUME SafeInv, SessionInv, EvaluateExpr PROVE SessionInv'
<1>1. /\ spc = "loop" /\ spc' = "loop" /\ dpc = "idle" /\ printed < print_exprs
      /\ printed' = printed + 1 /\ UNCHANGED <<pluginVars, hits, seen, killed>>
      /\ UNCHANGED <<pfd, host, halted, breakpoints>>
      /\ Request(PrintExpr, "client", "idle")
  BY DEF EvaluateExpr, evaluate, Ask, bpVars
<1>2. printed \in 0 .. print_exprs /\ print_exprs \in Nat
  BY ConfigAssumption DEF SessionInv, SessionTypeOK
<1>3. halted
  BY <1>1, <1>2 DEF SessionInv, CallInv
<1>4. dfd = "open"
  BY <1>1, <1>3, HaltedHost
<1>5. \/ dpc' = "request" /\ pending' = PrintExpr /\ dfd' = dfd
      \/ dpc' = "idle" /\ dfd' = dfd
      \/ dpc' = "dead" /\ ~PluginEnd /\ host \in OverHosts
  BY <1>1, <1>4, RequestEffect
<1>6. SessionTypeOK' /\ KernelInv' /\ EndInv'
  <2>1. printed' \in 0 .. print_exprs /\ hits' \in Nat
    BY <1>1, <1>2 DEF SessionInv, SessionTypeOK
  <2>2. ~(dfd' = "closed" /\ PluginEnd)
    BY <1>4, <1>5
  <2> QED BY <1>1, <1>5, <2>1, <2>2, DebuggerSteps
<1>7. CallInv'
  BY <1>1, <1>3, <1>5 DEF CallInv, PrintExpr
<1>8. ArmedInv' /\ HitsInv'
  BY <1>1 DEF SessionInv, ArmedInv, Armed, HitsInv
<1>9. OverInv'
  BY <1>1, <1>3, <1>5 DEF OverInv, Short
<1>10. CountInv'
  BY <1>1, CountsStay DEF Counting, Short
<1> QED BY <1>6, <1>7, <1>8, <1>9, <1>10 DEF SessionInv

\* The session detaches when it has seen enough, from a host that serves it and
\* waits for a command, or when there is no halted host left.
LEMMA DetachKeeps == ASSUME SafeInv, SessionInv, SessionDetach PROVE SessionInv'
<1>1. /\ spc = "loop" /\ spc' = "detaching" /\ dpc = "idle" /\ dpc' = "waitpid" /\ ~WantsMore
      /\ dfd' = "closed" /\ UNCHANGED <<pfd, host, halted, breakpoints, toPlugin>>
      /\ UNCHANGED <<pluginVars, hits, printed, seen, killed>>
  BY DEF SessionDetach, Goto, Detach, BeginDetach, CloseDebuggerEnd, bpVars
<1>2. (break_for = 0 \/ hits < break_for) => ~halted
  BY <1>1 DEF WantsMore
<1>3. ~halted => host \in OverHosts
  BY <1>1 DEF SessionInv, OverInv
<1>4. PluginEnd => host \in {"connected", "serving"} /\ toPlugin = <<>>
  <2>1. CASE halted
    BY <1>1, <2>1, HaltedHost
  <2>2. CASE ~halted
    <3>1. ~PluginEnd
      BY <1>3, <2>2 DEF OverHosts, HostGone, SafeInv, Known, EndsInv, PluginEnd
    <3> QED BY <3>1
  <2> QED BY <2>1, <2>2
<1>5. SessionTypeOK' /\ KernelInv' /\ EndInv'
  BY <1>1, <1>4, DebuggerSteps DEF SessionInv, SessionTypeOK
<1>6. CallInv'
  BY <1>1 DEF CallInv
<1>7. ArmedInv' /\ HitsInv'
  BY <1>1 DEF SessionInv, ArmedInv, Armed, HitsInv
<1>8. OverInv'
  BY <1>1, <1>2, <1>3 DEF OverInv, Short
<1>9. CountInv'
  BY <1>1, CountsStay DEF Counting, Short
<1> QED BY <1>5, <1>6, <1>7, <1>8, <1>9 DEF SessionInv

\* A session that waits for its launch, or for a reply.
LEMMA CallOf ==
    ASSUME SafeInv, SessionInv
    PROVE  /\ dpc \in {"accept", "handshake", "register"} => spc = "launching"
           /\ dpc = "request" => spc \in {"launching", "loop"}
           /\ dpc = "waitpid" => spc \in {"launching", "detaching"}
           /\ dpc \in {"accept", "handshake"} => ~halted
BY DEF SessionInv, SessionTypeOK, CallInv, SafeInv, HaltInv

\* launch() up to the handshake: there is nothing seen of a host that greets.
LEMMA LaunchKeeps ==
    ASSUME SafeInv, SessionInv, CallProgress, Accept \/ AcceptFails \/ Handshake
    PROVE  SessionInv'
<1>1. UNCHANGED <<pluginVars, spc, hits, printed, seen, killed, pfd, breakpoints>>
  BY DEF CallProgress, sessionVars, Accept, AcceptFails, HostEndedFirst, PollFails, Handshake, bpVars
<1>2. dpc \in {"accept", "handshake"} /\ spc = "launching" /\ ~halted
  BY CallOf DEF Accept, AcceptFails, HostEndedFirst, PollFails, Handshake
<1>3. \/ dpc = "accept" /\ dpc' = "handshake" /\ dfd' = "open" /\ UNCHANGED <<host, halted>>
      \/ /\ dpc' = "waitpid" /\ halted' = halted /\ toPlugin' = toPlugin
         /\ host' = host \/ (host \in Dead /\ host' = "none")
      \/ dpc = "handshake" /\ dpc' = "register" /\ halted' /\ UNCHANGED <<host, dfd>>
  <2>1. CASE Accept
    BY <2>1 DEF Accept
  <2>2. CASE AcceptFails
    BY <2>2 DEF AcceptFails, HostEndedFirst, PollFails, BeginDetach, Dead
  <2>3. CASE Handshake
    BY <2>3 DEF Handshake, BeginDetach
  <2> QED BY <2>1, <2>2, <2>3
<1>4. PluginEnd => host \in {"connected", "serving"} /\ toPlugin = <<>>
  BY <1>2 DEF SafeInv, PhaseInv, Greeting
<1>5. dpc = "handshake" => dfd = "open"
  BY DEF SafeInv, Known, EndsInv, TypeInv, TypeOK, WireTypeOK
<1>6. SessionTypeOK' /\ KernelInv' /\ EndInv'
  <2>1. hits' \in Nat /\ printed' \in 0 .. print_exprs
    BY <1>1 DEF SessionInv, SessionTypeOK
  <2>2. dfd' = "closed" /\ PluginEnd => host \in {"connected", "serving"} /\ toPlugin' = <<>>
    BY <1>3, <1>4, <1>5
  <2> QED BY <1>1, <1>2, <1>3, <2>1, <2>2, DebuggerSteps
<1>7. CallInv'
  BY <1>1, <1>2, <1>3 DEF CallInv
<1>8. ArmedInv' /\ HitsInv'
  BY <1>1 DEF SessionInv, ArmedInv, Armed, HitsInv
<1>9. OverInv'
  BY <1>1, <1>2, <1>3 DEF OverInv, Short
<1>10. CountInv'
  <2>1. CASE halted'
    <3>1. dpc = "handshake" /\ dfd = "open"
      BY <1>2, <1>3, <1>5, <2>1
    <3>2. kernels = 0
      BY <1>2, <3>1 DEF SafeInv, Known, EndsInv, SessionInv, KernelInv
    <3>3. seen = {}
      <4> SUFFICES ASSUME NEW e \in seen PROVE FALSE
        OBVIOUS
      <4>1. e[1] \in 1 .. MaxKernels /\ e[1] <= 0
        BY <3>2 DEF SessionInv, SessionTypeOK, KernelInv
      <4> QED BY <4>1
    <3>4. Cardinality(seen') = 0 /\ IsFiniteSet(seen')
      BY <1>1, <3>3, FS_EmptySet
    <3>5. Due' = 0
      BY <1>2, <1>3, <2>1 DEF Due
    <3>6. hits' = hits /\ hits \in Nat
      BY <1>1 DEF SessionInv, SessionTypeOK
    <3> QED BY <3>4, <3>5, <3>6 DEF CountInv
  <2>2. CASE ~halted'
    BY <1>1, <1>2, <2>2, CountsStay DEF Counting, Short
  <2> QED BY <2>1, <2>2
<1> QED BY <1>6, <1>7, <1>8, <1>9, <1>10 DEF SessionInv

\* launch() sends the breakpoints to a halted host, and requests are answered.
LEMMA RequestKeeps ==
    ASSUME SafeInv, SessionInv, CallProgress, Register \/ ReceiveReply PROVE SessionInv'
<1>1. UNCHANGED <<pluginVars, spc, hits, printed, seen, killed, pfd, host, halted>>
  BY DEF CallProgress, sessionVars, Register, ReceiveReply
<1>2. \/ /\ dpc = "register" /\ spc = "launching" /\ halted /\ UNCHANGED breakpoints
         /\ \/ dpc' = "register" /\ dfd' = dfd
            \/ dpc' = "idle" /\ dfd' = dfd
            \/ dpc' = "request" /\ dfd' = dfd /\ pending'.verb = "break" /\ after' = "launch"
            \/ dpc' = "dead" /\ ~PluginEnd /\ host \in OverHosts
      \/ /\ dpc = "request" /\ spc = "launching" /\ dpc' = "register"
         /\ UNCHANGED <<breakpoints, dfd, toPlugin>>
      \/ /\ dpc = "request" /\ spc = "loop" /\ halted /\ dpc' = "idle"
         /\ UNCHANGED <<breakpoints, dfd, toPlugin>>
  <2>1. CASE Register
    <3>1. dpc = "register" /\ spc = "launching" /\ halted /\ dfd = "open" /\ UNCHANGED breakpoints
      BY <2>1, CallOf DEF Register, bpVars, SafeInv, HaltInv
    <3>2. CASE dpc' = "idle" /\ dfd' = dfd
      BY <3>1, <3>2
    <3>3. ASSUME NEW id \in todo, Request(Break(id, breakpoints[id]), "launch", "register")
          PROVE  \/ dpc' = "register" /\ dfd' = dfd
                 \/ dpc' = "request" /\ dfd' = dfd /\ pending'.verb = "break" /\ after' = "launch"
                 \/ dpc' = "dead" /\ ~PluginEnd /\ host \in OverHosts
      BY <3>1, <3>3, RequestEffect DEF Break
    <3> QED BY <2>1, <3>1, <3>2, <3>3 DEF Register
  <2>2. CASE ReceiveReply
    <3>1. dpc = "request" /\ UNCHANGED <<dfd, toPlugin>>
      BY <2>2 DEF ReceiveReply, BreakReply, SelectReply, OtherReply, Answered
    <3>2. \/ spc = "launching" /\ pending.verb = "break" /\ after = "launch"
          \/ spc = "loop" /\ pending.verb = "print" /\ halted
      BY <3>1, CallOf DEF SessionInv, CallInv
    <3>3. CASE spc = "launching" /\ pending.verb = "break" /\ after = "launch"
      BY <2>2, <3>1, <3>3 DEF ReceiveReply, BreakReply, SelectReply, OtherReply, TakeReply
    <3>4. CASE spc = "loop" /\ pending.verb = "print" /\ halted
      BY <2>2, <3>1, <3>4 DEF ReceiveReply, BreakReply, SelectReply, OtherReply, TakeReply
    <3> QED BY <3>2, <3>3, <3>4
  <2> QED BY <2>1, <2>2 DEF CallProgress
<1>3. dfd' = "closed" /\ PluginEnd => host \in {"connected", "serving"} /\ toPlugin' = <<>>
  <2>1. dpc \in {"register", "request"} => dfd # "closed"
    BY DEF SafeInv, Known, EndsInv
  <2> QED BY <1>2, <2>1
<1>4. SessionTypeOK' /\ KernelInv' /\ EndInv'
  BY <1>1, <1>2, <1>3, DebuggerSteps DEF SessionInv, SessionTypeOK
<1>5. CallInv'
  BY <1>1, <1>2 DEF SessionInv, CallInv
<1>6. ArmedInv' /\ HitsInv'
  BY <1>1, <1>2 DEF SessionInv, ArmedInv, Armed, HitsInv
<1>7. OverInv'
  <2>1. spc = "launching" /\ dpc = "request" => dpc' # "idle"
    BY <1>2
  <2> QED BY <1>1, <1>2, <2>1 DEF SessionInv, OverInv, Short
<1>8. CountInv'
  BY <1>1, <1>2, CountsStay DEF Counting, Short
<1> QED BY <1>4, <1>5, <1>6, <1>7, <1>8 DEF SessionInv

\* A host that has ended is reaped.
LEMMA ReapKeeps == ASSUME SafeInv, SessionInv, CallProgress, Reap PROVE SessionInv'
<1>1. /\ UNCHANGED <<pluginVars, spc, hits, printed, seen, killed, pfd, dfd, toPlugin, breakpoints>>
      /\ dpc = "waitpid" /\ dpc' = "idle" /\ host \in Dead /\ host' = "none" /\ ~halted'
  BY DEF CallProgress, sessionVars, Reap, wireVars, bpVars
<1>2. spc \in {"launching", "detaching"}
  BY <1>1, CallOf
<1>3. SessionTypeOK' /\ KernelInv' /\ EndInv'
  BY <1>1, DebuggerSteps DEF SessionInv, SessionTypeOK, EndInv
<1>4. CallInv' /\ OverInv'
  BY <1>1, <1>2 DEF CallInv, OverInv, OverHosts
<1>5. ArmedInv' /\ HitsInv'
  BY <1>1 DEF SessionInv, ArmedInv, Armed, HitsInv
<1>6. CountInv'
  BY <1>1, CountsStay DEF Counting, Short
<1> QED BY <1>3, <1>4, <1>5, <1>6 DEF SessionInv

-----------------------------------------------------------------------------
(* The theorems.                                                           *)

\* The session starts in the invariant.
LEMMA SessionInitInv == SessionInit => SessionInv
<1> SUFFICES ASSUME SessionInit PROVE SessionInv
  OBVIOUS
<1>1. /\ host = "none" /\ pfd = "none" /\ dfd = "none" /\ dpc = "idle" /\ ~halted
      /\ toDebugger = <<>> /\ kernels = 0 /\ ~invocation /\ at = NoLastLines /\ last_line = NoLastLines
      /\ spc = "begin" /\ hits = 0 /\ printed = 0 /\ seen = {} /\ ~killed
  BY DEF SessionInit, Init, WireInit, BackendInit, PluginInit
<1>2. SessionTypeOK
  BY <1>1, ConfigAssumption DEF SessionTypeOK
<1>3. CallInv /\ ArmedInv /\ HitsInv /\ OverInv /\ EndInv
  BY <1>1, ConfigAssumption DEF CallInv, ArmedInv, HitsInv, OverInv, EndInv, Short, PluginEnd
<1>4. KernelInv
  BY <1>1 DEF KernelInv, NoLastLines
<1>5. CountInv
  BY <1>1, FS_EmptySet DEF CountInv, Counting, Short
<1> QED BY <1>2, <1>3, <1>4, <1>5 DEF SessionInv

\* Every step keeps it, on top of the invariants of the link.
LEMMA SessionStepInv == ASSUME SafeInv, SessionInv, [SessionNext]_allVars PROVE SessionInv'
<1>1. CASE UNCHANGED allVars
  <2>1. UNCHANGED <<dpc, halted, host, pfd, dfd, toPlugin, toDebugger, pending, after, breakpoints,
                    kernels, invocation, at, last_line, finished, spc, hits, printed, seen, killed>>
    BY <1>1 DEF allVars, vars, sessionVars, wireVars, backendVars, callVars, bpVars, pluginVars,
                interpVars
  <2>2. SessionTypeOK' /\ CallInv' /\ ArmedInv' /\ HitsInv' /\ OverInv'
    BY <2>1 DEF SessionInv, SessionTypeOK, CallInv, ArmedInv, Armed, HitsInv, OverInv, Short
  <2>3. KernelInv' /\ CountInv' /\ EndInv'
    BY <2>1 DEF SessionInv, KernelInv, CountInv, Counting, Short, Due, EndInv, PluginEnd
  <2> QED BY <2>2, <2>3 DEF SessionInv
<1>2. CASE HostStep
  BY <1>2, HostKeeps
<1>3. CASE RegisterBreakpoint \/ SessionLaunch
  BY <1>3, RegisterKeeps, SessionLaunchKeeps
<1>4. CASE LaunchFailed \/ ResumeFailed \/ Completed
  BY <1>4, NoCallKeeps
<1>5. CASE FirstResume \/ ResumeAgain
  BY <1>5, ResumeKeeps
<1>6. CASE EventRead \/ EvaluateExpr \/ SessionDetach
  BY <1>6, EventReadKeeps, EvaluateKeeps, DetachKeeps
<1>7. CASE CallProgress
  BY <1>7, LaunchKeeps, RequestKeeps, ReapKeeps DEF CallProgress
<1> QED BY <1>1, <1>2, <1>3, <1>4, <1>5, <1>6, <1>7 DEF SessionNext, SessionStep

\* The invariant of the session.
LEMMA SessionInvariant == SessionSpec => [](SafeInv /\ SessionInv)
<1>1. SessionInit => SessionInv
  BY SessionInitInv
<1>2. SafeInv /\ SessionInv /\ [SessionNext]_allVars => SessionInv'
  BY SessionStepInv
<1> QED BY <1>1, <1>2, LinkIsSafe, PTL DEF SessionSpec

(***************************************************************************)
(* The session's own variables keep their types: it is always in one of    *)
(* its phases, evaluates no expression it was not given, and remembers     *)
(* only kernels and work-items the host has.                               *)
(***************************************************************************)
THEOREM SessionTypes == SessionSpec => []SessionTypeOK
<1>1. SessionInv => SessionTypeOK
  BY DEF SessionInv
<1> QED BY <1>1, SessionInvariant, PTL

(***************************************************************************)
(* "report this many hits (0 = every hit)" (OclgrindSession.h:12), for any *)
(* number of work-items, kernels and hits: never one more, and fewer only  *)
(* when every work-item that came to the line has been reported.           *)
(***************************************************************************)
THEOREM ReportsWhatWasAskedFor == SessionSpec => []ReportsEnough
<1>1. ASSUME SafeInv, SessionInv PROVE ReportsEnough
  <2>1. break_for # 0 => hits <= break_for
    BY <1>1 DEF SessionInv, HitsInv
  <2>2. ASSUME spc = "done", break_for = 0 \/ hits < break_for PROVE Cardinality(seen) <= hits
    <3>1. dpc = "idle"
      BY <1>1, <2>2 DEF SessionInv, CallInv
    <3>2. Due = 0 /\ hits \in Nat
      BY <1>1, <3>1 DEF Due, SessionInv, SessionTypeOK
    <3>3. Cardinality(seen) <= hits + Due
      BY <1>1, <2>2 DEF SessionInv, CountInv, Counting, Short
    <3> QED BY <3>2, <3>3
  <2> QED BY <2>1, <2>2 DEF ReportsEnough
<1> QED BY <1>1, SessionInvariant, PTL

(***************************************************************************)
(* "Detaching lets the host program run the rest of the kernel to          *)
(* completion." (OclgrindSession.cpp:61): a session that is done has       *)
(* waited for its host, and the last kernel of a host that nothing killed  *)
(* has finished all its work-items, however the session ended.             *)
(***************************************************************************)
THEOREM HostRunsToCompletion == SessionSpec => []HostRanToCompletion
<1>1. ASSUME SessionInv PROVE HostRanToCompletion
  <2> SUFFICES ASSUME spc = "done", ~killed
               PROVE  host = "none" /\ ~invocation /\ (kernels > 0 => finished = WorkItems)
    BY DEF HostRanToCompletion
  <2>1. host = "none"
    BY <1>1 DEF SessionInv, CallInv, OverInv
  <2> QED BY <1>1, <2>1 DEF SessionInv, EndInv
<1> QED BY <1>1, SessionInvariant, PTL
================================================================================
