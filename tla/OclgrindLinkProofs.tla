------------------------- MODULE OclgrindLinkProofs -------------------------
(***************************************************************************)
(* Theorems about OclgrindLink, for every set of work-items and lines and  *)
(* every value of the bounds: its types, the exchanges of its two ends,    *)
(* what they agree on, and that they implement DebuggerContract.           *)
(***************************************************************************)
EXTENDS OclgrindLink, SequenceTheorems, TLAPS

\* What launch() has still to register is in the backend's map, so that what
\* it sends has a line.
TodoRegistered ==
    dpc = "register" \/ (dpc = "request" /\ after = "launch") => todo \subseteq Registered

\* A step that has selected its work-item knows which step it is.
StepKnown == dpc = "stepping" => after \in StepKinds

TypeInv == TypeOK /\ TodoRegistered /\ StepKnown

USE WorkItemAssumption, LineAssumption, MaxIdAssumption, SigPipeAssumption,
    BoundAssumption, DepthAssumption, LaunchAssumption, KillableAssumption
    DEF NoLine

-----------------------------------------------------------------------------
(* Lines of the protocol.                                                  *)

\* Every command a client can cause is a line of the protocol.
LEMMA RequestLines ==
    /\ \A id \in Ids, line \in Lines : Break(id, line) \in Requests
    /\ \A id \in Ids : Delete(id) \in Requests
    /\ \A wi \in GlobalIds : Select(wi) \in Requests
    /\ PrintExpr \in Requests /\ ReadMemory \in Requests
    /\ Continue \in Commands
    /\ \A how \in StepKinds : Step(how) \in Commands
    /\ Requests \subseteq Commands
BY DEF Requests, Commands, Resumptions

\* A select that is pending names a work-item the client may name.
LEMMA SelectNames ==
    ASSUME NEW m \in Requests \cup {NoRequest}, m.verb = "select"
    PROVE  m.wi \in GlobalIds
BY DEF Requests, Break, Delete, Select, PrintExpr, ReadMemory, NoRequest

\* A break that is pending names an id and a line.
LEMMA BreakNames ==
    ASSUME NEW m \in Requests \cup {NoRequest}, m.verb = "break"
    PROVE  m.id \in Ids /\ m.line \in Lines
BY DEF Requests, Break, Delete, Select, PrintExpr, ReadMemory, NoRequest

\* A stopped event names a work-item and a line.
LEMMA StoppedNames ==
    ASSUME NEW m \in Events \cup Replies, m.tag = "stopped"
    PROVE  m.wi \in WorkItems /\ m.line \in Lines
BY DEF Events, Replies, Ready, Stopped, Ok, Located, Value, Data, Err

-----------------------------------------------------------------------------
(* Type correctness.                                                       *)

\* Type correctness at the start.
LEMMA InitTypeInv == Init => TypeInv
<1> SUFFICES ASSUME Init PROVE TypeInv
  OBVIOUS
<1>1. WireTypeOK
  <2>1. toPlugin \in Seq(Commands) /\ toDebugger \in Seq(Events \cup Replies)
    BY EmptySeq DEF Init, WireInit
  <2>2. QED
    BY <2>1 DEF Init, WireInit, WireTypeOK, HostGone
<1>2. PluginTypeOK
  <2>1. at \in [WorkItems -> MaybeLine] /\ last_line \in [WorkItems -> MaybeLine]
    BY DEF Init, PluginInit, NoLastLines, MaybeLine
  <2>2. depth \in [WorkItems -> Depths \cup {0}] /\ breakpoint_ids \in [Ids -> MaybeLine]
    BY DEF Init, PluginInit, MaybeLine
  <2>3. kernels \in 0 .. MaxKernels /\ instrs \in 0 .. MaxInstrs
    BY DEF Init, PluginInit
  <2>4. QED
    BY <2>1, <2>2, <2>3 DEF Init, PluginInit, PluginTypeOK, Modes
<1>3. BackendTypeOK
  <2>1. breakpoints \in [Ids -> MaybeLine]
    BY DEF Init, BackendInit, MaybeLine
  <2>2. next_id \in 1 .. MaxId + 1 /\ launches \in 0 .. MaxLaunches
    BY DEF Init, BackendInit
  <2>3. QED
    BY <2>1, <2>2 DEF Init, BackendInit, BackendTypeOK, MaybeLine, Purposes
<1>4. TodoRegistered
  BY DEF Init, BackendInit, TodoRegistered
<1>5. StepKnown
  BY DEF Init, BackendInit, StepKnown
<1>6. QED
  BY <1>1, <1>2, <1>3, <1>4, <1>5 DEF TypeInv, TypeOK

\* A stream that a line is added to.
LEMMA AppendTypes ==
    ASSUME NEW S, NEW s \in Seq(S), NEW e \in S
    PROVE  Append(s, e) \in Seq(S)
BY AppendProperties

\* A stream that its first line is read from.
LEMMA TailTypes ==
    ASSUME NEW S, NEW s \in Seq(S), s # <<>>
    PROVE  Tail(s) \in Seq(S) /\ Head(s) \in S
BY HeadTailProperties

\* What a side sends keeps the wire well typed.
LEMMA SendAndServeTypes ==
    ASSUME WireTypeOK, NEW m \in Events \cup Replies, SendAndServe(m),
           UNCHANGED <<dfd, listening>>
    PROVE  WireTypeOK'
<1>0. Append(toDebugger, m) \in Seq(Events \cup Replies) /\ <<>> \in Seq(Commands)
  BY AppendTypes, EmptySeq DEF WireTypeOK
<1>1. toDebugger' \in Seq(Events \cup Replies) /\ toPlugin' \in Seq(Commands)
  BY <1>0 DEF WireTypeOK, SendAndServe, ClosePluginEnd
<1>2. QED
  BY <1>1 DEF WireTypeOK, SendAndServe, ClosePluginEnd, HostGone

\* An answer of the plugin keeps the wire well typed.
LEMMA AnswerTypes ==
    ASSUME WireTypeOK, NEW m \in Events \cup Replies, toPlugin # <<>>, Answer(m),
           UNCHANGED <<dfd, listening>>, host = "serving"
    PROVE  WireTypeOK'
<1>0. /\ Append(toDebugger, m) \in Seq(Events \cup Replies)
      /\ Tail(toPlugin) \in Seq(Commands) /\ <<>> \in Seq(Commands)
  BY AppendTypes, TailTypes, EmptySeq DEF WireTypeOK
<1>1. toDebugger' \in Seq(Events \cup Replies) /\ toPlugin' \in Seq(Commands)
  BY <1>0 DEF WireTypeOK, Answer, ClosePluginEnd
<1>2. QED
  BY <1>1 DEF WireTypeOK, Answer, ClosePluginEnd, Caller, HostGone

\* So does a resumption it obeys.
LEMMA LeaveTypes ==
    ASSUME WireTypeOK, toPlugin # <<>>, Leave, UNCHANGED <<dfd, listening>>
    PROVE  WireTypeOK'
<1>1. toDebugger' \in Seq(Events \cup Replies) /\ toPlugin' \in Seq(Commands)
  BY EmptySeq, TailTypes DEF WireTypeOK, Leave
<1>2. QED
  BY <1>1 DEF WireTypeOK, Leave, Caller

\* So does a command of the debugger.
LEMMA SendCommandTypes ==
    ASSUME WireTypeOK, NEW m \in Commands, NEW next, NEW failed,
           SendCommand(m, next, failed), UNCHANGED <<pfd, host>>
    PROVE  WireTypeOK' /\ dpc' \in {next, failed, "dead"}
<1>0. /\ Append(toPlugin, m) \in Seq(Commands)
      /\ <<>> \in Seq(Events \cup Replies)
  BY AppendTypes, EmptySeq DEF WireTypeOK
<1>1. toDebugger' \in Seq(Events \cup Replies) /\ toPlugin' \in Seq(Commands)
  BY <1>0 DEF WireTypeOK, SendCommand, CloseDebuggerEnd
<1>2. dpc' \in {next, failed, "dead"}
  BY DEF SendCommand
<1>3. dfd' \in {"none", "open", "closed"} /\ listening' \in BOOLEAN
  BY DEF WireTypeOK, SendCommand, CloseDebuggerEnd
<1>4. QED
  BY <1>1, <1>2, <1>3 DEF WireTypeOK

\* What the plugin sends are lines of the protocol.
LEMMA ReplyLines ==
    /\ Ok \in Replies /\ Err \in Replies /\ Located \in Replies /\ Data \in Replies
    /\ \A wi \in WorkItems : Value(wi) \in Replies
    /\ Ready \in Events
    /\ \A wi \in WorkItems, line \in Lines : Stopped(wi, line) \in Events
BY DEF Replies, Events

-----------------------------------------------------------------------------
\* serve() keeps the plugin and the wire well typed.
LEMMA ServeTypes ==
    ASSUME WireTypeOK, PluginTypeOK, Serve
    PROVE  WireTypeOK' /\ PluginTypeOK'
<1>1. CASE HandleContinue
  <2>1. WireTypeOK'
    BY <1>1, LeaveTypes DEF HandleContinue, Receive
  <2>2. PluginTypeOK'
    BY <1>1 DEF HandleContinue, Receive, PluginTypeOK, Modes, debugVars, interpVars
  <2>3. QED
    BY <2>1, <2>2
<1>2. ASSUME NEW how \in StepKinds, HandleStep(how)
      PROVE  WireTypeOK' /\ PluginTypeOK'
  <2>1. WireTypeOK'
    BY <1>2, LeaveTypes, AnswerTypes, ReplyLines DEF HandleStep, Receive
  <2>2. CASE current = NoWI
    BY <1>2, <2>1, <2>2 DEF HandleStep, Receive, PluginTypeOK, debugVars, interpVars, runVars
  <2>3. CASE current # NoWI
    <3>1. depth[current] \in Depths \cup {0} /\ current \in WorkItems
      BY <2>3 DEF PluginTypeOK
    <3>2. mode' \in Modes /\ stepping_index' \in WorkItems \cup {NoWI}
          /\ stepping_depth' \in Depths \cup {0}
      BY <1>2, <2>3, <3>1 DEF HandleStep, Modes
    <3>3. QED
      BY <1>2, <2>1, <3>2 DEF HandleStep, Receive, PluginTypeOK, debugVars, interpVars
  <2>4. QED
    BY <2>2, <2>3
<1>3. ASSUME NEW id \in Ids, NEW line \in Lines, HandleBreak(id, line)
      PROVE  WireTypeOK' /\ PluginTypeOK'
  <2>1. WireTypeOK'
    BY <1>3, AnswerTypes, ReplyLines DEF HandleBreak, Receive
  <2>2. breakpoint_ids' \in [Ids -> MaybeLine] /\ breakpoint_lines' \in SUBSET Lines
    BY <1>3 DEF HandleBreak, PluginTypeOK, MaybeLine
  <2>3. QED
    BY <1>3, <2>1, <2>2 DEF HandleBreak, Receive, PluginTypeOK, runVars, interpVars
<1>4. ASSUME NEW id \in Ids, HandleDelete(id)
      PROVE  WireTypeOK' /\ PluginTypeOK'
  <2>1. WireTypeOK'
    BY <1>4, AnswerTypes, ReplyLines DEF HandleDelete, Receive
  <2>2. breakpoint_ids' \in [Ids -> MaybeLine] /\ breakpoint_lines' \in SUBSET Lines
    BY <1>4 DEF HandleDelete, PluginTypeOK, MaybeLine, debugVars
  <2>3. QED
    BY <1>4, <2>1, <2>2 DEF HandleDelete, Receive, PluginTypeOK, runVars, interpVars
<1>5. ASSUME NEW wi \in GlobalIds, HandleSelect(wi)
      PROVE  WireTypeOK' /\ PluginTypeOK'
  <2>1. WireTypeOK'
    BY <1>5, AnswerTypes, ReplyLines DEF HandleSelect, Receive
  <2>2. current' \in WorkItems \cup {NoWI}
    BY <1>5 DEF HandleSelect, PluginTypeOK, Reachable
  <2>3. QED
    BY <1>5, <2>1, <2>2 DEF HandleSelect, Receive, PluginTypeOK, debugVars, runVars, interpVars
<1>6. CASE HandlePrint
  <2>1. current # NoWI => Value(current) \in Events \cup Replies
    BY ReplyLines DEF PluginTypeOK
  <2>2. WireTypeOK'
    BY <1>6, <2>1, AnswerTypes, ReplyLines DEF HandlePrint, Receive
  <2>3. QED
    BY <1>6, <2>2 DEF HandlePrint, Receive, PluginTypeOK, debugVars, runVars, interpVars
<1>7. CASE HandleRead
  <2>1. WireTypeOK'
    BY <1>7, AnswerTypes, ReplyLines DEF HandleRead, Receive
  <2>2. QED
    BY <1>7, <2>1 DEF HandleRead, Receive, PluginTypeOK, debugVars, runVars, interpVars
<1>8. CASE ServeEof
  <2>1. WireTypeOK'
    BY <1>8, EmptySeq DEF ServeEof, ClosePluginEnd, WireTypeOK, Caller
  <2>2. QED
    BY <1>8, <2>1 DEF ServeEof, PluginTypeOK, pluginVars, debugVars, runVars, interpVars
<1>9. QED
  BY <1>1, <1>2, <1>3, <1>4, <1>5, <1>6, <1>7, <1>8 DEF Serve

\* So do the interpreter's callbacks and the host program.
LEMMA HostRunsTypes ==
    ASSUME WireTypeOK, PluginTypeOK, HostRuns
    PROVE  WireTypeOK' /\ PluginTypeOK'
<1>1. CASE Connect
  BY <1>1 DEF Connect, WireTypeOK, PluginTypeOK, pluginVars, debugVars, runVars, interpVars
<1>2. CASE SendReady
  <2>1. WireTypeOK'
    BY <1>2, SendAndServeTypes, ReplyLines DEF SendReady
  <2>2. QED
    BY <1>2, <2>1 DEF SendReady, PluginTypeOK, pluginVars, debugVars, runVars, interpVars
<1>3. CASE KernelBegin
  <2>1. WireTypeOK'
    BY <1>3 DEF KernelBegin, WireTypeOK, wireVars
  <2>2. at' \in [WorkItems -> MaybeLine] /\ last_line' \in [WorkItems -> MaybeLine]
        /\ depth' \in [WorkItems -> Depths \cup {0}]
    BY <1>3 DEF KernelBegin, NoLastLines, MaybeLine
  <2>3. kernels' \in 0 .. MaxKernels /\ instrs' \in 0 .. MaxInstrs
    BY <1>3 DEF KernelBegin, PluginTypeOK
  <2>4. QED
    BY <1>3, <2>1, <2>2, <2>3 DEF KernelBegin, PluginTypeOK, debugVars, runVars
<1>4. CASE KernelEnd
  <2>1. WireTypeOK'
    BY <1>4 DEF KernelEnd, WireTypeOK, wireVars
  <2>2. last_line' \in [WorkItems -> MaybeLine]
    BY <1>4 DEF KernelEnd, NoLastLines, MaybeLine
  <2>3. QED
    BY <1>4, <2>1, <2>2 DEF KernelEnd, PluginTypeOK, debugVars, runVars
<1>5. CASE ReleasePlugin
  <2>1. WireTypeOK'
    BY <1>5, EmptySeq DEF ReleasePlugin, WireTypeOK
  <2>2. QED
    BY <1>5, <2>1 DEF ReleasePlugin, PluginTypeOK, pluginVars, debugVars, runVars, interpVars
<1>6. CASE HostExit
  <2>1. WireTypeOK'
    BY <1>6, EmptySeq DEF HostExit, EndProcess, WireTypeOK, HostGone
  <2>2. QED
    BY <1>6, <2>1 DEF HostExit, EndProcess, PluginTypeOK, pluginVars, debugVars, runVars, interpVars
<1>7. ASSUME NEW wi \in WorkItems, Finish(wi)
      PROVE  WireTypeOK' /\ PluginTypeOK'
  BY <1>7 DEF Finish, WireTypeOK, PluginTypeOK, wireVars, debugVars, runVars
<1>8. ASSUME NEW wi \in WorkItems, NEW line \in MaybeLine, NEW d \in Depths, Execute(wi, line, d)
      PROVE  WireTypeOK' /\ PluginTypeOK'
  <2>1. WireTypeOK'
    <3>1. CASE Halts(wi, line, d)
      <4>1. Stopped(wi, line) \in Events \cup Replies
        BY <3>1, ReplyLines DEF Halts, MaybeLine
      <4>2. QED
        BY <1>8, <3>1, <4>1, SendAndServeTypes DEF Execute
    <3>2. CASE ~Halts(wi, line, d)
      BY <1>8, <3>2 DEF Execute, WireTypeOK
    <3>3. QED
      BY <3>1, <3>2
  <2>2. at' \in [WorkItems -> MaybeLine] /\ last_line' \in [WorkItems -> MaybeLine]
    BY <1>8 DEF Execute, PluginTypeOK
  <2>3. depth' \in [WorkItems -> Depths \cup {0}] /\ instrs' \in 0 .. MaxInstrs
    BY <1>8 DEF Execute, PluginTypeOK
  <2>4. QED
    BY <1>8, <2>1, <2>2, <2>3 DEF Execute, PluginTypeOK, debugVars, runVars
<1>9. QED
  BY <1>1, <1>2, <1>3, <1>4, <1>5, <1>6, <1>7, <1>8 DEF HostRuns

-----------------------------------------------------------------------------
\* request() keeps the backend's account of the call well typed.
LEMMA RequestTypes ==
    ASSUME WireTypeOK, BackendTypeOK, NEW m \in Requests, NEW why \in Purposes, NEW failed,
           Request(m, why, failed), UNCHANGED <<pfd, host>>
    PROVE  /\ WireTypeOK'
           /\ dpc' \in {"request", failed, "dead"}
           /\ pending' \in Requests \cup {NoRequest} /\ after' \in Purposes
           /\ after' = "launch" => why = "launch"
<1>1. m \in Commands
  BY RequestLines
<1>2. SendCommand(m, "request", failed)
  BY DEF Request
<1>3. WireTypeOK' /\ dpc' \in {"request", failed, "dead"}
  BY <1>1, <1>2, SendCommandTypes
<1>4. pending' \in Requests \cup {NoRequest} /\ after' \in {why, "client"}
  BY DEF Request
<1>5. QED
  BY <1>3, <1>4 DEF Purposes

\* resume_with() keeps the wire well typed, and clears halted.
LEMMA ResumeTypes ==
    ASSUME WireTypeOK, NEW m \in Commands, ResumeWith(m), UNCHANGED <<pfd, host>>
    PROVE  WireTypeOK' /\ dpc' \in {"resumed", "idle", "dead"} /\ halted' = FALSE
<1>1. SendCommand(m, "resumed", "idle") /\ halted' = FALSE
  BY DEF ResumeWith
<1>2. QED
  BY <1>1, SendCommandTypes

BackendInv == BackendTypeOK /\ TodoRegistered /\ StepKnown

\* A client's calls.
LEMMA ClientTypes ==
    ASSUME WireTypeOK, BackendInv, Client
    PROVE  WireTypeOK' /\ BackendInv'
<1> USE DEF BackendInv
<1>1. CASE Detach
  <2>1. WireTypeOK'
    BY <1>1, EmptySeq DEF Detach, BeginDetach, CloseDebuggerEnd, WireTypeOK
  <2>2. QED
    BY <1>1, <2>1 DEF Detach, BeginDetach, BackendTypeOK, TodoRegistered, StepKnown, Blocked,
                      bpVars, stopVars, callVars
<1>2. CASE resume
  <2>1. WireTypeOK' /\ dpc' \in {"resumed", "idle", "dead"} /\ halted' = FALSE
    BY <1>2, ResumeTypes, RequestLines DEF resume
  <2>2. QED
    BY <1>2, <2>1 DEF resume, BackendTypeOK, TodoRegistered, StepKnown, Blocked,
                      bpVars, stopVars, callVars
<1>3. CASE read_global_memory
  <2>1. WireTypeOK' /\ dpc' \in {"request", "idle", "dead"}
        /\ pending' \in Requests \cup {NoRequest} /\ after' \in Purposes /\ after' # "launch"
    BY <1>3, RequestTypes, RequestLines DEF read_global_memory, Ask, Purposes
  <2>2. QED
    BY <1>3, <2>1 DEF read_global_memory, Ask, BackendTypeOK, TodoRegistered, StepKnown, Blocked,
                      bpVars, stopVars
<1>4. CASE evaluate
  <2>1. WireTypeOK' /\ dpc' \in {"request", "idle", "dead"}
        /\ pending' \in Requests \cup {NoRequest} /\ after' \in Purposes /\ after' # "launch"
    BY <1>4, RequestTypes, RequestLines DEF evaluate, Ask, Purposes
  <2>2. QED
    BY <1>4, <2>1 DEF evaluate, Ask, BackendTypeOK, TodoRegistered, StepKnown, Blocked, bpVars, stopVars
<1>5. ASSUME NEW line \in Lines, set_breakpoint(line)
      PROVE  WireTypeOK' /\ BackendInv'
  <2>1. next_id \in Ids /\ next_id' \in 1 .. MaxId + 1
    BY <1>5 DEF set_breakpoint, BackendTypeOK, Ids
  <2>2. breakpoints' \in [Ids -> MaybeLine]
    BY <1>5 DEF set_breakpoint, BackendTypeOK, MaybeLine
  <2>3. CASE ~halted
    BY <1>5, <2>1, <2>2, <2>3 DEF set_breakpoint, Quietly, BackendTypeOK, WireTypeOK,
         TodoRegistered, StepKnown, stopVars, callVars, wireVars
  <2>4. CASE halted
    <3>1. Break(next_id, line) \in Requests
      BY <2>1, RequestLines
    <3>2. Request(Break(next_id, line), "client", "idle") /\ UNCHANGED <<todo, pfd, host>>
      BY <1>5, <2>4 DEF set_breakpoint, Ask
    <3>3. WireTypeOK' /\ dpc' \in {"request", "idle", "dead"}
          /\ pending' \in Requests \cup {NoRequest} /\ after' \in Purposes /\ after' # "launch"
      BY <3>1, <3>2, RequestTypes DEF Purposes
    <3>4. QED
      BY <1>5, <2>1, <2>2, <3>2, <3>3 DEF set_breakpoint, BackendTypeOK, TodoRegistered, StepKnown,
           Blocked, stopVars
  <2>5. QED
    BY <2>3, <2>4 DEF BackendTypeOK
<1>6. ASSUME NEW id \in Ids, remove_breakpoint(id)
      PROVE  WireTypeOK' /\ BackendInv'
  <2>1. breakpoints' \in [Ids -> MaybeLine]
    BY <1>6 DEF remove_breakpoint, BackendTypeOK, MaybeLine
  <2>2. CASE ~halted
    BY <1>6, <2>1, <2>2 DEF remove_breakpoint, Quietly, BackendTypeOK, WireTypeOK,
         TodoRegistered, StepKnown, stopVars, callVars, wireVars
  <2>3. CASE halted
    <3>1. Request(Delete(id), "client", "idle") /\ UNCHANGED <<todo, pfd, host>>
      BY <1>6, <2>3 DEF remove_breakpoint, Ask
    <3>2. WireTypeOK' /\ dpc' \in {"request", "idle", "dead"}
          /\ pending' \in Requests \cup {NoRequest} /\ after' \in Purposes /\ after' # "launch"
      BY <3>1, RequestTypes, RequestLines DEF Purposes
    <3>3. QED
      BY <1>6, <2>1, <3>1, <3>2 DEF remove_breakpoint, BackendTypeOK, TodoRegistered, StepKnown,
           Blocked, stopVars
  <2>4. QED
    BY <2>2, <2>3 DEF BackendTypeOK
<1>7. ASSUME NEW wi \in GlobalIds, NEW why \in {"client"} \cup StepKinds, select_work_item(wi, why)
      PROVE  WireTypeOK' /\ BackendInv'
  <2>1. WireTypeOK' /\ dpc' \in {"request", "idle", "dead"}
        /\ pending' \in Requests \cup {NoRequest} /\ after' \in Purposes /\ after' # "launch"
    BY <1>7, RequestTypes, RequestLines DEF select_work_item, Ask, Purposes, StepKinds
  <2>2. QED
    BY <1>7, <2>1 DEF select_work_item, Ask, BackendTypeOK, TodoRegistered, StepKnown, Blocked,
                      bpVars, stopVars
<1>8. QED
  BY <1>1, <1>2, <1>3, <1>4, <1>5, <1>6, <1>7 DEF Client, step

\* The steps a call takes by itself.
LEMMA ProgressTypes ==
    ASSUME WireTypeOK, BackendInv, Progress
    PROVE  WireTypeOK' /\ BackendInv'
<1> USE DEF BackendInv
<1>0. /\ <<>> \in Seq(Events \cup Replies)
      /\ toDebugger # <<>> =>
           Tail(toDebugger) \in Seq(Events \cup Replies) /\ Head(toDebugger) \in Events \cup Replies
  BY EmptySeq, TailTypes DEF WireTypeOK
<1>1. CASE Accept
  BY <1>1 DEF Accept, WireTypeOK, BackendTypeOK, TodoRegistered, StepKnown, Blocked,
              bpVars, stopVars, callVars
<1>2. CASE AcceptFails
  <2>1. WireTypeOK'
    BY <1>2, EmptySeq DEF AcceptFails, HostEndedFirst, PollFails,
      BeginDetach, CloseDebuggerEnd, WireTypeOK, Dead
  <2>2. QED
    BY <1>2, <2>1 DEF AcceptFails, HostEndedFirst, PollFails,
      BeginDetach, BackendTypeOK, TodoRegistered, StepKnown, Blocked,
                      bpVars, stopVars, callVars
<1>3. CASE Handshake
  <2>1. WireTypeOK'
    BY <1>3, <1>0
       DEF Handshake, Greeted, BeginDetach, CloseDebuggerEnd, WireTypeOK
  <2>2. todo' \in SUBSET Ids /\ (dpc' = "register" => todo' \subseteq Registered')
        /\ dpc' \in {"register", "waitpid"} /\ halted' \in BOOLEAN
    BY <1>3 DEF Handshake, BeginDetach, Registered, bpVars, BackendTypeOK
  <2>3. QED
    BY <1>3, <2>1, <2>2 DEF Handshake, BackendTypeOK, TodoRegistered, StepKnown, Blocked, bpVars, stopVars
<1>4. CASE Register
  <2>1. CASE todo = {} /\ dpc' = "idle"
             /\ UNCHANGED <<callVars, toPlugin, toDebugger, dfd, listening>>
    BY <1>4, <2>1 DEF Register, WireTypeOK, BackendTypeOK, TodoRegistered, StepKnown,
                      bpVars, stopVars, callVars
  <2>2. ASSUME NEW id \in todo, todo' = todo \ {id},
               Request(Break(id, breakpoints[id]), "launch", "register")
        PROVE  WireTypeOK' /\ BackendInv'
    <3>1. id \in Ids /\ breakpoints[id] \in Lines /\ todo \subseteq Registered
      BY <1>4, <2>2 DEF Register, TodoRegistered, StepKnown, Registered, BackendTypeOK, MaybeLine
    <3>2. Break(id, breakpoints[id]) \in Requests
      BY <3>1, RequestLines
    <3>3. UNCHANGED <<pfd, host>> /\ UNCHANGED <<halted, bpVars, stopVars, launches>>
      BY <1>4 DEF Register
    <3>4. WireTypeOK' /\ dpc' \in {"request", "register", "dead"}
          /\ pending' \in Requests \cup {NoRequest} /\ after' \in Purposes
      BY <2>2, <3>2, <3>3, RequestTypes DEF Purposes
    <3>5. todo' \subseteq Registered'
      BY <2>2, <3>1, <3>3 DEF Registered, bpVars
    <3>6. QED
      BY <2>2, <3>3, <3>4, <3>5 DEF BackendTypeOK, TodoRegistered, StepKnown, Blocked, bpVars, stopVars
  <2>3. QED
    BY <1>4, <2>1, <2>2 DEF Register
<1>5. CASE ReceiveReply
  <2>1. toDebugger' \in Seq(Events \cup Replies)
    BY <1>5, <1>0
       DEF ReceiveReply, BreakReply, SelectReply, OtherReply, TakeReply, WireTypeOK
  <2>2. WireTypeOK'
    BY <1>5, <2>1 DEF ReceiveReply, WireTypeOK
  <2>3. CASE BreakReply
    <3>1. breakpoints' \in [Ids -> MaybeLine] /\ after' = "client"
          /\ dpc' \in {"register", "idle"} /\ UNCHANGED stopped
      BY <2>3 DEF BreakReply, TakeReply, BackendTypeOK, MaybeLine
    <3>2. dpc' = "register" => breakpoints' = breakpoints /\ after = "launch" /\ dpc = "request"
      BY <2>3 DEF BreakReply, TakeReply, Answered
    <3>3. TodoRegistered'
      BY <1>5, <3>1, <3>2 DEF ReceiveReply, TodoRegistered, StepKnown, Registered
    <3>4. QED
      BY <1>5, <2>2, <3>1, <3>3 DEF ReceiveReply, BackendTypeOK, StepKnown, Purposes, Blocked
  <2>4. CASE SelectReply
    <3>1. pending.wi \in GlobalIds
      BY <2>4, SelectNames DEF SelectReply, BackendTypeOK
    <3>2. stopped' \in GlobalIds \cup {NoWI} /\ after' \in Purposes /\ UNCHANGED breakpoints
          /\ dpc' \in {"stepping", "idle"} /\ (dpc' = "stepping" => after' \in StepKinds)
      BY <2>4, <3>1 DEF SelectReply, TakeReply, BackendTypeOK, Purposes
    <3>3. QED
      BY <1>5, <2>2, <3>2 DEF ReceiveReply, BackendTypeOK, TodoRegistered, StepKnown, Blocked
  <2>5. CASE OtherReply
    BY <1>5, <2>2, <2>5 DEF OtherReply, TakeReply, ReceiveReply, BackendTypeOK,
                            TodoRegistered, StepKnown, Blocked
  <2>6. QED
    BY <1>5, <2>3, <2>4, <2>5 DEF ReceiveReply
<1>6. CASE SendStep
  <2>1. Step(after) \in Commands
    BY <1>6, RequestLines DEF SendStep, StepKnown
  <2>2. WireTypeOK' /\ dpc' \in {"resumed", "idle", "dead"} /\ halted' = FALSE
    BY <1>6, <2>1, ResumeTypes DEF SendStep
  <2>3. QED
    BY <1>6, <2>2 DEF SendStep, BackendTypeOK, TodoRegistered, StepKnown, Blocked, Purposes,
                      bpVars, stopVars
<1>7. CASE ReceiveEvent
  <2>1. toDebugger' \in Seq(Events \cup Replies)
    BY <1>7, <1>0 DEF ReceiveEvent, CloseDebuggerEnd, WireTypeOK
  <2>2. WireTypeOK'
    BY <1>7, <2>1 DEF ReceiveEvent, CloseDebuggerEnd, WireTypeOK
  <2>3. stopped' \in GlobalIds \cup {NoWI} /\ stop_line' \in MaybeLine /\ halted' \in BOOLEAN
    BY <1>7, <1>0, StoppedNames
       DEF ReceiveEvent, BackendTypeOK, stopVars, MaybeLine, WireTypeOK
  <2>4. QED
    BY <1>7, <2>2, <2>3 DEF ReceiveEvent, BackendTypeOK, TodoRegistered, StepKnown, Purposes, bpVars
<1>8. CASE Reap
  BY <1>8 DEF Reap, WireTypeOK, BackendTypeOK, TodoRegistered, StepKnown, wireVars,
              bpVars, stopVars, callVars
<1>9. QED
  BY <1>1, <1>2, <1>3, <1>4, <1>5, <1>6, <1>7, <1>8 DEF Progress

-----------------------------------------------------------------------------
\* A launch keeps every type.
LEMMA LaunchTypes ==
    ASSUME WireTypeOK, BackendInv, LaunchHost
    PROVE  WireTypeOK' /\ PluginTypeOK' /\ BackendInv'
<1>1. WireTypeOK'
  BY EmptySeq DEF LaunchHost, Launch, Exec, WireTypeOK
<1>2. PluginTypeOK'
  <2>1. at' \in [WorkItems -> MaybeLine] /\ last_line' \in [WorkItems -> MaybeLine]
    BY DEF LaunchHost, Exec, NoLastLines, MaybeLine
  <2>2. depth' \in [WorkItems -> Depths \cup {0}] /\ breakpoint_ids' \in [Ids -> MaybeLine]
    BY DEF LaunchHost, Exec, MaybeLine
  <2>3. kernels' \in 0 .. MaxKernels /\ instrs' \in 0 .. MaxInstrs
    BY DEF LaunchHost, Exec
  <2>4. QED
    BY <2>1, <2>2, <2>3 DEF LaunchHost, Exec, PluginTypeOK, Modes
<1>3. BackendInv'
  BY DEF LaunchHost, Launch, BackendInv, BackendTypeOK, TodoRegistered, StepKnown, Blocked,
         bpVars, stopVars, callVars
<1>4. QED
  BY <1>1, <1>2, <1>3

\* So does the death of a process.
LEMMA KilledTypes ==
    ASSUME TypeInv, \/ HostKilled /\ UNCHANGED backendVars
                    \/ DebuggerKilled /\ UNCHANGED pluginVars
    PROVE  TypeInv'
<1>1. CASE HostKilled /\ UNCHANGED backendVars
  <2>1. WireTypeOK'
    BY <1>1, EmptySeq DEF HostKilled, EndProcess, TypeInv, TypeOK, WireTypeOK, HostGone
  <2>2. PluginTypeOK'
    BY <1>1 DEF HostKilled, EndProcess, TypeInv, TypeOK, PluginTypeOK,
                pluginVars, debugVars, runVars, interpVars
  <2>3. BackendTypeOK' /\ TodoRegistered' /\ StepKnown'
    BY <1>1 DEF TypeInv, TypeOK, BackendTypeOK, TodoRegistered, StepKnown, Registered,
                backendVars, bpVars, stopVars, callVars
  <2>4. QED
    BY <2>1, <2>2, <2>3 DEF TypeInv, TypeOK
<1>2. CASE DebuggerKilled /\ UNCHANGED pluginVars
  <2>1. WireTypeOK'
    BY <1>2, EmptySeq DEF DebuggerKilled, CloseDebuggerEnd, TypeInv, TypeOK, WireTypeOK
  <2>2. PluginTypeOK'
    BY <1>2 DEF TypeInv, TypeOK, PluginTypeOK, pluginVars, debugVars, runVars, interpVars
  <2>3. BackendTypeOK' /\ TodoRegistered' /\ StepKnown'
    BY <1>2 DEF DebuggerKilled, TypeInv, TypeOK, BackendTypeOK, TodoRegistered, StepKnown,
                bpVars, stopVars, callVars
  <2>4. QED
    BY <2>1, <2>2, <2>3 DEF TypeInv, TypeOK
<1>3. QED
  BY <1>1, <1>2

\* Every step keeps the type invariant.
LEMMA NextTypeInv == TypeInv /\ [Next]_vars => TypeInv'
<1> SUFFICES ASSUME TypeInv, [Next]_vars PROVE TypeInv'
  OBVIOUS
<1>0. WireTypeOK /\ PluginTypeOK /\ BackendInv
  BY DEF TypeInv, TypeOK, BackendInv
<1>1. CASE LaunchHost
  BY <1>0, <1>1, LaunchTypes DEF TypeInv, TypeOK, BackendInv
<1>2. CASE (Client \/ Progress) /\ UNCHANGED pluginVars
  <2>1. WireTypeOK' /\ BackendInv'
    BY <1>0, <1>2, ClientTypes, ProgressTypes
  <2>2. PluginTypeOK'
    BY <1>0, <1>2 DEF PluginTypeOK, pluginVars, debugVars, runVars, interpVars
  <2>3. QED
    BY <2>1, <2>2 DEF TypeInv, TypeOK, BackendInv
<1>3. CASE (Serve \/ HostRuns) /\ UNCHANGED backendVars
  <2>1. WireTypeOK' /\ PluginTypeOK'
    BY <1>0, <1>3, ServeTypes, HostRunsTypes
  <2>2. BackendInv'
    BY <1>0, <1>3 DEF BackendInv, BackendTypeOK, TodoRegistered, StepKnown, Registered,
                      backendVars, bpVars, stopVars, callVars
  <2>3. QED
    BY <2>1, <2>2 DEF TypeInv, TypeOK, BackendInv
<1>4. CASE HostKilled /\ UNCHANGED backendVars
  BY <1>4, KilledTypes
<1>5. CASE DebuggerKilled /\ UNCHANGED pluginVars
  BY <1>5, KilledTypes
<1>6. CASE UNCHANGED vars
  BY <1>0, <1>6 DEF TypeInv, TypeOK, WireTypeOK, PluginTypeOK, BackendInv, BackendTypeOK,
     TodoRegistered, StepKnown, Registered, vars, wireVars, pluginVars, debugVars, runVars,
     interpVars, backendVars, bpVars, stopVars, callVars
<1>7. QED
  BY <1>1, <1>2, <1>3, <1>4, <1>5, <1>6 DEF Next

\* Type correctness, and what launch() and the steps rely on.
THEOREM TypeInvariant == Spec => []TypeInv
BY InitTypeInv, NextTypeInv, PTL DEF Spec

\* TypeOK: every variable of both processes and of the wire has its type.
THEOREM TypeCorrect == Spec => []TypeOK
<1>1. TypeInv => TypeOK
  BY DEF TypeInv
<1>2. QED
  BY <1>1, TypeInvariant, PTL

-----------------------------------------------------------------------------
(***************************************************************************)
(* The exchanges of the link.  Each side knows, from what it waits for,    *)
(* where the other one is and what is under way between them: the          *)
(* invariant that everything the two processes agree on rests on.          *)
(***************************************************************************)

(* The invariant, in three layers. *)

(***************************************************************************)
(* The two ends of the socket: a host that has not connected has sent      *)
(* nothing, a debugger that awaits one listens, and only a kernel that     *)
(* executes has a current work-item.                                       *)
(***************************************************************************)
EndsInv ==
    /\ host = "starting" => pfd = "none"
    /\ host \in {"connected", "serving"} => pfd = "open"
    /\ pfd = "open" => host \in {"connected", "serving", "between", "kernel"}
    /\ pfd = "none" => toPlugin = <<>> /\ toDebugger = <<>> /\ (listening => dpc = "accept")
    /\ dpc = "accept" => dfd = "none" /\ listening
    /\ dfd = "none" => dpc = "accept" \/ (dpc = "idle" /\ host = "none" /\ pfd = "none")
    /\ dfd = "open" => pfd # "none" /\ dpc \notin {"accept", "waitpid", "dead"}
    /\ dfd = "closed" => dpc \in {"idle", "waitpid", "dead"}
    /\ host = "kernel" => invocation
    /\ host \in {"starting", "connected", "between"} => ~invocation
    /\ ~invocation => current = NoWI

\* A call that asks for nothing further is a client's.
PurposeInv ==
    /\ dpc \notin {"request", "stepping", "resumed", "dead"} => after = "client"
    /\ dpc = "request" =>
         /\ pending.verb = "break" => after \in {"client", "launch"}
         /\ pending.verb = "select" => after \in {"client"} \cup StepKinds
         /\ pending.verb \in {"delete", "print", "read"} => after = "client"

\* Before the handshake.
Greeting ==
    /\ toPlugin = <<>> /\ ~invocation
    /\ \/ host = "connected" /\ toDebugger = <<>>
       \/ host = "serving" /\ toDebugger = <<Ready>>

\* The plugin waits for a command.
Waiting == host = "serving" /\ toPlugin = <<>> /\ toDebugger = <<>> /\ halted

\* A request is under way, or its reply; a select is answered with a place in
\* a work-item, or refused.
Asking ==
    /\ host = "serving" /\ halted /\ pending \in Requests
    /\ \/ toPlugin = <<pending>> /\ toDebugger = <<>>
       \/ /\ toPlugin = <<>>
          /\ \E m \in Replies :
               /\ toDebugger = <<m>>
               /\ pending.verb = "select" => m \in {Located, Err}
               /\ m = Located => pending.verb = "select" /\ current # NoWI

\* A resumption is under way, or the kernel runs, or it has stopped.
Resumed ==
    /\ ~halted
    /\ \/ /\ host = "serving" /\ toDebugger = <<>>
          /\ \/ toPlugin = <<Continue>>
             \/ toPlugin = <<Step(after)>> /\ after \in StepKinds /\ current # NoWI
       \/ host \in {"kernel", "between"} /\ toPlugin = <<>> /\ toDebugger = <<>>
       \/ /\ host = "serving" /\ toPlugin = <<>>
          /\ \E wi \in WorkItems, ln \in Lines : toDebugger = <<Stopped(wi, ln)>>

PhaseInv ==
    /\ PluginEnd =>
         /\ dpc \in {"accept", "handshake"} => Greeting
         /\ dpc \in {"register", "idle", "stepping"} /\ dfd = "open" => Waiting
         /\ dpc = "stepping" => current # NoWI
         /\ dpc = "request" => Asking
         /\ dpc = "resumed" => Resumed
    /\ dpc = "resumed" =>
         toDebugger = <<>> \/ \E wi \in WorkItems, ln \in Lines : toDebugger = <<Stopped(wi, ln)>>

-----------------------------------------------------------------------------
(* The ends of the socket.                                                 *)

\* A command that is sent, or fails to be, leaves the ends as they must be.
LEMMA SendEnds ==
    ASSUME EndsInv, NEW m, NEW next, NEW failed, SendCommand(m, next, failed),
           next \in {"request", "resumed"}, failed \in {"idle", "register"},
           dpc \in {"idle", "register", "stepping"}, dpc = "register" <=> failed = "register",
           UNCHANGED <<pfd, host, invocation, current>>
    PROVE  EndsInv'
BY DEF EndsInv, SendCommand, CloseDebuggerEnd, PluginEnd

\* So does an answer of the plugin, with the channel it may close.
LEMMA AnswerEnds ==
    ASSUME EndsInv, NEW m, host = "serving", Answer(m), UNCHANGED <<dfd, listening, dpc, invocation>>,
           ~invocation => current' = NoWI
    PROVE  EndsInv'
BY DEF EndsInv, Answer, ClosePluginEnd, Caller, HostGone

\* So does a line sent before serve() is entered.
LEMMA SendAndServeEnds ==
    ASSUME EndsInv, NEW m, pfd = "open", SendAndServe(m), UNCHANGED <<dfd, listening, dpc, invocation>>,
           ~invocation => current' = NoWI
    PROVE  EndsInv'
BY DEF EndsInv, SendAndServe, ClosePluginEnd

\* serve() keeps the ends of the socket.
LEMMA EndsServe ==
    ASSUME EndsInv, Serve, UNCHANGED backendVars PROVE EndsInv'
<1> USE DEF Receive, interpVars, backendVars
<1>1. CASE HandleContinue \/ ServeEof
  BY <1>1 DEF HandleContinue, ServeEof, Leave, Caller, ClosePluginEnd, EndsInv, pluginVars
<1>2. ASSUME NEW how \in StepKinds, HandleStep(how) PROVE EndsInv'
  <2>1. CASE current = NoWI /\ Answer(Err)
    BY <1>2, <2>1, AnswerEnds DEF HandleStep, EndsInv
  <2>2. CASE Leave
    BY <1>2, <2>2 DEF HandleStep, Leave, Caller, EndsInv
  <2> QED BY <1>2, <2>1, <2>2 DEF HandleStep
<1>3. ASSUME NEW id \in Ids, NEW line \in Lines, HandleBreak(id, line) PROVE EndsInv'
  BY <1>3, AnswerEnds DEF HandleBreak, EndsInv
<1>4. ASSUME NEW id \in Ids, HandleDelete(id) PROVE EndsInv'
  BY <1>4, AnswerEnds DEF HandleDelete, EndsInv
<1>5. ASSUME NEW wi \in GlobalIds, HandleSelect(wi) PROVE EndsInv'
  BY <1>5, AnswerEnds DEF HandleSelect, EndsInv, Reachable
<1>6. CASE HandlePrint \/ HandleRead
  BY <1>6, AnswerEnds DEF HandlePrint, HandleRead, EndsInv
<1> QED BY <1>1, <1>2, <1>3, <1>4, <1>5, <1>6 DEF Serve

\* The host and the interpreter keep the ends of the socket.
LEMMA EndsHostRuns ==
    ASSUME EndsInv, HostRuns, UNCHANGED backendVars PROVE EndsInv'
<1> USE DEF interpVars, backendVars, pluginVars
<1>1. CASE Connect
  BY <1>1 DEF Connect, EndsInv
<1>2. CASE SendReady
  BY <1>2, SendAndServeEnds DEF SendReady, EndsInv
<1>3. CASE KernelBegin \/ KernelEnd
  BY <1>3 DEF KernelBegin, KernelEnd, EndsInv, wireVars
<1>4. CASE ReleasePlugin \/ HostExit
  BY <1>4 DEF ReleasePlugin, HostExit, EndProcess, PluginEnd, EndsInv
<1>5. ASSUME NEW wi \in WorkItems, Finish(wi) PROVE EndsInv'
  BY <1>5 DEF Finish, EndsInv, wireVars
<1>6. ASSUME NEW wi \in WorkItems, NEW line \in MaybeLine, NEW d \in Depths, Execute(wi, line, d)
      PROVE  EndsInv'
  <2>1. CASE Halts(wi, line, d)
    BY <1>6, <2>1, SendAndServeEnds DEF Execute, Halts, PluginEnd, EndsInv
  <2>2. CASE ~Halts(wi, line, d)
    BY <1>6, <2>2 DEF Execute, EndsInv
  <2> QED BY <2>1, <2>2
<1> QED BY <1>1, <1>2, <1>3, <1>4, <1>5, <1>6 DEF HostRuns

\* A call of the client keeps the ends of the socket.
LEMMA EndsClient ==
    ASSUME EndsInv, Client, UNCHANGED pluginVars PROVE EndsInv'
<1> USE DEF interpVars, pluginVars, Ask, Request
<1>1. CASE Detach
  BY <1>1 DEF Detach, BeginDetach, CloseDebuggerEnd, EndsInv
<1>2. CASE resume
  BY <1>2, SendEnds DEF resume, ResumeWith
<1>3. CASE read_global_memory \/ evaluate
  BY <1>3, SendEnds DEF read_global_memory, evaluate
<1>4. ASSUME NEW line \in Lines, set_breakpoint(line) PROVE EndsInv'
  <2>1. CASE Quietly
    BY <1>4, <2>1 DEF Quietly, wireVars, EndsInv
  <2>2. CASE Ask(Break(next_id, line), "client")
    BY <1>4, <2>2, SendEnds DEF set_breakpoint
  <2> QED BY <1>4, <2>1, <2>2 DEF set_breakpoint
<1>5. ASSUME NEW id \in Ids, remove_breakpoint(id) PROVE EndsInv'
  <2>1. CASE Quietly
    BY <1>5, <2>1 DEF Quietly, wireVars, EndsInv
  <2>2. CASE Ask(Delete(id), "client")
    BY <1>5, <2>2, SendEnds DEF remove_breakpoint
  <2> QED BY <1>5, <2>1, <2>2 DEF remove_breakpoint
<1>6. ASSUME NEW wi \in GlobalIds, NEW why, select_work_item(wi, why) PROVE EndsInv'
  BY <1>6, SendEnds DEF select_work_item
<1> QED BY <1>1, <1>2, <1>3, <1>4, <1>5, <1>6 DEF Client, step

\* The steps of a call keep the ends of the socket.
LEMMA EndsProgress ==
    ASSUME EndsInv, Progress, UNCHANGED pluginVars PROVE EndsInv'
<1> USE DEF interpVars, pluginVars
<1>1. CASE Accept
  BY <1>1 DEF Accept, EndsInv
<1>2. CASE AcceptFails
  BY <1>2 DEF AcceptFails, HostEndedFirst, PollFails,
    BeginDetach, CloseDebuggerEnd, Dead, HostGone, EndsInv
<1>3. CASE Handshake
  BY <1>3 DEF Handshake, Greeted, BeginDetach, CloseDebuggerEnd, EndsInv
<1>4. CASE Register
  <2>1. CASE dpc' = "idle" /\ UNCHANGED <<callVars, toPlugin, toDebugger, dfd, listening>>
    BY <1>4, <2>1 DEF Register, EndsInv
  <2>2. ASSUME NEW id, Request(Break(id, breakpoints[id]), "launch", "register") PROVE EndsInv'
    BY <1>4, <2>2, SendEnds DEF Register, Request
  <2> QED BY <1>4, <2>1, <2>2 DEF Register
<1>5. CASE ReceiveReply
  <2>1. dpc = "request" /\ dpc' \in {"idle", "register", "stepping"}
    BY <1>5 DEF ReceiveReply, BreakReply, SelectReply, OtherReply, Answered, TakeReply
  <2>2. toDebugger = <<>> => toDebugger' = <<>>
    BY <1>5 DEF ReceiveReply, BreakReply, SelectReply, OtherReply, TakeReply
  <2> QED BY <1>5, <2>1, <2>2 DEF ReceiveReply, EndsInv
<1>6. CASE SendStep
  BY <1>6, SendEnds DEF SendStep, ResumeWith
<1>7. CASE ReceiveEvent
  BY <1>7 DEF ReceiveEvent, CloseDebuggerEnd, EndsInv
<1>8. CASE Reap
  BY <1>8 DEF Reap, Dead, HostGone, wireVars, EndsInv
<1> QED BY <1>1, <1>2, <1>3, <1>4, <1>5, <1>6, <1>7, <1>8 DEF Progress

\* So do a launch, the death of a process and a stutter.
LEMMA EndsOthers ==
    ASSUME EndsInv, LaunchHost \/ (HostKilled /\ UNCHANGED backendVars)
                               \/ (DebuggerKilled /\ UNCHANGED pluginVars) \/ UNCHANGED vars
    PROVE  EndsInv'
<1>1. CASE LaunchHost
  BY <1>1 DEF LaunchHost, Launch, Exec, EndsInv
<1>2. CASE HostKilled /\ UNCHANGED backendVars
  BY <1>2 DEF HostKilled, EndProcess, PluginEnd, EndsInv, backendVars, pluginVars, interpVars, HostGone
<1>3. CASE DebuggerKilled /\ UNCHANGED pluginVars
  BY <1>3 DEF DebuggerKilled, CloseDebuggerEnd, EndsInv, pluginVars, interpVars
<1>4. CASE UNCHANGED vars
  BY <1>4 DEF vars, wireVars, pluginVars, interpVars, backendVars, EndsInv
<1> QED BY <1>1, <1>2, <1>3, <1>4

\* The ends of the socket are related at all times.
LEMMA EndsInvariant == Spec => []EndsInv
<1>1. Init => EndsInv
  BY DEF Init, WireInit, BackendInit, PluginInit, EndsInv
<1>2. EndsInv /\ [Next]_vars => EndsInv'
  BY EndsServe, EndsHostRuns, EndsClient, EndsProgress, EndsOthers DEF Next
<1> QED BY <1>1, <1>2, PTL DEF Spec

-----------------------------------------------------------------------------
(* Lines of the protocol are told apart.                                   *)

\* Requests and resumptions are different lines.
LEMMA Verbs ==
    /\ \A m \in Requests : m.verb \in {"break", "delete", "select", "print", "read"}
    /\ \A m \in Requests : m \notin Resumptions
    /\ \A how \in StepKinds : Step(how) # Continue
    /\ Continue \in Resumptions /\ \A how \in StepKinds : Step(how) \in Resumptions
<1>1. \A m \in Requests : m.verb \in {"break", "delete", "select", "print", "read"}
  BY DEF Requests, Break, Delete, Select, PrintExpr, ReadMemory
<1>2. \A m \in Resumptions : m.verb \in {"continue", "step"}
  BY DEF Resumptions, Continue, Step
<1>3. \A how \in StepKinds : Step(how).verb = "step" /\ Continue.verb = "continue"
  BY DEF Continue, Step
<1> QED BY <1>1, <1>2, <1>3 DEF Resumptions

\* Replies and events are different lines, and a stop says where it is.
LEMMA Tags ==
    /\ Located # Ok /\ Located # Err /\ Located # Data /\ Ok # Err
    /\ \A wi \in WorkItems : Value(wi) # Located
    /\ \A wi \in WorkItems, ln \in Lines :
         Stopped(wi, ln).tag = "stopped" /\ Stopped(wi, ln).wi = wi /\ Stopped(wi, ln).line = ln
    /\ Ready.tag = "ready"
BY DEF Located, Ok, Err, Data, Value, Stopped, Ready

\* A stream of one line.
LEMMA OneLine ==
    ASSUME NEW m
    PROVE  /\ Append(<<>>, m) = <<m>> /\ Tail(<<m>>) = <<>> /\ Head(<<m>>) = m /\ <<m>> # <<>>
           /\ \A n : <<m>> = <<n>> => m = n
OBVIOUS

-----------------------------------------------------------------------------
(* What a call is for.                                                     *)

\* What a request is for fits the request.
LEMMA PurposeInvariant == Spec => []PurposeInv
<1>1. Init => PurposeInv
  BY DEF Init, BackendInit, PurposeInv
<1>2. TypeInv /\ EndsInv /\ PurposeInv /\ [Next]_vars => PurposeInv'
  <2> SUFFICES ASSUME TypeInv, EndsInv, PurposeInv, [Next]_vars PROVE PurposeInv'
    OBVIOUS
  <2> USE DEF callVars, bpVars, stopVars
  <2>0. ASSUME NEW m \in Requests, NEW why, NEW failed \in {"idle", "register"},
               Request(m, why, failed), m.verb = "break" => why \in {"client", "launch"},
               m.verb = "select" => why \in {"client"} \cup StepKinds,
               m.verb \in {"delete", "print", "read"} => why = "client"
        PROVE  PurposeInv'
    BY <2>0 DEF Request, SendCommand, PurposeInv
  <2>1. CASE UNCHANGED backendVars
    BY <2>1 DEF backendVars, PurposeInv
  <2>2. CASE Client
    <3>1. CASE Detach
      BY <3>1 DEF Detach, BeginDetach, PurposeInv
    <3>2. CASE resume
      BY <3>2 DEF resume, ResumeWith, SendCommand, PurposeInv
    <3>3. CASE read_global_memory \/ evaluate
      BY <3>3, <2>0, RequestLines DEF read_global_memory, evaluate, Ask, ReadMemory, PrintExpr
    <3>4. ASSUME NEW line \in Lines, set_breakpoint(line) PROVE PurposeInv'
      <4>1. next_id \in Ids
        BY <3>4 DEF set_breakpoint, Ids, TypeInv, TypeOK, BackendTypeOK
      <4>2. Break(next_id, line) \in Requests /\ Break(next_id, line).verb = "break"
        BY <4>1, RequestLines DEF Break
      <4>3. CASE Quietly
        BY <3>4, <4>3 DEF Quietly, PurposeInv
      <4>4. CASE Ask(Break(next_id, line), "client")
        BY <4>4, <4>2, <2>0 DEF Ask
      <4> QED BY <3>4, <4>3, <4>4 DEF set_breakpoint
    <3>5. ASSUME NEW id \in Ids, remove_breakpoint(id) PROVE PurposeInv'
      <4>1. Delete(id) \in Requests /\ Delete(id).verb = "delete"
        BY RequestLines DEF Delete
      <4>2. CASE Quietly
        BY <3>5, <4>2 DEF Quietly, PurposeInv
      <4>3. CASE Ask(Delete(id), "client")
        BY <4>3, <4>1, <2>0 DEF Ask
      <4> QED BY <3>5, <4>2, <4>3 DEF remove_breakpoint
    <3>6. ASSUME NEW wi \in GlobalIds, NEW why \in {"client"} \cup StepKinds,
                 select_work_item(wi, why)
          PROVE  PurposeInv'
      <4>1. Select(wi) \in Requests /\ Select(wi).verb = "select"
        BY RequestLines DEF Select
      <4> QED BY <3>6, <4>1, <2>0 DEF select_work_item, Ask
    <3> QED BY <2>2, <3>1, <3>2, <3>3, <3>4, <3>5, <3>6 DEF Client, step
  <2>3. CASE Progress
    <3>1. CASE Accept \/ AcceptFails \/ Handshake \/ Reap
      BY <3>1 DEF Accept, AcceptFails, HostEndedFirst, PollFails,
        Handshake, Reap, BeginDetach, PurposeInv
    <3>2. CASE Register
      <4>1. CASE dpc' = "idle" /\ UNCHANGED callVars
        BY <3>2, <4>1 DEF Register, PurposeInv
      <4>2. ASSUME NEW id \in todo, Request(Break(id, breakpoints[id]), "launch", "register")
            PROVE  PurposeInv'
        <5>1. id \in Ids /\ breakpoints[id] \in Lines
          BY <3>2, <4>2 DEF Register, TypeInv, TodoRegistered, Registered, TypeOK, BackendTypeOK, MaybeLine
        <5>2. /\ Break(id, breakpoints[id]) \in Requests
              /\ Break(id, breakpoints[id]).verb = "break"
          BY <5>1, RequestLines DEF Break
        <5> QED BY <4>2, <5>2, <2>0
      <4> QED BY <3>2, <4>1, <4>2 DEF Register
    <3>3. CASE ReceiveReply
      BY <3>3 DEF ReceiveReply, BreakReply, SelectReply, OtherReply, TakeReply, Answered, PurposeInv
    <3>4. CASE SendStep \/ ReceiveEvent
      BY <3>4 DEF SendStep, ResumeWith, SendCommand, ReceiveEvent, PurposeInv
    <3> QED BY <2>3, <3>1, <3>2, <3>3, <3>4 DEF Progress
  <2>4. CASE LaunchHost \/ DebuggerKilled
    BY <2>4 DEF LaunchHost, Launch, DebuggerKilled, PurposeInv
  <2> QED BY <2>1, <2>2, <2>3, <2>4 DEF Next, vars
<1> QED BY <1>1, <1>2, TypeInvariant, EndsInvariant, PTL DEF Spec

-----------------------------------------------------------------------------
(* The phases of an exchange.                                              *)

Known == TypeInv /\ EndsInv /\ PurposeInv

\* Whoever is read from has only one line to read.
LEMMA CommandUnderWay ==
    ASSUME Known, PhaseInv, NEW m, Receive(m)
    PROVE  /\ pfd = "open"
           /\ \/ dfd = "closed"
              \/ dfd = "open" /\ dpc = "request" /\ m = pending
              \/ /\ dfd = "open" /\ dpc = "resumed"
                 /\ m = Continue \/ (m = Step(after) /\ after \in StepKinds /\ current # NoWI)
           /\ dfd = "open" => toPlugin = <<m>> /\ toDebugger = <<>>
<1> USE DEF Known
<1>0. dfd \in {"none", "open", "closed"} /\ dpc \in {"idle", "dead"} \cup Blocked
  BY DEF TypeInv, TypeOK, WireTypeOK, BackendTypeOK
<1>1. host = "serving" /\ toPlugin # <<>> /\ m = Head(toPlugin) /\ pfd = "open" /\ PluginEnd
  BY DEF Receive, EndsInv, PluginEnd
<1>2. dfd = "closed" \/ dfd = "open"
  BY <1>0, <1>1 DEF EndsInv, PhaseInv, Greeting
<1>3. CASE dfd = "open" /\ dpc = "request"
  BY <1>1, <1>3, OneLine DEF PhaseInv, Asking
<1>4. CASE dfd = "open" /\ dpc = "resumed"
  BY <1>1, <1>4, OneLine DEF PhaseInv, Resumed
<1>5. dfd = "open" => dpc \in {"request", "resumed"}
  BY <1>0, <1>1 DEF EndsInv, PhaseInv, Waiting, Greeting, Blocked
<1> QED BY <1>1, <1>2, <1>3, <1>4, <1>5

\* A plugin that reads the end of the stream has lost its debugger.
LEMMA EofUnderWay ==
    ASSUME Known, host = "serving", PluginEof PROVE dfd = "closed"
<1>1. dfd \in {"none", "open", "closed"}
  BY DEF Known, TypeInv, TypeOK, WireTypeOK
<1> QED BY <1>1 DEF Known, EndsInv, PluginEof, DebuggerEnd

\* A debugger between select and step has an end that is neither new nor closed.
LEMMA EndsOpen == EndsInv => (dpc = "stepping" => dfd \notin {"none", "closed"})
BY DEF EndsInv

\* A debugger that has closed its end is in no phase.
LEMMA ClosedPhases ==
    ASSUME EndsInv, dfd = "closed", UNCHANGED <<dfd, dpc>> PROVE PhaseInv'
BY DEF EndsInv, PhaseInv

\* A reply of the plugin is the reply that is awaited.
LEMMA AnswerPhases ==
    ASSUME Known, PhaseInv, NEW m \in Requests, NEW reply \in Replies,
           Receive(m), Answer(reply), UNCHANGED backendVars,
           m.verb = "select" => reply \in {Located, Err},
           reply = Located => m.verb = "select" /\ current' # NoWI
    PROVE  PhaseInv'
<1> USE DEF Receive, backendVars, callVars
<1>1. CASE dfd = "closed"
  BY <1>1, ClosedPhases DEF Known
<1>2. CASE dfd = "open"
  <2>1. dpc = "request" /\ m = pending /\ toPlugin = <<m>> /\ toDebugger = <<>>
    BY <1>2, CommandUnderWay, Verbs
  <2>2. DebuggerEnd /\ PluginEnd
    BY <1>2, CommandUnderWay DEF DebuggerEnd, PluginEnd
  <2>3. /\ toDebugger' = <<reply>> /\ toPlugin' = <<>> /\ host' = "serving"
        /\ UNCHANGED <<dpc, dfd, pfd, halted, pending, after>>
    BY <2>1, <2>2, OneLine DEF Answer
  <2>4. Asking'
    BY <2>1, <2>2, <2>3 DEF Asking, PhaseInv
  <2> QED BY <2>1, <2>3, <2>4 DEF PhaseInv
<1> QED BY <1>1, <1>2, CommandUnderWay

\* serve() follows the phases of an exchange.
LEMMA PhasesServe ==
    ASSUME Known, PhaseInv, Serve, UNCHANGED backendVars PROVE PhaseInv'
<1> USE DEF Known
<1>0. WireTypeOK /\ PluginTypeOK /\ UNCHANGED <<dpc, halted, after, pending>>
  BY DEF TypeInv, TypeOK, backendVars, callVars
<1>1. CASE HandleContinue
  <2>1. CASE dfd = "closed"
    BY <1>0, <1>1, <2>1, ClosedPhases DEF HandleContinue, Receive
  <2>2. CASE dfd = "open" /\ dpc = "resumed"
    <3>1. Tail(<<Continue>>) = <<>>
      BY OneLine
    <3>2. toPlugin' = <<>> /\ toDebugger' = <<>> /\ host' \in {"kernel", "between"} /\ ~halted
      BY <1>1, <2>2, <3>1, CommandUnderWay
         DEF HandleContinue, Leave, Caller, PhaseInv, Resumed, PluginEnd
    <3> QED BY <1>0, <2>2, <3>2 DEF PhaseInv, Resumed
  <2>3. pending \in Requests => pending # Continue
    BY Verbs
  <2>4. dpc = "request" /\ pfd = "open" => pending \in Requests
    BY DEF PhaseInv, Asking, PluginEnd
  <2> QED BY <1>1, <2>1, <2>2, <2>3, <2>4, CommandUnderWay DEF HandleContinue
<1>2. ASSUME NEW how \in StepKinds, HandleStep(how) PROVE PhaseInv'
  <2>1. CASE dfd = "closed"
    BY <1>0, <1>2, <2>1, ClosedPhases DEF HandleStep, Receive
  <2>2. CASE dfd = "open" /\ dpc = "resumed"
    <3>1. Tail(<<Step(how)>>) = <<>>
      BY OneLine
    <3>2. current # NoWI /\ toPlugin = <<Step(how)>> /\ toDebugger = <<>>
      BY <1>2, <2>2, CommandUnderWay, Verbs DEF HandleStep
    <3>3. toPlugin' = <<>> /\ toDebugger' = <<>> /\ host' \in {"kernel", "between"} /\ ~halted
      BY <1>2, <2>2, <3>1, <3>2, CommandUnderWay
         DEF HandleStep, Leave, Caller, PhaseInv, Resumed, PluginEnd
    <3> QED BY <1>0, <2>2, <3>3 DEF PhaseInv, Resumed
  <2>3. pending \in Requests => pending # Step(how)
    BY Verbs
  <2>4. dpc = "request" /\ pfd = "open" => pending \in Requests
    BY DEF PhaseInv, Asking, PluginEnd
  <2> QED BY <1>2, <2>1, <2>2, <2>3, <2>4, CommandUnderWay DEF HandleStep
<1>3. ASSUME NEW id \in Ids, NEW line \in Lines, HandleBreak(id, line) PROVE PhaseInv'
  BY <1>3, AnswerPhases, RequestLines, ReplyLines, Tags DEF HandleBreak, Break
<1>4. ASSUME NEW id \in Ids, HandleDelete(id) PROVE PhaseInv'
  BY <1>4, AnswerPhases, RequestLines, ReplyLines, Tags DEF HandleDelete, Delete
<1>5. ASSUME NEW wi \in GlobalIds, HandleSelect(wi) PROVE PhaseInv'
  <2>1. Select(wi) \in Requests /\ Located \in Replies /\ Err \in Replies
    BY RequestLines, ReplyLines
  <2>2. CASE Reachable(wi) /\ current' = wi /\ Answer(Located)
    BY <1>5, <2>1, <2>2, AnswerPhases, WorkItemAssumption DEF HandleSelect, Reachable, Select
  <2>3. CASE Answer(Err)
    BY <1>5, <2>1, <2>3, AnswerPhases, Tags DEF HandleSelect
  <2> QED BY <1>5, <2>2, <2>3 DEF HandleSelect
<1>6. CASE HandlePrint
  <2>1. PrintExpr \in Requests /\ PrintExpr.verb # "select" /\ Err \in Replies
    BY RequestLines, ReplyLines DEF PrintExpr
  <2>2. current # NoWI => current \in WorkItems
    BY <1>0 DEF PluginTypeOK
  <2>3. current # NoWI => Value(current) \in Replies /\ Value(current) # Located
    BY <2>2, ReplyLines, Tags
  <2> QED BY <1>6, <2>1, <2>3, AnswerPhases, Tags DEF HandlePrint
<1>7. CASE HandleRead
  BY <1>7, AnswerPhases, RequestLines, ReplyLines, Tags DEF HandleRead, ReadMemory
<1>8. CASE ServeEof
  BY <1>0, <1>8, EofUnderWay, ClosedPhases DEF ServeEof
<1> QED BY <1>1, <1>2, <1>3, <1>4, <1>5, <1>6, <1>7, <1>8 DEF Serve

\* The plugin speaks up only where the debugger listens for it.
LEMMA PhasesHostRuns ==
    ASSUME Known, PhaseInv, HostRuns, UNCHANGED backendVars PROVE PhaseInv'
<1> USE DEF Known
<1>0. UNCHANGED <<dpc, halted, after, pending>>
  BY DEF backendVars, callVars
<1>1. CASE Connect
  BY <1>0, <1>1 DEF Connect, PhaseInv, EndsInv, PluginEnd, Greeting, pluginVars, interpVars
<1>2. CASE SendReady
  <2>1. CASE dfd = "closed"
    BY <1>0, <1>2, <2>1, ClosedPhases DEF SendReady
  <2>2. CASE dfd # "closed"
    <3>1. PluginEnd /\ dpc \in {"accept", "handshake"} /\ DebuggerEnd
      BY <1>2, <2>2
         DEF SendReady, EndsInv, PhaseInv, PluginEnd, DebuggerEnd, Waiting, Asking, Resumed,
             TypeInv, TypeOK, BackendTypeOK, WireTypeOK, Blocked
    <3>2. toDebugger = <<>> /\ toPlugin = <<>> /\ ~invocation
      BY <1>2, <3>1 DEF SendReady, PhaseInv, Greeting
    <3>3. toDebugger' = <<Ready>> /\ host' = "serving" /\ toPlugin' = <<>>
          /\ UNCHANGED invocation
      BY <1>2, <3>1, <3>2, OneLine DEF SendReady, SendAndServe, pluginVars, interpVars
    <3> QED BY <1>0, <3>1, <3>2, <3>3 DEF PhaseInv, Greeting
  <2> QED BY <2>1, <2>2
<1>3. CASE KernelBegin \/ KernelEnd \/ \E wi \in WorkItems : Finish(wi)
  <2>1. host \in {"kernel", "between"} /\ host' \in {"kernel", "between"} /\ UNCHANGED wireVars
    BY <1>3 DEF KernelBegin, KernelEnd, Finish
  <2>2. CASE dpc = "resumed"
    <3>1. PluginEnd' => Resumed'
      BY <1>0, <2>1, <2>2 DEF PhaseInv, PluginEnd, Resumed, wireVars
    <3> QED BY <1>0, <2>1, <2>2, <3>1 DEF PhaseInv, wireVars
  <2>3. CASE dpc # "resumed"
    <3>1. PluginEnd => dpc \notin {"accept", "handshake", "stepping", "request"}
                       /\ ~(dpc \in {"register", "idle"} /\ dfd = "open")
      BY <2>1, <2>3, EndsOpen DEF PhaseInv, Greeting, Waiting, Asking, TypeInv, TypeOK, WireTypeOK
    <3> QED BY <1>0, <2>1, <2>3, <3>1 DEF PhaseInv, PluginEnd, wireVars
  <2> QED BY <2>2, <2>3
<1>4. CASE ReleasePlugin \/ HostExit
  BY <1>0, <1>4 DEF ReleasePlugin, HostExit, EndProcess, PhaseInv, PluginEnd
<1>5. ASSUME NEW wi \in WorkItems, NEW line \in MaybeLine, NEW d \in Depths, Execute(wi, line, d)
      PROVE  PhaseInv'
  <2>1. CASE dfd = "closed"
    BY <1>0, <1>5, <2>1, ClosedPhases DEF Execute
  <2>2. CASE ~Halts(wi, line, d)
    <3>1. host = "kernel" /\ UNCHANGED <<host, toPlugin, toDebugger, pfd, dfd>>
      BY <1>5, <2>2 DEF Execute
    <3>2. PluginEnd => dpc \notin {"accept", "handshake", "stepping", "request"}
                       /\ ~(dpc \in {"register", "idle"} /\ dfd = "open")
      BY <3>1, EndsOpen DEF PhaseInv, Greeting, Waiting, Asking, TypeInv, TypeOK, WireTypeOK
    <3>3. dpc = "resumed" /\ PluginEnd => Resumed'
      BY <1>0, <3>1 DEF PhaseInv, Resumed
    <3> QED BY <1>0, <3>1, <3>2, <3>3 DEF PhaseInv, PluginEnd
  <2>3. CASE dfd # "closed" /\ Halts(wi, line, d)
    <3>1. PluginEnd /\ line \in Lines
      BY <2>3 DEF Halts, MaybeLine, NoLine
    <3>2. dpc = "resumed" /\ DebuggerEnd /\ toDebugger = <<>> /\ toPlugin = <<>> /\ ~halted
      BY <1>5, <2>3, <3>1
         DEF Execute, EndsInv, PhaseInv, DebuggerEnd, Greeting, Waiting, Asking, Resumed,
             TypeInv, TypeOK, BackendTypeOK, WireTypeOK, Blocked
    <3>3. toDebugger' = <<Stopped(wi, line)>> /\ host' = "serving" /\ toPlugin' = <<>>
      BY <1>5, <2>3, <3>2, OneLine DEF Execute, SendAndServe
    <3> QED BY <1>0, <3>1, <3>2, <3>3 DEF PhaseInv, Resumed
  <2> QED BY <2>1, <2>2, <2>3
<1> QED BY <1>1, <1>2, <1>3, <1>4, <1>5 DEF HostRuns

\* A request leaves only where the plugin waits for one.
LEMMA RequestPhases ==
    ASSUME Known, PhaseInv, NEW m \in Requests, NEW why, NEW failed \in {"idle", "register"},
           dpc = failed, Request(m, why, failed), UNCHANGED <<pfd, host, halted>>
    PROVE  PhaseInv'
<1>1. CASE dfd = "open" /\ PluginEnd
  <2>1. host = "serving" /\ toPlugin = <<>> /\ toDebugger = <<>> /\ halted
    BY <1>1 DEF PhaseInv, Waiting
  <2>2. /\ dpc' = "request" /\ pending' = m /\ UNCHANGED <<toDebugger, dfd>>
        /\ toPlugin' = <<m>>
    BY <1>1, <2>1, OneLine DEF Request, SendCommand
  <2> QED BY <2>1, <2>2 DEF PhaseInv, Asking
<1>2. CASE ~(dfd = "open" /\ PluginEnd)
  <2>1. dpc' = "dead" \/ (dpc' = failed /\ UNCHANGED dfd)
    BY <1>2 DEF Request, SendCommand
  <2> QED BY <1>2, <2>1 DEF PhaseInv, PluginEnd
<1> QED BY <1>1, <1>2

\* So does a resumption.
LEMMA ResumePhases ==
    ASSUME Known, PhaseInv, NEW m, ResumeWith(m), dpc \in {"idle", "stepping"},
           m = Continue \/ (m = Step(after) /\ after \in StepKinds /\ current # NoWI),
           dpc' = "resumed" => UNCHANGED after, UNCHANGED <<pfd, host, current>>
    PROVE  PhaseInv'
<1>1. CASE dfd = "open" /\ PluginEnd
  <2>1. host = "serving" /\ toPlugin = <<>> /\ toDebugger = <<>>
    BY <1>1 DEF PhaseInv, Waiting
  <2>2. dpc' = "resumed" /\ UNCHANGED <<toDebugger, dfd>> /\ toPlugin' = <<m>> /\ ~halted'
    BY <1>1, <2>1, OneLine DEF ResumeWith, SendCommand
  <2> QED BY <2>1, <2>2 DEF PhaseInv, Resumed
<1>2. CASE ~(dfd = "open" /\ PluginEnd)
  <2>1. dpc' = "dead" \/ (dpc' = "idle" /\ UNCHANGED dfd)
    BY <1>2 DEF ResumeWith, SendCommand
  <2> QED BY <1>2, <2>1 DEF PhaseInv, PluginEnd
<1> QED BY <1>1, <1>2

\* A call begins an exchange only where the plugin waits for it.
LEMMA PhasesClient ==
    ASSUME Known, PhaseInv, Client, UNCHANGED pluginVars PROVE PhaseInv'
<1> USE DEF pluginVars, Ask
<1>1. CASE Detach
  BY <1>1 DEF Detach, BeginDetach, PhaseInv
<1>2. CASE resume
  BY <1>2, ResumePhases DEF resume, callVars
<1>3. CASE read_global_memory \/ evaluate
  BY <1>3, RequestPhases, RequestLines DEF read_global_memory, evaluate
<1>4. ASSUME NEW line \in Lines, set_breakpoint(line) PROVE PhaseInv'
  <2>1. CASE Quietly
    BY <1>4, <2>1 DEF set_breakpoint, Quietly, wireVars, PhaseInv, PluginEnd, Waiting
  <2>2. CASE Ask(Break(next_id, line), "client")
    <3>1. next_id \in Ids
      BY <1>4 DEF set_breakpoint, Ids, Known, TypeInv, TypeOK, BackendTypeOK
    <3> QED BY <1>4, <2>2, <3>1, RequestPhases, RequestLines DEF set_breakpoint
  <2> QED BY <1>4, <2>1, <2>2 DEF set_breakpoint
<1>5. ASSUME NEW id \in Ids, remove_breakpoint(id) PROVE PhaseInv'
  <2>1. CASE Quietly
    BY <1>5, <2>1 DEF remove_breakpoint, Quietly, wireVars, PhaseInv, PluginEnd, Waiting
  <2>2. CASE Ask(Delete(id), "client")
    BY <1>5, <2>2, RequestPhases, RequestLines DEF remove_breakpoint
  <2> QED BY <1>5, <2>1, <2>2 DEF remove_breakpoint
<1>6. ASSUME NEW wi \in GlobalIds, NEW why, select_work_item(wi, why) PROVE PhaseInv'
  BY <1>6, RequestPhases, RequestLines DEF select_work_item
<1> QED BY <1>1, <1>2, <1>3, <1>4, <1>5, <1>6 DEF Client, step

\* What a debugger with a linked plugin reads in a request.
LEMMA ReplyUnderWay ==
    ASSUME PhaseInv, PluginEnd, dpc = "request", DebuggerReadable
    PROVE  /\ host = "serving" /\ halted /\ toPlugin = <<>>
           /\ \E m \in Replies :
                /\ toDebugger = <<m>> /\ Head(toDebugger) = m /\ Tail(toDebugger) = <<>>
                /\ pending.verb = "select" => m \in {Located, Err}
                /\ m = Located => pending.verb = "select" /\ current # NoWI
<1>1. toDebugger # <<>> /\ Asking
  BY DEF PhaseInv, DebuggerReadable, DebuggerEof
<1> QED BY <1>1, OneLine DEF Asking

\* The steps of a call follow the phases of an exchange.
LEMMA PhasesProgress ==
    ASSUME Known, PhaseInv, Progress, UNCHANGED pluginVars PROVE PhaseInv'
<1> USE DEF pluginVars, interpVars, callVars
<1>1. CASE Accept
  BY <1>1 DEF Accept, PhaseInv, PluginEnd, Greeting
<1>2. CASE AcceptFails \/ Reap
  BY <1>2 DEF AcceptFails, HostEndedFirst, PollFails,
    BeginDetach, Reap, wireVars, PhaseInv, Known, EndsInv
<1>3. CASE Handshake
  <2>1. CASE dpc' = "waitpid"
    BY <2>1 DEF PhaseInv
  <2>2. CASE dpc' # "waitpid" /\ PluginEnd
    <3>1. toDebugger = <<Ready>> /\ host = "serving" /\ toPlugin = <<>>
      BY <1>3, <2>2 DEF Handshake, Greeted, BeginDetach, PhaseInv, Greeting
    <3>2. toDebugger' = <<>> /\ halted' /\ dpc' = "register"
          /\ UNCHANGED <<host, toPlugin>>
      BY <1>3, <2>2, <3>1, OneLine DEF Handshake, BeginDetach
    <3> QED BY <3>1, <3>2 DEF PhaseInv, Waiting
  <2>3. CASE dpc' # "waitpid" /\ ~PluginEnd
    BY <1>3, <2>3 DEF Handshake, BeginDetach, PhaseInv, PluginEnd
  <2> QED BY <2>1, <2>2, <2>3
<1>4. CASE Register
  <2>1. CASE dpc' = "idle" /\ UNCHANGED <<callVars, toPlugin, toDebugger, dfd, listening>>
    BY <1>4, <2>1 DEF Register, PhaseInv, PluginEnd, Waiting
  <2>2. ASSUME NEW id \in todo, Request(Break(id, breakpoints[id]), "launch", "register")
        PROVE  PhaseInv'
    <3>1. id \in Ids /\ breakpoints[id] \in Lines
      BY <1>4, <2>2 DEF Register, Known, TypeInv, TodoRegistered, Registered, TypeOK,
                        BackendTypeOK, MaybeLine
    <3> QED BY <1>4, <2>2, <3>1, RequestPhases, RequestLines DEF Register
  <2> QED BY <1>4, <2>1, <2>2 DEF Register
<1>5. CASE ReceiveReply
  <2>1. dpc = "request" /\ dpc' \in {"idle", "register", "stepping"} /\ DebuggerReadable
    BY <1>5 DEF ReceiveReply, BreakReply, SelectReply, OtherReply, Answered, TakeReply
  <2>2. CASE PluginEnd
    <3>1. toDebugger' = <<>> /\ toPlugin = <<>> /\ host = "serving" /\ halted
      BY <1>5, <2>1, <2>2, ReplyUnderWay
         DEF ReceiveReply, BreakReply, SelectReply, OtherReply, TakeReply
    <3>2. Waiting'
      BY <1>5, <3>1 DEF ReceiveReply, Waiting
    <3>3. dpc' = "stepping" => current # NoWI
      <4>1. ASSUME dpc' = "stepping" PROVE Head(toDebugger) = Located
        <5>1. SelectReply /\ Answered(TRUE)
          BY <1>5, <4>1 DEF ReceiveReply, BreakReply, SelectReply, OtherReply, TakeReply
        <5>2. pending.verb = "select" /\ Head(toDebugger) \in {Ok, Located}
          BY <5>1 DEF SelectReply, Answered
        <5> QED BY <5>2, <2>1, <2>2, ReplyUnderWay, Tags
      <4> QED BY <4>1, <2>1, <2>2, ReplyUnderWay
    <3> QED BY <2>1, <3>2, <3>3 DEF PhaseInv
  <2>3. CASE ~PluginEnd
    BY <1>5, <2>1, <2>3 DEF ReceiveReply, PhaseInv, PluginEnd
  <2> QED BY <2>2, <2>3
<1>6. CASE SendStep
  <2>1. after \in StepKinds
    BY <1>6 DEF SendStep, Known, TypeInv, StepKnown
  <2>2. CASE PluginEnd
    BY <1>6, <2>1, <2>2, ResumePhases DEF SendStep, PhaseInv
  <2>3. CASE ~PluginEnd
    BY <1>6, <2>3 DEF SendStep, ResumeWith, SendCommand, PhaseInv, PluginEnd, Known, EndsInv
  <2> QED BY <2>2, <2>3
<1>7. CASE ReceiveEvent
  <2>1. CASE dfd' = "closed"
    BY <1>7, <2>1 DEF ReceiveEvent, PhaseInv
  <2>2. CASE dfd' # "closed" /\ PluginEnd
    <3>1. dpc = "resumed" /\ toDebugger # <<>> /\ toDebugger' = Tail(toDebugger)
      BY <1>7, <2>2 DEF ReceiveEvent, CloseDebuggerEnd
    <3>2. PICK wi \in WorkItems, ln \in Lines :
            host = "serving" /\ toPlugin = <<>> /\ toDebugger = <<Stopped(wi, ln)>>
      BY <2>2, <3>1 DEF PhaseInv, Resumed
    <3>3. Head(toDebugger).tag = "stopped" /\ toDebugger' = <<>>
      BY <3>1, <3>2, OneLine, Tags
    <3>4. halted' /\ dpc' = "idle" /\ UNCHANGED <<host, toPlugin>>
      BY <1>7, <2>2, <3>3 DEF ReceiveEvent, CloseDebuggerEnd
    <3> QED BY <3>2, <3>3, <3>4 DEF PhaseInv, Waiting
  <2>3. CASE dfd' # "closed" /\ ~PluginEnd
    BY <1>7, <2>3 DEF ReceiveEvent, PhaseInv, PluginEnd
  <2> QED BY <2>1, <2>2, <2>3
<1> QED BY <1>1, <1>2, <1>3, <1>4, <1>5, <1>6, <1>7 DEF Progress

\* A launch, the death of a process and a stutter follow them too.
LEMMA PhasesOthers ==
    ASSUME Known, PhaseInv,
           LaunchHost \/ (HostKilled /\ UNCHANGED backendVars)
             \/ (DebuggerKilled /\ UNCHANGED pluginVars) \/ UNCHANGED vars
    PROVE  PhaseInv'
<1>1. CASE LaunchHost \/ DebuggerKilled
  BY <1>1 DEF LaunchHost, Launch, DebuggerKilled, PhaseInv, PluginEnd
<1>2. CASE HostKilled /\ UNCHANGED backendVars
  BY <1>2 DEF HostKilled, EndProcess, backendVars, PhaseInv, PluginEnd
<1>3. CASE UNCHANGED vars
  BY <1>3 DEF vars, wireVars, pluginVars, interpVars, backendVars, callVars, PhaseInv, PluginEnd,
              Greeting, Waiting, Asking, Resumed
<1> QED BY <1>1, <1>2, <1>3

\* The layers below the phases hold together.
LEMMA KnownInvariant == Spec => []Known
BY TypeInvariant, EndsInvariant, PurposeInvariant, PTL DEF Known

\* Both sides are always in the same phase of an exchange.
LEMMA PhaseInvariant == Spec => []PhaseInv
<1>1. Init => PhaseInv
  BY DEF Init, WireInit, BackendInit, PhaseInv, PluginEnd
<1>2. Known /\ PhaseInv /\ [Next]_vars => PhaseInv'
  BY PhasesServe, PhasesHostRuns, PhasesClient, PhasesProgress, PhasesOthers DEF Next
<1> QED BY <1>1, <1>2, KnownInvariant, PTL DEF Spec

(***************************************************************************)
(* AfterResume: resume_with() never reads anything but a stopped event, so *)
(* it never returns while the plugin serves and halted is false.           *)
(***************************************************************************)
THEOREM AfterResumeAlways == Spec => []AfterResume
<1>1. PhaseInv => AfterResume
  BY OneLine, Tags DEF PhaseInv, AfterResume
<1> QED BY <1>1, PhaseInvariant, PTL

-----------------------------------------------------------------------------
(***************************************************************************)
(* Requests and replies match, and both ends agree on the current          *)
(* work-item, on the breakpoints and on the mode.  Each layer of the       *)
(* invariant uses the ones before it.  From all of them, the link          *)
(* implements DebuggerContract.                                            *)
(***************************************************************************)

(* The invariant, in three more layers. *)

\* The interpreter's work-item is the backend's, but for a select under way.
SelectionInv ==
    PluginEnd /\ dfd = "open" =>
      /\ dpc \in {"register", "idle", "stepping"} /\ invocation => current = stopped
      /\ dpc = "request" /\ invocation =>
           current = IF toDebugger = <<Located>> THEN pending.wi ELSE stopped
      /\ dpc = "resumed" /\ after \in StepKinds /\ toPlugin = <<Step(after)>> => current = stopped
      /\ \A wi \in WorkItems, ln \in Lines :
           dpc = "resumed" /\ toDebugger = <<Stopped(wi, ln)>> => invocation /\ current = wi

\* Breakpoints that launch() has still to send, and the one under way.
Unregistered == IF dpc = "register" \/ (dpc = "request" /\ after = "launch") THEN todo ELSE {}
Unheard ==
    IF dpc = "request" /\ toPlugin # <<>> /\ pending.verb \in {"break", "delete"}
    THEN {pending.id} ELSE {}

\* Ids that were not handed out yet name nothing.
FreshIds == \A id \in Ids : id >= next_id => breakpoints[id] = NoLine

\* The plugin halts on the lines of its ids, and has none before the handshake.
PluginArmed ==
    pfd # "closed" =>
      /\ breakpoint_lines = Armed(breakpoint_ids)
      /\ dpc \in {"accept", "handshake"} => \A id \in Ids : breakpoint_ids[id] = NoLine

\* The plugin's ids are the backend's, but for those it has not heard of.
IdsAgree ==
    Linked =>
      /\ \A id \in Ids \ (Unregistered \cup Unheard) : breakpoint_ids[id] = breakpoints[id]
      /\ \A id \in Unregistered : breakpoint_ids[id] = NoLine

\* An id under way to the plugin is new there, so that no line is lost, and one
\* that is to be deleted is known there, so that it answers ok.
AnswerDue ==
    PluginEnd /\ dpc = "request" =>
      /\ pending.verb = "break" =>
           /\ breakpoints[pending.id] = pending.line
           /\ toPlugin # <<>> => breakpoint_ids[pending.id] = NoLine
           /\ after = "launch" => pending.id \notin todo
      /\ pending.verb = "delete" =>
           /\ breakpoints[pending.id] = NoLine
           /\ toPlugin # <<>> => breakpoint_ids[pending.id] # NoLine
      /\ \A m \in Replies : toDebugger = <<m>> => m \in AnswersTo(pending)

BreakpointInv == FreshIds /\ PluginArmed /\ IdsAgree /\ AnswerDue

\* The plugin runs as the debugger resumed it.
ModeInv ==
    /\ PluginEnd /\ dpc = "resumed" =>
         /\ toPlugin = <<Continue>> => after = "client"
         /\ toPlugin = <<>> =>
              IF after \in StepKinds THEN mode = after /\ stepping_index = stopped
                                     ELSE mode = "running"
    /\ StopsAreAskedFor

-----------------------------------------------------------------------------
(* The current work-item.                                                  *)

\* A reply that moves the current work-item is that of a select.
LEMMA AnswerSelection ==
    ASSUME Known, PhaseInv, SelectionInv, NEW m \in Requests, NEW reply \in Replies,
           Receive(m), Answer(reply), UNCHANGED backendVars,
           reply = Located => current' = m.wi,
           reply # Located => UNCHANGED current
    PROVE  SelectionInv'
<1> USE DEF Receive, backendVars, stopVars, callVars
<1>1. CASE dfd = "closed"
  BY <1>1 DEF SelectionInv
<1>2. CASE dfd = "open"
  <2>1. dpc = "request" /\ m = pending /\ toPlugin = <<m>> /\ toDebugger = <<>>
    BY <1>2, CommandUnderWay, Verbs
  <2>2. DebuggerEnd /\ PluginEnd
    BY <1>2, CommandUnderWay DEF DebuggerEnd, PluginEnd
  <2>3. /\ toDebugger' = <<reply>> /\ (toDebugger' = <<Located>> <=> reply = Located)
        /\ toDebugger # <<Located>>
        /\ UNCHANGED <<dpc, dfd, pfd, pending, stopped, invocation>>
    BY <2>1, <2>2, OneLine DEF Answer, interpVars
  <2>4. invocation => current = stopped
    BY <1>2, <2>1, <2>2, <2>3 DEF SelectionInv
  <2> QED BY <2>1, <2>3, <2>4 DEF SelectionInv
<1> QED BY <1>1, <1>2, CommandUnderWay

\* serve() keeps the selection.
LEMMA SelectionServe ==
    ASSUME Known, PhaseInv, SelectionInv, Serve, UNCHANGED backendVars PROVE SelectionInv'
<1>0. PluginTypeOK /\ UNCHANGED <<dpc, after, pending, stopped>>
  BY DEF Known, TypeInv, TypeOK, backendVars, callVars, stopVars
<1>1. ASSUME NEW m \in Resumptions, Receive(m), Leave, UNCHANGED current PROVE SelectionInv'
  <2>1. UNCHANGED <<dfd, invocation>>
    BY <1>1 DEF Receive, interpVars
  <2>2. CASE dfd = "open"
    <3>1. dpc = "resumed" /\ toPlugin = <<m>> /\ toDebugger = <<>> /\ pfd = "open"
      BY <1>1, <2>2, CommandUnderWay, Verbs DEF PhaseInv, Asking, PluginEnd
    <3>2. toPlugin' = <<>> /\ toDebugger' = <<>>
      BY <1>1, <3>1, OneLine DEF Leave
    <3>3. \A n : <<>> # <<n>>
      BY OneLine
    <3> QED BY <1>0, <2>1, <3>1, <3>2, <3>3 DEF SelectionInv
  <2> QED BY <2>1, <2>2 DEF SelectionInv
<1>2. CASE HandleContinue
  BY <1>1, <1>2, Verbs DEF HandleContinue
<1>3. ASSUME NEW how \in StepKinds, HandleStep(how) PROVE SelectionInv'
  <2>1. CASE Leave
    BY <1>1, <1>3, <2>1, Verbs DEF HandleStep
  <2>2. CASE current = NoWI /\ Answer(Err)
    <3>1. dfd = "closed"
      BY <1>3, <2>2, CommandUnderWay, Verbs DEF HandleStep, PhaseInv, Asking, PluginEnd
    <3> QED BY <1>3, <3>1 DEF HandleStep, Receive, SelectionInv
  <2> QED BY <1>3, <2>1, <2>2 DEF HandleStep
<1>4. ASSUME NEW id \in Ids, HandleDelete(id) \/ \E line \in Lines : HandleBreak(id, line)
      PROVE  SelectionInv'
  BY <1>4, AnswerSelection, RequestLines, ReplyLines, Tags DEF HandleBreak, HandleDelete
<1>5. ASSUME NEW wi \in GlobalIds, HandleSelect(wi) PROVE SelectionInv'
  <2>1. Select(wi) \in Requests /\ Select(wi).wi = wi /\ Located \in Replies /\ Err \in Replies
    BY RequestLines, ReplyLines DEF Select
  <2> QED BY <1>5, <2>1, AnswerSelection, Tags DEF HandleSelect
<1>6. CASE HandlePrint \/ HandleRead
  <2>1. current # NoWI => current \in WorkItems
    BY <1>0 DEF PluginTypeOK
  <2>2. current # NoWI => Value(current) \in Replies /\ Value(current) # Located
    BY <2>1, ReplyLines, Tags
  <2> QED BY <1>6, <2>2, AnswerSelection, RequestLines, ReplyLines, Tags DEF HandlePrint, HandleRead
<1>7. CASE ServeEof
  BY <1>7, EofUnderWay DEF ServeEof, SelectionInv
<1> QED BY <1>2, <1>3, <1>4, <1>5, <1>6, <1>7 DEF Serve

\* A kernel that runs beside a linked debugger runs because it was resumed.
LEMMA RunsResumed ==
    ASSUME Known, PhaseInv, PluginEnd, dfd = "open", host \in {"kernel", "between"}
    PROVE  dpc = "resumed" /\ toPlugin = <<>> /\ toDebugger = <<>>
<1>1. dpc \in {"idle", "handshake", "register", "request", "stepping", "resumed"}
  BY DEF Known, TypeInv, TypeOK, BackendTypeOK, Blocked, EndsInv
<1>2. dpc = "resumed"
  BY <1>1 DEF PhaseInv, Greeting, Waiting, Asking
<1> QED BY <1>2 DEF PhaseInv, Resumed

\* The interpreter changes its work-item only while nobody selects one.
LEMMA SelectionHostRuns ==
    ASSUME Known, PhaseInv, SelectionInv, HostRuns, UNCHANGED backendVars PROVE SelectionInv'
<1>0. UNCHANGED <<dpc, after, pending, stopped>>
  BY DEF backendVars, callVars, stopVars
<1>1. CASE Connect
  BY <1>1 DEF Connect, Known, EndsInv, SelectionInv
<1>2. CASE SendReady
  <2>1. PluginEnd /\ dfd = "open" => dpc = "handshake"
    BY <1>2 DEF SendReady, Known, EndsInv, TypeInv, TypeOK, BackendTypeOK, Blocked,
                PhaseInv, Waiting, Asking, Resumed
  <2> QED BY <1>0, <1>2, <2>1 DEF SendReady, SelectionInv, Known, EndsInv, PluginEnd
<1>3. CASE KernelBegin \/ KernelEnd \/ \E wi \in WorkItems : Finish(wi)
  <2>1. host \in {"kernel", "between"} /\ UNCHANGED wireVars
    BY <1>3 DEF KernelBegin, KernelEnd, Finish
  <2>2. \A n : <<>> # <<n>>
    BY OneLine
  <2> QED BY <1>0, <2>1, <2>2, RunsResumed DEF SelectionInv, PluginEnd, wireVars
<1>4. CASE ReleasePlugin \/ HostExit
  BY <1>4 DEF ReleasePlugin, HostExit, EndProcess, SelectionInv, PluginEnd
<1>5. ASSUME NEW wi \in WorkItems, NEW line \in MaybeLine, NEW d \in Depths, Execute(wi, line, d)
      PROVE  SelectionInv'
  <2>1. host = "kernel" /\ current' = wi /\ invocation /\ UNCHANGED <<dfd, invocation>>
    BY <1>5 DEF Execute, Known, EndsInv
  <2>2. CASE dfd # "open" \/ ~PluginEnd
    BY <1>5, <2>1, <2>2 DEF Execute, SendAndServe, ClosePluginEnd, SelectionInv, PluginEnd
  <2>3. CASE dfd = "open" /\ PluginEnd
    <3>1. dpc = "resumed" /\ toPlugin = <<>> /\ toDebugger = <<>>
      BY <2>1, <2>3, RunsResumed
    <3>2. toPlugin' = <<>> /\ (toDebugger' = <<>> \/ toDebugger' = <<Stopped(wi, line)>>)
      BY <1>5, <2>3, <3>1, OneLine DEF Execute, SendAndServe, DebuggerEnd
    <3>3. toDebugger' = <<Stopped(wi, line)>> => line \in Lines
      BY <1>5, <2>3, <3>1, OneLine DEF Execute, Halts, MaybeLine, NoLine
    <3>4. ASSUME NEW w \in WorkItems, NEW ln \in Lines, toDebugger' = <<Stopped(w, ln)>>
          PROVE  current' = w
      <4>1. toDebugger' = <<Stopped(wi, line)>>
        BY <3>2, <3>4, OneLine
      <4>2. Stopped(wi, line) = Stopped(w, ln) /\ line \in Lines
        BY <3>3, <3>4, <4>1, OneLine
      <4>3. wi = w
        BY <3>4, <4>2, Tags
      <4> QED BY <2>1, <4>3
    <3>5. \A n : <<>> # <<n>>
      BY OneLine
    <3> QED BY <1>0, <2>1, <3>1, <3>2, <3>4, <3>5 DEF SelectionInv
  <2> QED BY <2>2, <2>3
<1> QED BY <1>1, <1>2, <1>3, <1>4, <1>5 DEF HostRuns

\* A linked debugger that sends was at a halt.
LEMMA SendSelection ==
    ASSUME Known, PhaseInv, SelectionInv, NEW m \in Commands, NEW next, NEW failed,
           SendCommand(m, next, failed), next \in {"request", "resumed"}, failed \in {"idle", "register"},
           dpc \in {"idle", "register", "stepping"}, m = Step(after) => dpc = "stepping",
           dpc' = "resumed" => UNCHANGED after,
           UNCHANGED <<pfd, host, invocation, current, stopped>>
    PROVE  SelectionInv'
<1>1. CASE dfd = "open" /\ PluginEnd
  <2>1. toPlugin = <<>> /\ toDebugger = <<>> /\ (invocation => current = stopped)
    BY <1>1 DEF PhaseInv, Waiting, SelectionInv
  <2>2. dpc' = next /\ toPlugin' = <<m>> /\ toDebugger' = <<>>
    BY <1>1, <2>1, OneLine DEF SendCommand
  <2>3. dpc' = "resumed" /\ toPlugin' = <<Step(after')>> => current = stopped
    <3>1. ASSUME dpc' = "resumed", toPlugin' = <<Step(after')>> PROVE m = Step(after)
      BY <3>1, <2>2, OneLine
    <3> QED BY <3>1, <1>1, <2>1 DEF PhaseInv, Known, EndsInv
  <2>4. \A n : <<>> # <<n>>
    BY OneLine
  <2> QED BY <2>1, <2>2, <2>3, <2>4 DEF SelectionInv
<1>2. CASE ~(dfd = "open" /\ PluginEnd)
  BY <1>2 DEF SendCommand, CloseDebuggerEnd, SelectionInv, PluginEnd
<1> QED BY <1>1, <1>2

\* A call of the client keeps the selection.
LEMMA SelectionClient ==
    ASSUME Known, PhaseInv, SelectionInv, Client, UNCHANGED pluginVars PROVE SelectionInv'
<1> USE DEF pluginVars, interpVars, stopVars, Ask
<1>0. ASSUME NEW m \in Requests, NEW why, Request(m, why, "idle"), dpc = "idle",
             UNCHANGED <<pfd, host, stopped>>
      PROVE  SelectionInv'
  <2>1. m \in Commands /\ m # Step(after)
    <3>1. m.verb # "step" /\ Step(after).verb = "step"
      BY Verbs DEF Step
    <3> QED BY <3>1, RequestLines
  <2> QED BY <1>0, <2>1, SendSelection DEF Request, SendCommand
<1>1. CASE Detach
  BY <1>1 DEF Detach, BeginDetach, CloseDebuggerEnd, SelectionInv
<1>2. CASE resume
  <2>1. Continue # Step(after) /\ Continue \in Commands
    BY RequestLines DEF Continue, Step
  <2> QED BY <1>2, <2>1, SendSelection DEF resume, ResumeWith, callVars
<1>3. CASE read_global_memory \/ evaluate
  BY <1>3, <1>0, RequestLines DEF read_global_memory, evaluate
<1>4. ASSUME NEW line \in Lines, set_breakpoint(line) PROVE SelectionInv'
  <2>1. next_id \in Ids
    BY <1>4 DEF set_breakpoint, Ids, Known, TypeInv, TypeOK, BackendTypeOK
  <2>2. CASE Quietly
    BY <1>4, <2>2 DEF set_breakpoint, Quietly, wireVars, callVars, SelectionInv, PluginEnd
  <2> QED BY <1>4, <2>1, <2>2, <1>0, RequestLines DEF set_breakpoint
<1>5. ASSUME NEW id \in Ids, remove_breakpoint(id) PROVE SelectionInv'
  <2>1. CASE Quietly
    BY <1>5, <2>1 DEF remove_breakpoint, Quietly, wireVars, callVars, SelectionInv, PluginEnd
  <2> QED BY <1>5, <2>1, <1>0, RequestLines DEF remove_breakpoint
<1>6. ASSUME NEW wi \in GlobalIds, NEW why, select_work_item(wi, why) PROVE SelectionInv'
  BY <1>6, <1>0, RequestLines DEF select_work_item
<1> QED BY <1>1, <1>2, <1>3, <1>4, <1>5, <1>6 DEF Client, step

\* The steps of a call keep the selection; a stop and a located set it.
LEMMA SelectionProgress ==
    ASSUME Known, PhaseInv, SelectionInv, Progress, UNCHANGED pluginVars PROVE SelectionInv'
<1> USE DEF pluginVars, interpVars, callVars, stopVars
<1>1. CASE Accept
  BY <1>1 DEF Accept, SelectionInv
<1>2. CASE AcceptFails \/ Reap
  BY <1>2 DEF AcceptFails, HostEndedFirst, PollFails,
    BeginDetach, CloseDebuggerEnd, Reap, wireVars, SelectionInv, Known, EndsInv
<1>3. CASE Handshake
  BY <1>3 DEF Handshake, BeginDetach, CloseDebuggerEnd, SelectionInv, PhaseInv, Greeting, PluginEnd
<1>4. CASE Register
  <2>1. CASE dpc' = "idle" /\ UNCHANGED <<callVars, toPlugin, toDebugger, dfd, listening>>
    BY <1>4, <2>1 DEF Register, SelectionInv, PluginEnd
  <2>2. ASSUME NEW id \in todo, Request(Break(id, breakpoints[id]), "launch", "register")
        PROVE  SelectionInv'
    <3>1. id \in Ids /\ breakpoints[id] \in Lines
      BY <1>4, <2>2 DEF Register, Known, TypeInv, TodoRegistered, Registered, TypeOK,
                        BackendTypeOK, MaybeLine
    <3>2. Break(id, breakpoints[id]) \in Commands /\ Break(id, breakpoints[id]) # Step(after)
      <4>1. Break(id, breakpoints[id]).verb # Step(after).verb
        BY DEF Break, Step
      <4> QED BY <3>1, <4>1, RequestLines
    <3> QED BY <1>4, <2>2, <3>2, SendSelection DEF Register, Request, SendCommand
  <2> QED BY <1>4, <2>1, <2>2 DEF Register
<1>5. CASE ReceiveReply
  <2>1. dpc = "request" /\ dpc' \in {"idle", "register", "stepping"} /\ DebuggerReadable
        /\ UNCHANGED <<pfd, dfd>>
    BY <1>5 DEF ReceiveReply, BreakReply, SelectReply, OtherReply, Answered, TakeReply
  <2>2. CASE PluginEnd /\ dfd = "open" /\ invocation
    <3>1. PICK m \in Replies :
            /\ toDebugger = <<m>> /\ Head(toDebugger) = m
            /\ pending.verb = "select" => m \in {Located, Err}
            /\ m = Located => pending.verb = "select" /\ current # NoWI
      BY <2>1, <2>2, ReplyUnderWay
    <3>2. CASE m = Located
      <4>1. SelectReply /\ current = pending.wi
        BY <1>5, <2>1, <2>2, <3>1, <3>2
           DEF ReceiveReply, BreakReply, SelectReply, OtherReply, SelectionInv
      <4>2. ~Answered(FALSE)
        BY <3>1, <3>2, OneLine DEF Answered
      <4> QED BY <2>1, <4>1, <4>2 DEF SelectReply, SelectionInv
    <3>3. CASE m # Located
      <4>1. current = stopped
        BY <2>1, <2>2, <3>1, <3>3, OneLine DEF SelectionInv
      <4>2. UNCHANGED stopped
        BY <1>5, <3>1, <3>3, Tags
           DEF ReceiveReply, BreakReply, SelectReply, OtherReply, Answered
      <4> QED BY <2>1, <4>1, <4>2 DEF SelectionInv
    <3> QED BY <3>2, <3>3
  <2>3. CASE ~(PluginEnd /\ dfd = "open" /\ invocation)
    BY <2>1, <2>3 DEF SelectionInv, PluginEnd
  <2> QED BY <2>2, <2>3
<1>6. CASE SendStep
  <2>1. Step(after) \in Commands
    BY <1>6, RequestLines DEF SendStep, Known, TypeInv, StepKnown
  <2> QED BY <1>6, <2>1, SendSelection DEF SendStep, ResumeWith
<1>7. CASE ReceiveEvent
  <2>1. CASE dfd' = "closed" \/ ~PluginEnd \/ dfd # "open"
    <3>1. dfd' \in {dfd, "closed"} /\ UNCHANGED pfd
      BY <1>7 DEF ReceiveEvent, CloseDebuggerEnd
    <3> QED BY <2>1, <3>1 DEF SelectionInv, PluginEnd
  <2>2. CASE dfd' # "closed" /\ PluginEnd /\ dfd = "open"
    <3>1. dpc = "resumed" /\ toDebugger # <<>>
      BY <1>7, <2>2 DEF ReceiveEvent, CloseDebuggerEnd
    <3>2. PICK wi \in WorkItems, ln \in Lines : toDebugger = <<Stopped(wi, ln)>>
      BY <2>2, <3>1 DEF PhaseInv
    <3>3. Head(toDebugger).tag = "stopped" /\ Head(toDebugger).wi = wi
      BY <3>2, OneLine, Tags
    <3>4. stopped' = wi /\ dpc' = "idle"
      BY <1>7, <2>2, <3>3 DEF ReceiveEvent, CloseDebuggerEnd
    <3>5. current = wi
      BY <2>2, <3>1, <3>2 DEF SelectionInv
    <3> QED BY <3>4, <3>5 DEF SelectionInv
  <2> QED BY <2>1, <2>2
<1> QED BY <1>1, <1>2, <1>3, <1>4, <1>5, <1>6, <1>7 DEF Progress

\* The selection is common to both ends at all times.
LEMMA SelectionInvariant == Spec => []SelectionInv
<1>1. Init => SelectionInv
  BY DEF Init, WireInit, SelectionInv, PluginEnd
<1>2. ASSUME Known, PhaseInv, SelectionInv, [Next]_vars PROVE SelectionInv'
  <2>1. CASE LaunchHost \/ DebuggerKilled
    BY <2>1 DEF LaunchHost, Launch, DebuggerKilled, CloseDebuggerEnd, SelectionInv
  <2>2. CASE HostKilled
    BY <2>2 DEF HostKilled, EndProcess, SelectionInv, PluginEnd
  <2>3. CASE UNCHANGED vars
    <3>1. UNCHANGED <<dpc, dfd, pfd, toPlugin, toDebugger, pending, after, invocation,
                      current, stopped>>
      BY <2>3 DEF vars, wireVars, pluginVars, interpVars, backendVars, callVars, stopVars
    <3> QED BY <1>2, <3>1 DEF SelectionInv, PluginEnd
  <2> QED BY <1>2, <2>1, <2>2, <2>3, SelectionServe, SelectionHostRuns, SelectionClient,
             SelectionProgress DEF Next
<1> QED BY <1>1, <1>2, KnownInvariant, PhaseInvariant, PTL DEF Spec

(***************************************************************************)
(* SelectedIsCurrent: what evaluate() and the steps act on without naming  *)
(* it is the work-item the backend calls stopped.                          *)
(***************************************************************************)
THEOREM SelectedIsCurrentAlways == Spec => []SelectedIsCurrent
<1>1. SelectionInv => SelectedIsCurrent
  BY DEF SelectionInv, SelectedIsCurrent, AtHalt, Linked
<1> QED BY <1>1, SelectionInvariant, PTL

-----------------------------------------------------------------------------
(* Breakpoints.                                                            *)

\* An id that is new adds its line.
LEMMA ArmedNew ==
    ASSUME NEW ids \in [Ids -> MaybeLine], NEW id \in Ids, NEW line \in Lines, ids[id] = NoLine
    PROVE  Armed([ids EXCEPT ![id] = line]) = Armed(ids) \cup {line}
<1> DEFINE new == [ids EXCEPT ![id] = line]
<1>1. new[id] = line /\ \A other \in Ids \ {id} : new[other] = ids[other]
  OBVIOUS
<1>2. Armed(new) = ({ids[other] : other \in Ids \ {id}} \cup {line}) \ {NoLine}
  BY <1>1 DEF Armed
<1>3. Armed(ids) = {ids[other] : other \in Ids \ {id}} \ {NoLine}
  BY DEF Armed
<1>4. line # NoLine
  BY LineAssumption DEF NoLine
<1> HIDE DEF new
<1>5. Armed(new) = Armed(ids) \cup {line}
  BY <1>2, <1>3, <1>4
<1> QED BY <1>5 DEF new

\* An id that goes takes its line along, unless another id has the line.
LEMMA ArmedLess ==
    ASSUME NEW ids \in [Ids -> MaybeLine], NEW id \in Ids, ids[id] # NoLine
    PROVE  Armed([ids EXCEPT ![id] = NoLine]) =
             IF \E other \in Ids \ {id} : ids[other] = ids[id]
             THEN Armed(ids) ELSE Armed(ids) \ {ids[id]}
<1> DEFINE new == [ids EXCEPT ![id] = NoLine]
<1>1. new[id] = NoLine /\ \A other \in Ids \ {id} : new[other] = ids[other]
  OBVIOUS
<1>2. Armed(new) = {ids[other] : other \in Ids \ {id}} \ {NoLine}
  BY <1>1 DEF Armed
<1> QED BY <1>2 DEF Armed

\* Once the debugger's end is closed only what each side keeps for itself is left.
LEMMA BreakpointsGone ==
    ASSUME FreshIds, PluginArmed, dfd' # "open" \/ ~PluginEnd',
           dpc' \notin {"accept", "handshake", "request"} \/ UNCHANGED dpc,
           dpc' = "request" => ~PluginEnd',
           pfd' \in {pfd, "closed"}, UNCHANGED <<bpVars, debugVars>>
    PROVE  BreakpointInv'
<1>1. FreshIds' /\ PluginArmed'
  BY DEF FreshIds, PluginArmed, Armed, bpVars, debugVars
<1>2. IdsAgree' /\ AnswerDue'
  BY DEF IdsAgree, AnswerDue, Linked, PluginEnd
<1> QED BY <1>1, <1>2 DEF BreakpointInv

\* A request that a linked plugin answers.
LEMMA AnswerBreakpoints ==
    ASSUME Known, PhaseInv, BreakpointInv, NEW m \in Requests, NEW reply \in Replies,
           Receive(m), Answer(reply), UNCHANGED backendVars,
           dfd = "open" /\ dpc = "request" /\ m = pending =>
             /\ reply \in AnswersTo(m)
             /\ breakpoint_lines' = Armed(breakpoint_ids')
             /\ \A id \in Ids \ Unregistered : breakpoint_ids'[id] = breakpoints[id]
             /\ \A id \in Unregistered : breakpoint_ids'[id] = NoLine
    PROVE  BreakpointInv'
<1>0. UNCHANGED <<dfd, dpc, pending, after, todo, breakpoints, next_id, stopped>>
  BY DEF Receive, backendVars, callVars, bpVars, stopVars
<1>1. FreshIds'
  BY <1>0 DEF BreakpointInv, FreshIds
<1>2. CASE dfd = "closed"
  <2>1. pfd' = "closed" /\ dpc \notin {"accept", "handshake", "request"}
    BY <1>2 DEF Answer, DebuggerEnd, ClosePluginEnd, Known, EndsInv
  <2> QED BY <1>0, <1>1, <2>1
          DEF BreakpointInv, PluginArmed, IdsAgree, AnswerDue, Linked, PluginEnd
<1>3. CASE dfd = "open"
  <2>1. dpc = "request" /\ m = pending /\ toPlugin = <<m>> /\ toDebugger = <<>> /\ pfd = "open"
    BY <1>3, CommandUnderWay, Verbs
  <2>2. toDebugger' = <<reply>> /\ toPlugin' = <<>> /\ UNCHANGED pfd
    BY <1>3, <2>1, OneLine DEF Answer, DebuggerEnd
  <2>3. PluginArmed'
    BY <1>0, <1>3, <2>1 DEF PluginArmed
  <2>4. Unregistered' = Unregistered /\ Unheard' = {}
    BY <1>0, <2>2 DEF Unregistered, Unheard
  <2>5. IdsAgree'
    BY <1>0, <1>3, <2>1, <2>4 DEF IdsAgree
  <2>6. \A n \in Replies : toDebugger' = <<n>> => n \in AnswersTo(pending)'
    BY <1>0, <1>3, <2>1, <2>2, OneLine DEF AnswersTo
  <2>7. AnswerDue'
    BY <1>0, <2>1, <2>2, <2>6 DEF AnswerDue, BreakpointInv, PluginEnd
  <2> QED BY <1>1, <2>3, <2>5, <2>7 DEF BreakpointInv
<1> QED BY <1>2, <1>3, CommandUnderWay

\* serve() keeps the breakpoints of both ends in agreement.
LEMMA BreakpointsServe ==
    ASSUME Known, PhaseInv, SelectionInv, BreakpointInv, Serve, UNCHANGED backendVars
    PROVE  BreakpointInv'
<1>0. PluginTypeOK /\ BackendTypeOK
      /\ UNCHANGED <<dpc, pending, after, todo, breakpoints, next_id, stopped>>
  BY DEF Known, TypeInv, TypeOK, backendVars, callVars, bpVars, stopVars
<1>1. ASSUME NEW m \in Resumptions, Receive(m), Leave, UNCHANGED debugVars PROVE BreakpointInv'
  <2>1. UNCHANGED <<dfd, pfd>> /\ PluginEnd
    BY <1>1, CommandUnderWay DEF Receive, Leave, PluginEnd
  <2>2. dfd # "open" \/ dpc = "resumed"
    BY <1>1, CommandUnderWay, Verbs DEF PhaseInv, Asking, PluginEnd
  <2>3. Known => dpc # "request" \/ dfd = "open"
    BY <1>0 DEF Known, EndsInv, TypeInv, TypeOK, WireTypeOK
  <2>4. Unregistered' = Unregistered /\ Unheard' = {} /\ (dfd = "open" => Unheard = {})
    BY <1>0, <2>2, <2>3 DEF Unregistered, Unheard
  <2> QED BY <1>0, <1>1, <2>1, <2>2, <2>3, <2>4
          DEF BreakpointInv, FreshIds, PluginArmed, IdsAgree, AnswerDue, Linked, PluginEnd,
              Armed, debugVars
<1>2. CASE HandleContinue
  BY <1>1, <1>2, Verbs DEF HandleContinue
\* The answers that leave the breakpoints alone.
<1>3. ASSUME NEW m \in Requests, NEW reply \in Replies, Receive(m), Answer(reply),
             m.verb \notin {"break", "delete"}, UNCHANGED debugVars,
             dfd = "open" /\ dpc = "request" => reply \in AnswersTo(m)
      PROVE  BreakpointInv'
  <2>1. dfd = "open" /\ dpc = "request" /\ m = pending =>
             /\ breakpoint_lines' = Armed(breakpoint_ids')
             /\ \A id \in Ids \ Unregistered : breakpoint_ids'[id] = breakpoints[id]
             /\ \A id \in Unregistered : breakpoint_ids'[id] = NoLine
    BY <1>3, CommandUnderWay
       DEF BreakpointInv, PluginArmed, IdsAgree, Linked, PluginEnd, Unheard, Armed, debugVars
  <2> QED BY <1>3, <2>1, AnswerBreakpoints
<1>4. ASSUME NEW how \in StepKinds, HandleStep(how) PROVE BreakpointInv'
  <2>1. CASE Leave
    BY <1>1, <1>4, <2>1, Verbs DEF HandleStep
  <2>2. CASE current = NoWI /\ Answer(Err)
    <3>1. dfd = "closed"
      BY <1>4, <2>2, CommandUnderWay, Verbs DEF HandleStep, PhaseInv, Asking, PluginEnd
    <3>2. pfd' = "closed" /\ UNCHANGED dfd /\ dpc \notin {"accept", "handshake", "request"}
      BY <1>4, <2>2, <3>1 DEF HandleStep, Receive, Answer, DebuggerEnd, ClosePluginEnd, Known, EndsInv
    <3> QED BY <1>0, <1>4, <3>2, BreakpointsGone DEF HandleStep, BreakpointInv, PluginEnd, bpVars
  <2> QED BY <1>4, <2>1, <2>2 DEF HandleStep
<1>5. ASSUME NEW id \in Ids, NEW line \in Lines, HandleBreak(id, line) PROVE BreakpointInv'
  <2>1. Break(id, line) \in Requests /\ Break(id, line).verb = "break"
        /\ Break(id, line).id = id /\ Break(id, line).line = line /\ Ok \in Replies
    BY RequestLines, ReplyLines DEF Break
  <2>2. Ok \in AnswersTo(Break(id, line))
    BY <2>1 DEF AnswersTo
  <2>3. ASSUME dfd = "open", dpc = "request", Break(id, line) = pending
        PROVE  /\ breakpoint_lines' = Armed(breakpoint_ids')
               /\ \A other \in Ids \ Unregistered : breakpoint_ids'[other] = breakpoints[other]
               /\ \A other \in Unregistered : breakpoint_ids'[other] = NoLine
    <3>1. PluginEnd /\ toPlugin # <<>>
      BY <1>5, CommandUnderWay DEF HandleBreak, Receive, PluginEnd
    <3>2. breakpoint_ids[id] = NoLine /\ breakpoints[id] = line /\ id \notin Unregistered
          /\ Unheard = {id}
      BY <2>1, <2>3, <3>1 DEF BreakpointInv, AnswerDue, Unheard, Unregistered
    <3>3. breakpoint_lines = Armed(breakpoint_ids) /\ breakpoint_ids \in [Ids -> MaybeLine]
      BY <1>0, <3>1 DEF BreakpointInv, PluginArmed, PluginEnd, PluginTypeOK
    <3>4. breakpoint_lines' = Armed(breakpoint_ids')
      BY <1>5, <3>2, <3>3, ArmedNew DEF HandleBreak
    <3>5. breakpoint_ids'[id] = line /\ \A o \in Ids \ {id} : breakpoint_ids'[o] = breakpoint_ids[o]
      BY <1>5, <3>3 DEF HandleBreak
    <3>6. Unregistered \subseteq Ids
      BY <1>0 DEF Unregistered, BackendTypeOK
    <3> QED BY <2>3, <3>1, <3>2, <3>4, <3>5, <3>6 DEF BreakpointInv, IdsAgree, Linked
  <2> QED BY <1>5, <2>1, <2>2, <2>3, AnswerBreakpoints DEF HandleBreak
<1>6. ASSUME NEW id \in Ids, HandleDelete(id) PROVE BreakpointInv'
  <2>1. Delete(id) \in Requests /\ Delete(id).verb = "delete" /\ Delete(id).id = id
        /\ Ok \in Replies /\ Err \in Replies
    BY RequestLines, ReplyLines DEF Delete
  <2>2. Ok \in AnswersTo(Delete(id)) /\ Receive(Delete(id))
    BY <1>6, <2>1 DEF AnswersTo, HandleDelete
  <2>3. ASSUME dfd = "open", dpc = "request", Delete(id) = pending
        PROVE  /\ breakpoint_ids[id] # NoLine
               /\ breakpoint_lines' = Armed(breakpoint_ids')
               /\ \A other \in Ids \ Unregistered : breakpoint_ids'[other] = breakpoints[other]
               /\ \A other \in Unregistered : breakpoint_ids'[other] = NoLine
    <3>1. PluginEnd /\ toPlugin # <<>>
      BY <2>2, CommandUnderWay DEF Receive, PluginEnd
    <3>2. breakpoint_ids[id] # NoLine /\ breakpoints[id] = NoLine /\ Unregistered = {}
          /\ Unheard = {id}
      BY <2>1, <2>3, <3>1 DEF BreakpointInv, AnswerDue, Unheard, Unregistered, Known, PurposeInv
    <3>3. breakpoint_lines = Armed(breakpoint_ids) /\ breakpoint_ids \in [Ids -> MaybeLine]
      BY <1>0, <3>1 DEF BreakpointInv, PluginArmed, PluginEnd, PluginTypeOK
    <3>4. breakpoint_lines' = Armed(breakpoint_ids')
      BY <1>6, <3>2, <3>3, ArmedLess DEF HandleDelete
    <3>5. breakpoint_ids'[id] = NoLine /\ \A o \in Ids \ {id} : breakpoint_ids'[o] = breakpoint_ids[o]
      BY <1>6, <3>2, <3>3 DEF HandleDelete
    <3> QED BY <2>3, <3>1, <3>2, <3>4, <3>5 DEF BreakpointInv, IdsAgree, Linked
  <2>4. CASE breakpoint_ids[id] = NoLine /\ Answer(Err)
    BY <2>1, <2>2, <2>3, <2>4, AnswerBreakpoints
  <2>5. CASE Answer(Ok)
    BY <2>1, <2>2, <2>3, <2>5, AnswerBreakpoints
  <2> QED BY <1>6, <2>4, <2>5 DEF HandleDelete
<1>7. ASSUME NEW wi \in GlobalIds, HandleSelect(wi) PROVE BreakpointInv'
  <2>1. Select(wi) \in Requests /\ Select(wi).verb = "select" /\ Located \in Replies /\ Err \in Replies
    BY RequestLines, ReplyLines DEF Select
  <2>2. {Located, Err} \subseteq AnswersTo(Select(wi))
    BY <2>1 DEF AnswersTo
  <2> QED BY <1>3, <1>7, <2>1, <2>2 DEF HandleSelect
<1>8. CASE HandlePrint
  <2>1. PrintExpr \in Requests /\ PrintExpr.verb = "print" /\ Err \in Replies
    BY RequestLines, ReplyLines DEF PrintExpr
  <2>2. Err \in AnswersTo(PrintExpr) /\ Value(stopped) \in AnswersTo(PrintExpr)
    BY <2>1 DEF AnswersTo
  <2>3. CASE current # NoWI /\ Answer(Value(current))
    <3>1. Value(current) \in Replies
      BY <1>0, <2>3, ReplyLines DEF PluginTypeOK
    <3>2. dfd = "open" /\ dpc = "request" => current = stopped
      <4>1. SUFFICES ASSUME dfd = "open", dpc = "request" PROVE current = stopped
        OBVIOUS
      <4>2. PluginEnd /\ toDebugger = <<>> /\ invocation
        BY <1>8, <2>3, <4>1, CommandUnderWay DEF HandlePrint, PluginEnd, Known, EndsInv
      <4> QED BY <4>1, <4>2, OneLine DEF SelectionInv
    <3> QED BY <1>3, <1>8, <2>1, <2>2, <2>3, <3>1, <3>2 DEF HandlePrint
  <2>4. CASE Answer(Err)
    BY <1>3, <1>8, <2>1, <2>2, <2>4 DEF HandlePrint
  <2> QED BY <1>8, <2>3, <2>4 DEF HandlePrint
<1>9. CASE HandleRead
  <2>1. ReadMemory \in Requests /\ ReadMemory.verb = "read"
    BY RequestLines DEF ReadMemory
  <2>2. {Data, Err} \subseteq Replies /\ {Data, Err} = AnswersTo(ReadMemory)
    BY <2>1, ReplyLines DEF AnswersTo
  <2> QED BY <1>3, <1>9, <2>1, <2>2 DEF HandleRead
<1>10. CASE ServeEof
  <2>1. dfd = "closed" /\ pfd' = "closed" /\ UNCHANGED dfd
        /\ dpc \notin {"accept", "handshake", "request"}
    BY <1>10, EofUnderWay DEF ServeEof, ClosePluginEnd, Known, EndsInv
  <2> QED BY <1>0, <1>10, <2>1, BreakpointsGone
          DEF ServeEof, BreakpointInv, PluginEnd, bpVars, pluginVars
<1> QED BY <1>2, <1>4, <1>5, <1>6, <1>7, <1>8, <1>9, <1>10 DEF Serve

\* The interpreter does not touch the breakpoints.
LEMMA BreakpointsHostRuns ==
    ASSUME Known, PhaseInv, BreakpointInv, HostRuns, UNCHANGED backendVars PROVE BreakpointInv'
<1>1. UNCHANGED <<debugVars, bpVars, dpc, todo, after, pending, dfd>> /\ host # "serving"
      /\ pfd' \in {pfd, "closed"} \cup (IF Connect THEN {"open"} ELSE {})
  <2>1. UNCHANGED <<bpVars, dpc, todo, after, pending>>
    BY DEF backendVars, callVars
  <2>2. CASE Connect \/ SendReady
    BY <2>1, <2>2 DEF Connect, SendReady, SendAndServe, ClosePluginEnd, pluginVars
  <2>3. CASE KernelBegin \/ KernelEnd \/ ReleasePlugin \/ HostExit
    BY <2>1, <2>3 DEF KernelBegin, KernelEnd, ReleasePlugin, HostExit, EndProcess, pluginVars, wireVars
  <2>4. ASSUME NEW wi \in WorkItems,
               Finish(wi) \/ \E line \in MaybeLine, d \in Depths : Execute(wi, line, d)
        PROVE  UNCHANGED <<debugVars, dfd>> /\ host # "serving" /\ pfd' \in {pfd, "closed"}
    BY <2>4 DEF Finish, Execute, SendAndServe, ClosePluginEnd, wireVars
  <2> QED BY <2>1, <2>2, <2>3, <2>4 DEF HostRuns
<1>2. Connect => pfd = "none" /\ dfd # "open"
  BY DEF Connect, Known, EndsInv
<1>3. PluginEnd => dpc # "request"
  BY <1>1 DEF PhaseInv, Asking
<1>4. dpc = "request" => dfd = "open"
  BY DEF Known, EndsInv, TypeInv, TypeOK, WireTypeOK
<1>5. FreshIds' /\ PluginArmed'
  BY <1>1, <1>2 DEF BreakpointInv, FreshIds, PluginArmed, Armed, bpVars, debugVars
<1>6. PluginEnd' /\ dfd' = "open" => PluginEnd /\ dfd = "open" /\ dpc # "request"
  BY <1>1, <1>2, <1>3 DEF PluginEnd
<1>7. dpc # "request" => Unheard' = {} /\ Unheard = {} /\ Unregistered' = Unregistered
  BY <1>1 DEF Unheard, Unregistered
<1>8. IdsAgree'
  BY <1>1, <1>6, <1>7 DEF BreakpointInv, IdsAgree, Linked, bpVars, debugVars
<1>9. AnswerDue'
  BY <1>1, <1>4, <1>6 DEF AnswerDue
<1> QED BY <1>5, <1>8, <1>9 DEF BreakpointInv

\* A request the debugger sends: the ids of launch() and the id it names are
\* the ones the plugin has not heard of.
LEMMA RequestBreakpoints ==
    ASSUME Known, PhaseInv, BreakpointInv, NEW m \in Requests, NEW why,
           NEW failed \in {"idle", "register"}, dpc = failed, Request(m, why, failed),
           UNCHANGED <<pfd, host, debugVars>>, FreshIds',
           PluginEnd /\ dfd = "open" /\ dpc' = "request" =>
             /\ m.verb = "break" =>
                  /\ breakpoints'[m.id] = m.line /\ breakpoint_ids[m.id] = NoLine
                  /\ why = "launch" => m.id \notin todo'
             /\ m.verb = "delete" => breakpoints'[m.id] = NoLine /\ breakpoint_ids[m.id] # NoLine
             /\ \A id \in (IF why = "launch" THEN todo' ELSE {}) : breakpoint_ids[id] = NoLine
             /\ \A id \in Ids : \/ id \in (IF why = "launch" THEN todo' ELSE {})
                                \/ m.verb \in {"break", "delete"} /\ id = m.id
                                \/ breakpoint_ids[id] = breakpoints'[id]
    PROVE  BreakpointInv'
<1>1. dpc' \notin {"accept", "handshake"} /\ UNCHANGED pfd
  BY DEF Request, SendCommand
<1>2. PluginArmed'
  BY <1>1 DEF BreakpointInv, PluginArmed, Armed, debugVars
<1>3. CASE dfd = "open" /\ PluginEnd
  <2>1. toPlugin = <<>> /\ toDebugger = <<>>
    BY <1>3 DEF PhaseInv, Waiting
  <2>2. dpc' = "request" /\ pending' = m /\ after' = why /\ toDebugger' = <<>> /\ toPlugin' = <<m>>
    BY <1>3, <2>1, OneLine DEF Request, SendCommand
  <2>3. toPlugin' # <<>> /\ \A n : toDebugger' # <<n>>
    BY <2>2, OneLine
  <2>4. /\ Unregistered' = IF why = "launch" THEN todo' ELSE {}
        /\ Unheard' = IF m.verb \in {"break", "delete"} THEN {m.id} ELSE {}
    BY <2>2, <2>3 DEF Unregistered, Unheard
  <2>5. IdsAgree'
    <3>1. \A id \in Unregistered' : breakpoint_ids'[id] = NoLine
      BY <1>3, <2>2, <2>4 DEF debugVars
    <3>2. \A id \in Ids \ (Unregistered' \cup Unheard') : breakpoint_ids'[id] = breakpoints'[id]
      BY <1>3, <2>2, <2>4 DEF debugVars
    <3> QED BY <3>1, <3>2 DEF IdsAgree
  <2>6. AnswerDue'
    BY <1>3, <2>2, <2>3 DEF AnswerDue, debugVars
  <2> QED BY <1>2, <2>5, <2>6 DEF BreakpointInv
<1>4. CASE ~(dfd = "open" /\ PluginEnd)
  <2>1. dpc' # "request" /\ (dfd' # "open" \/ ~PluginEnd')
    BY <1>4 DEF Request, SendCommand, CloseDebuggerEnd, PluginEnd
  <2> QED BY <1>2, <2>1 DEF IdsAgree, AnswerDue, Linked, BreakpointInv
<1> QED BY <1>3, <1>4

\* A call of the client keeps the breakpoints in agreement.
LEMMA BreakpointsClient ==
    ASSUME Known, PhaseInv, BreakpointInv, Client, UNCHANGED pluginVars PROVE BreakpointInv'
<1> USE DEF pluginVars, bpVars, Ask
<1>0. BackendTypeOK /\ FreshIds /\ PluginArmed
  BY DEF Known, TypeInv, TypeOK, BreakpointInv
\* Linked and at rest, both ends hold the same ids.
<1>1. ASSUME dpc = "idle", PluginEnd, dfd = "open"
      PROVE  \A id \in Ids : breakpoint_ids[id] = breakpoints[id]
  BY <1>1 DEF BreakpointInv, IdsAgree, Linked, Unregistered, Unheard
<1>2. CASE Detach
  <2>1. dpc' = "waitpid" /\ dfd' = "closed" /\ UNCHANGED <<pfd, bpVars, debugVars>>
    BY <1>2 DEF Detach, BeginDetach, CloseDebuggerEnd
  <2> QED BY <1>0, <2>1, BreakpointsGone
<1>3. CASE resume
  <2>1. CASE PluginEnd /\ dfd = "open"
    <3>1. /\ dpc = "idle" /\ dpc' = "resumed" /\ Unregistered' = {} /\ Unheard' = {}
          /\ UNCHANGED <<pfd, bpVars, debugVars>>
      BY <1>3, <2>1 DEF resume, ResumeWith, SendCommand, Unregistered, Unheard
    <3> QED BY <1>0, <1>1, <2>1, <3>1
            DEF BreakpointInv, FreshIds, PluginArmed, Armed, IdsAgree, AnswerDue, debugVars
  <2>2. CASE ~(PluginEnd /\ dfd = "open")
    <3>1. dpc' \in {"idle", "dead"} /\ (dfd' # "open" \/ ~PluginEnd') /\ UNCHANGED <<pfd, bpVars, debugVars>>
      BY <1>3, <2>2 DEF resume, ResumeWith, SendCommand, CloseDebuggerEnd, PluginEnd
    <3> QED BY <1>0, <3>1, BreakpointsGone
  <2> QED BY <2>1, <2>2
<1>4. ASSUME NEW m \in Requests, NEW why, why # "launch", m.verb \notin {"break", "delete"},
             dpc = "idle", Ask(m, why), UNCHANGED bpVars
      PROVE  BreakpointInv'
  <2>1. FreshIds'
    BY <1>0, <1>4 DEF FreshIds
  <2> QED BY <1>1, <1>4, <2>1, RequestBreakpoints DEF debugVars
<1>5. CASE read_global_memory \/ evaluate
  BY <1>5, <1>4, RequestLines DEF read_global_memory, evaluate, ReadMemory, PrintExpr
<1>6. ASSUME NEW wi \in GlobalIds, NEW why \in {"client"} \cup StepKinds, select_work_item(wi, why)
      PROVE  BreakpointInv'
  <2>1. Select(wi).verb = "select" /\ why # "launch"
    BY DEF Select, StepKinds
  <2> QED BY <1>4, <1>6, <2>1, RequestLines DEF select_work_item
<1>7. ASSUME NEW line \in Lines, set_breakpoint(line) PROVE BreakpointInv'
  <2>1. next_id \in Ids /\ breakpoints[next_id] = NoLine /\ next_id' = next_id + 1 /\ dpc = "idle"
    BY <1>0, <1>7 DEF set_breakpoint, Ids, BackendTypeOK, FreshIds
  <2>2. breakpoints' \in {breakpoints, [breakpoints EXCEPT ![next_id] = line]}
    BY <1>7 DEF set_breakpoint
  <2>3. FreshIds'
    <3> SUFFICES ASSUME NEW id \in Ids, id >= next_id' PROVE breakpoints'[id] = NoLine
      BY DEF FreshIds
    <3>1. id # next_id /\ id >= next_id
      BY <1>0, <2>1 DEF Ids, BackendTypeOK
    <3> QED BY <1>0, <2>2, <3>1 DEF FreshIds, BackendTypeOK
  <2>4. CASE Quietly /\ ~halted
    <3>1. dfd' # "open" \/ ~PluginEnd'
      BY <2>1, <2>4 DEF PhaseInv, Waiting, Quietly, wireVars, PluginEnd
    <3>2. PluginArmed' /\ IdsAgree' /\ AnswerDue'
      BY <1>0, <2>1, <2>4, <3>1
         DEF PluginArmed, Armed, debugVars, Quietly, wireVars, IdsAgree, AnswerDue, Linked
    <3> QED BY <2>3, <3>2 DEF BreakpointInv
  <2>5. CASE halted
    <3>1. Ask(Break(next_id, line), "client") /\ Break(next_id, line) \in Requests
          /\ Break(next_id, line).verb = "break" /\ Break(next_id, line).id = next_id
          /\ Break(next_id, line).line = line
      BY <1>7, <2>1, <2>5, RequestLines DEF set_breakpoint, Break
    <3>2. ASSUME PluginEnd, dfd = "open", dpc' = "request"
          PROVE  /\ breakpoints'[next_id] = line /\ breakpoint_ids[next_id] = NoLine
                 /\ \A id \in Ids \ {next_id} : breakpoint_ids[id] = breakpoints'[id]
      BY <1>0, <1>1, <1>7, <2>1, <2>5, <3>2 DEF set_breakpoint, BackendTypeOK
    <3> QED BY <2>1, <2>3, <3>1, <3>2, RequestBreakpoints DEF debugVars
  <2> QED BY <1>7, <2>4, <2>5 DEF set_breakpoint
<1>8. ASSUME NEW id \in Ids, remove_breakpoint(id) PROVE BreakpointInv'
  <2>1. dpc = "idle" /\ breakpoints[id] # NoLine /\ UNCHANGED next_id
        /\ breakpoints' \in {breakpoints, [breakpoints EXCEPT ![id] = NoLine]}
    BY <1>8 DEF remove_breakpoint
  <2>2. FreshIds'
    BY <1>0, <2>1 DEF FreshIds, BackendTypeOK
  <2>3. CASE Quietly /\ ~halted
    <3>1. dfd' # "open" \/ ~PluginEnd'
      BY <2>1, <2>3 DEF PhaseInv, Waiting, Quietly, wireVars, PluginEnd
    <3>2. PluginArmed' /\ IdsAgree' /\ AnswerDue'
      BY <1>0, <2>1, <2>3, <3>1
         DEF PluginArmed, Armed, debugVars, Quietly, wireVars, IdsAgree, AnswerDue, Linked
    <3> QED BY <2>2, <3>2 DEF BreakpointInv
  <2>4. CASE halted
    <3>1. Ask(Delete(id), "client") /\ Delete(id) \in Requests
          /\ Delete(id).verb = "delete" /\ Delete(id).id = id
      BY <1>8, <2>4, RequestLines DEF remove_breakpoint, Delete
    <3>2. ASSUME PluginEnd, dfd = "open", dpc' = "request"
          PROVE  /\ breakpoints'[id] = NoLine /\ breakpoint_ids[id] # NoLine
                 /\ \A other \in Ids \ {id} : breakpoint_ids[other] = breakpoints'[other]
      BY <1>0, <1>1, <1>8, <2>1, <2>4, <3>2 DEF remove_breakpoint, BackendTypeOK
    <3> QED BY <2>1, <2>2, <3>1, <3>2, RequestBreakpoints DEF debugVars
  <2> QED BY <1>8, <2>3, <2>4 DEF remove_breakpoint
<1> QED BY <1>2, <1>3, <1>5, <1>6, <1>7, <1>8 DEF Client, step

\* The steps of a call, launch() among them, keep the agreement.
LEMMA BreakpointsProgress ==
    ASSUME Known, PhaseInv, BreakpointInv, Progress, UNCHANGED pluginVars PROVE BreakpointInv'
<1> USE DEF pluginVars, callVars, stopVars
<1>0. BackendTypeOK /\ FreshIds /\ PluginArmed
  BY DEF Known, TypeInv, TypeOK, BreakpointInv
<1>1. CASE Accept
  <2>1. dpc' = "handshake" /\ dpc = "accept" /\ UNCHANGED <<pfd, bpVars, debugVars>>
    BY <1>1 DEF Accept
  <2> QED BY <1>0, <2>1 DEF BreakpointInv, FreshIds, PluginArmed, Armed, IdsAgree, AnswerDue,
                            Linked, bpVars, debugVars
<1>2. CASE AcceptFails \/ (Handshake /\ dpc' = "waitpid") \/ Reap
  <2>1. dfd' # "open" /\ dpc' \in {"waitpid", "idle"} /\ UNCHANGED <<pfd, bpVars, debugVars>>
    BY <1>2 DEF AcceptFails, HostEndedFirst, PollFails,
      Handshake, Reap, BeginDetach, CloseDebuggerEnd, wireVars, Known, EndsInv
  <2> QED BY <1>0, <2>1, BreakpointsGone
<1>3. CASE Handshake /\ dpc' # "waitpid"
  <2>1. dpc = "handshake" /\ dpc' = "register" /\ todo' = Registered
        /\ UNCHANGED <<pfd, bpVars, debugVars>>
    BY <1>3 DEF Handshake, BeginDetach
  <2>2. Unregistered' = Registered /\ Unheard' = {}
    BY <2>1 DEF Unregistered, Unheard
  <2>3. IdsAgree'
    BY <1>0, <2>1, <2>2 DEF IdsAgree, Linked, PluginArmed, PluginEnd, Registered, bpVars, debugVars
  <2> QED BY <1>0, <2>1, <2>3 DEF BreakpointInv, FreshIds, PluginArmed, Armed, AnswerDue, bpVars, debugVars
<1>4. CASE Register
  <2>0. dpc = "register" /\ UNCHANGED <<pfd, bpVars, debugVars>> /\ FreshIds'
    BY <1>0, <1>4 DEF Register, FreshIds, bpVars
  <2>1. CASE todo = {} /\ dpc' = "idle" /\ UNCHANGED <<callVars, toPlugin, toDebugger, dfd, listening>>
    <3>1. Unregistered = {} /\ Unheard = {} /\ Unregistered' = {} /\ Unheard' = {}
      BY <2>0, <2>1 DEF Unregistered, Unheard
    <3> QED BY <2>0, <2>1, <3>1 DEF BreakpointInv, PluginArmed, Armed, IdsAgree, AnswerDue, Linked,
                                    PluginEnd, bpVars, debugVars
  <2>2. ASSUME NEW id \in todo, todo' = todo \ {id},
               Request(Break(id, breakpoints[id]), "launch", "register")
        PROVE  BreakpointInv'
    <3>1. id \in Ids /\ breakpoints[id] \in Lines
      BY <2>0, <2>2 DEF Known, TypeInv, TodoRegistered, Registered, TypeOK, BackendTypeOK, MaybeLine
    <3>2. Break(id, breakpoints[id]) \in Requests /\ Break(id, breakpoints[id]).verb = "break"
          /\ Break(id, breakpoints[id]).id = id /\ Break(id, breakpoints[id]).line = breakpoints[id]
      BY <3>1, RequestLines DEF Break
    <3>3. Unregistered = todo /\ Unheard = {}
      BY <2>0 DEF Unregistered, Unheard
    <3>4. ASSUME PluginEnd, dfd = "open"
          PROVE  /\ \A other \in todo : breakpoint_ids[other] = NoLine
                 /\ \A other \in Ids \ todo : breakpoint_ids[other] = breakpoints'[other]
      BY <2>0, <3>3, <3>4 DEF BreakpointInv, IdsAgree, Linked, bpVars
    <3>5. UNCHANGED <<host, breakpoints>>
      BY <1>4 DEF Register, bpVars
    <3> QED BY <2>0, <2>2, <3>1, <3>2, <3>4, <3>5, RequestBreakpoints
  <2> QED BY <1>4, <2>1, <2>2 DEF Register
<1>5. CASE ReceiveReply
  <2>1. /\ dpc = "request" /\ dpc' = (IF pending.verb = "break" /\ after = "launch" THEN "register"
                                      ELSE dpc') /\ dpc' \in {"idle", "register", "stepping"}
        /\ DebuggerReadable /\ UNCHANGED <<pfd, dfd, next_id, todo, debugVars>>
        /\ dpc' = "register" => after = "launch"
    BY <1>5 DEF ReceiveReply, BreakReply, SelectReply, OtherReply, Answered, TakeReply
  <2>2. breakpoints' = breakpoints \/ (pending.id \in Ids /\ pending.verb = "break"
          /\ breakpoints' = [breakpoints EXCEPT ![pending.id] = NoLine])
    BY <1>0, <1>5, BreakNames DEF ReceiveReply, BreakReply, SelectReply, OtherReply, BackendTypeOK
  <2>3. FreshIds'
    BY <1>0, <2>1, <2>2 DEF FreshIds, BackendTypeOK
  <2>4. PluginArmed' /\ AnswerDue'
    BY <1>0, <2>1 DEF PluginArmed, Armed, AnswerDue, debugVars
  <2>5. CASE PluginEnd /\ dfd = "open"
    <3>1. PICK m \in Replies : toDebugger = <<m>> /\ Head(toDebugger) = m /\ toPlugin = <<>>
      BY <2>1, <2>5, ReplyUnderWay
    <3>2. m \in AnswersTo(pending)
      BY <2>1, <2>5, <3>1 DEF BreakpointInv, AnswerDue
    <3>3. pending.verb = "break" => m = Ok
      BY <3>2 DEF AnswersTo
    <3>4. UNCHANGED breakpoints
      BY <1>5, <3>1, <3>3, OneLine DEF ReceiveReply, BreakReply, SelectReply, OtherReply, Answered
    <3>5. Unheard = {} /\ Unheard' = {}
      BY <2>1, <3>1 DEF Unheard
    <3>6. after = "launch" => pending.verb = "break"
      BY <1>0, <1>5 DEF ReceiveReply, BreakReply, SelectReply, OtherReply, Known, PurposeInv, StepKinds,
                        Answered
    <3>7. Unregistered' = Unregistered
      BY <2>1, <3>6 DEF Unregistered
    <3>8. IdsAgree'
      BY <2>1, <2>5, <3>4, <3>5, <3>7 DEF BreakpointInv, IdsAgree, Linked, PluginEnd, debugVars
    <3> QED BY <2>3, <2>4, <3>8 DEF BreakpointInv
  <2>6. CASE ~(PluginEnd /\ dfd = "open")
    BY <2>1, <2>3, <2>4, <2>6 DEF BreakpointInv, IdsAgree, Linked, PluginEnd
  <2> QED BY <2>5, <2>6
<1>6. CASE SendStep
  <2>1. dpc = "stepping" /\ dpc' \in {"resumed", "idle", "dead"} /\ UNCHANGED <<pfd, bpVars, debugVars>>
        /\ (PluginEnd' /\ dfd' = "open" => PluginEnd /\ dfd = "open")
    BY <1>6 DEF SendStep, ResumeWith, SendCommand, CloseDebuggerEnd, PluginEnd
  <2>2. Unregistered = {} /\ Unheard = {} /\ Unregistered' = {} /\ Unheard' = {}
    BY <2>1 DEF Unregistered, Unheard
  <2> QED BY <2>1, <2>2 DEF BreakpointInv, FreshIds, PluginArmed, Armed, IdsAgree, AnswerDue, Linked,
                            bpVars, debugVars
<1>7. CASE ReceiveEvent
  <2>1. dpc = "resumed" /\ dpc' = "idle" /\ UNCHANGED <<pfd, bpVars, debugVars>>
        /\ dfd' \in {dfd, "closed"}
    BY <1>7 DEF ReceiveEvent, CloseDebuggerEnd
  <2>2. Unregistered = {} /\ Unheard = {} /\ Unregistered' = {} /\ Unheard' = {}
    BY <2>1 DEF Unregistered, Unheard
  <2> QED BY <2>1, <2>2 DEF BreakpointInv, FreshIds, PluginArmed, Armed, IdsAgree, AnswerDue, Linked,
                            PluginEnd, bpVars, debugVars
<1> QED BY <1>1, <1>2, <1>3, <1>4, <1>5, <1>6, <1>7 DEF Progress

\* The breakpoints of both ends are related at all times.
LEMMA BreakpointInvariant == Spec => []BreakpointInv
<1>1. Init => BreakpointInv
  <2> SUFFICES ASSUME Init PROVE BreakpointInv
    OBVIOUS
  <2>1. FreshIds /\ PluginArmed
    BY DEF Init, BackendInit, PluginInit, FreshIds, PluginArmed, Armed
  <2>2. IdsAgree /\ AnswerDue
    BY DEF Init, WireInit, IdsAgree, AnswerDue, Linked, PluginEnd
  <2> QED BY <2>1, <2>2 DEF BreakpointInv
<1>2. ASSUME Known, PhaseInv, SelectionInv, BreakpointInv, [Next]_vars PROVE BreakpointInv'
  <2>0. FreshIds /\ PluginArmed
    BY <1>2 DEF BreakpointInv
  <2>1. CASE LaunchHost
    <3>1. pfd' = "none" /\ dfd' = "none" /\ dpc' = "accept" /\ UNCHANGED bpVars
          /\ breakpoint_lines' = {} /\ breakpoint_ids' = [id \in Ids |-> NoLine]
      BY <2>1 DEF LaunchHost, Launch, Exec
    <3>2. FreshIds' /\ PluginArmed'
      BY <2>0, <3>1 DEF FreshIds, PluginArmed, Armed, bpVars
    <3> QED BY <3>1, <3>2 DEF BreakpointInv, IdsAgree, AnswerDue, Linked, PluginEnd
  <2>2. CASE DebuggerKilled /\ UNCHANGED pluginVars
    <3>1. dfd' = "closed" /\ dpc' = "dead" /\ UNCHANGED <<pfd, bpVars, debugVars>>
      BY <2>2 DEF DebuggerKilled, CloseDebuggerEnd, pluginVars
    <3> QED BY <2>0, <3>1, BreakpointsGone
  <2>3. CASE HostKilled /\ UNCHANGED backendVars
    <3>1. pfd' \in {pfd, "closed"} /\ ~PluginEnd' /\ UNCHANGED <<dpc, bpVars, debugVars>>
      BY <2>3 DEF HostKilled, EndProcess, PluginEnd, backendVars, pluginVars
    <3> QED BY <2>0, <3>1, BreakpointsGone
  <2>4. CASE UNCHANGED vars
    <3>1. UNCHANGED <<dpc, dfd, pfd, toPlugin, toDebugger, pending, after, todo, breakpoints,
                      next_id, stopped, breakpoint_ids, breakpoint_lines>>
      BY <2>4 DEF vars, wireVars, pluginVars, debugVars, backendVars, bpVars, callVars, stopVars
    <3>2. UNCHANGED Armed(breakpoint_ids)
      BY <3>1 DEF Armed
    <3>3. FreshIds' /\ PluginArmed'
      BY <1>2, <3>1, <3>2 DEF BreakpointInv, FreshIds, PluginArmed
    <3>4. IdsAgree'
      BY <1>2, <3>1 DEF BreakpointInv, IdsAgree, Linked, PluginEnd, Unregistered, Unheard
    <3>5. AnswerDue'
      BY <1>2, <3>1 DEF BreakpointInv, AnswerDue, AnswersTo, PluginEnd
    <3> QED BY <3>3, <3>4, <3>5 DEF BreakpointInv
  <2> QED BY <1>2, <2>1, <2>2, <2>3, <2>4, BreakpointsServe, BreakpointsHostRuns,
             BreakpointsClient, BreakpointsProgress DEF Next
<1> QED BY <1>1, <1>2, KnownInvariant, PhaseInvariant, SelectionInvariant, PTL DEF Spec

(***************************************************************************)
(* BreakpointsAgree: whenever the client can look, the plugin has exactly  *)
(* the breakpoints of the backend, and halts on exactly their lines.       *)
(***************************************************************************)
THEOREM BreakpointsAgreeAlways == Spec => []BreakpointsAgree
<1>1. Known /\ BreakpointInv => BreakpointsAgree
  <2> SUFFICES ASSUME Known, BreakpointInv, AtHalt, dpc # "register"
               PROVE  breakpoint_ids = breakpoints /\ breakpoint_lines = Armed(breakpoints)
    BY DEF BreakpointsAgree
  <2>1. Linked /\ PluginEnd /\ Unregistered = {} /\ Unheard = {}
    BY DEF AtHalt, Linked, Unregistered, Unheard
  <2>2. \A id \in Ids : breakpoint_ids[id] = breakpoints[id]
    BY <2>1 DEF BreakpointInv, IdsAgree
  <2>3. breakpoint_ids = breakpoints
    BY <2>2 DEF Known, TypeInv, TypeOK, PluginTypeOK, BackendTypeOK
  <2> QED BY <2>1, <2>3 DEF BreakpointInv, PluginArmed, PluginEnd
<1> QED BY <1>1, KnownInvariant, BreakpointInvariant, PTL

(***************************************************************************)
(* RepliesMatch: exchanges are synchronous, and each request is answered   *)
(* by a line that it can be answered by.                                   *)
(***************************************************************************)
THEOREM RepliesMatchAlways == Spec => []RepliesMatch
<1>1. Known /\ PhaseInv /\ BreakpointInv => RepliesMatch
  <2> SUFFICES ASSUME Known, PhaseInv, BreakpointInv, Linked
               PROVE  /\ Len(toPlugin) + Len(toDebugger) <= 1
                      /\ dpc = "request" =>
                           \/ toPlugin = <<pending>>
                           \/ \E m \in AnswersTo(pending) : toDebugger = <<m>>
    BY DEF RepliesMatch
  <2>1. Len(<<>>) = 0 /\ \A m : Len(<<m>>) = 1
    OBVIOUS
  <2>2. PluginEnd /\ dfd = "open" /\ dpc \in {"register", "idle", "stepping", "request", "resumed"}
    BY DEF Linked, Known, EndsInv, TypeInv, TypeOK, BackendTypeOK, Blocked
  <2>3. CASE dpc \in {"register", "idle", "stepping"}
    BY <2>1, <2>2, <2>3 DEF PhaseInv, Waiting
  <2>4. CASE dpc = "request"
    <3>1. Asking
      BY <2>2, <2>4 DEF PhaseInv
    <3>2. CASE toPlugin = <<pending>> /\ toDebugger = <<>>
      <4>1. Len(toPlugin) = 1 /\ Len(toDebugger) = 0
        BY <2>1, <3>2
      <4> QED BY <2>4, <3>2, <4>1
    <3>3. ASSUME NEW m \in Replies, toPlugin = <<>>, toDebugger = <<m>>
          PROVE  /\ Len(toPlugin) + Len(toDebugger) <= 1
                 /\ \E n \in AnswersTo(pending) : toDebugger = <<n>>
      <4>1. Len(toPlugin) = 0 /\ Len(toDebugger) = 1
        BY <2>1, <3>3
      <4>2. m \in AnswersTo(pending)
        BY <2>2, <2>4, <3>3 DEF BreakpointInv, AnswerDue
      <4> QED BY <3>3, <4>1, <4>2
    <3> QED BY <3>1, <3>2, <3>3 DEF Asking
  <2>5. CASE dpc = "resumed"
    <3>1. Resumed
      BY <2>2, <2>5 DEF PhaseInv
    <3>2. /\ toPlugin = <<>> \/ \E m : toPlugin = <<m>>
          /\ toDebugger = <<>> \/ \E m : toDebugger = <<m>>
          /\ toPlugin = <<>> \/ toDebugger = <<>>
      BY <3>1 DEF Resumed
    <3>3. CASE toPlugin = <<>> /\ toDebugger = <<>>
      BY <2>1, <2>5, <3>3
    <3>4. ASSUME NEW m, toPlugin = <<m>>, toDebugger = <<>> PROVE Len(toPlugin) + Len(toDebugger) <= 1
      <4>1. Len(toPlugin) = 1 /\ Len(toDebugger) = 0
        BY <2>1, <3>4
      <4> QED BY <4>1
    <3>5. ASSUME NEW m, toPlugin = <<>>, toDebugger = <<m>> PROVE Len(toPlugin) + Len(toDebugger) <= 1
      <4>1. Len(toPlugin) = 0 /\ Len(toDebugger) = 1
        BY <2>1, <3>5
      <4> QED BY <4>1
    <3> QED BY <2>5, <3>2, <3>3, <3>4, <3>5
  <2> QED BY <2>2, <2>3, <2>4, <2>5
<1> QED BY <1>1, KnownInvariant, PhaseInvariant, BreakpointInvariant, PTL

-----------------------------------------------------------------------------
(* The mode of the plugin.                                                 *)

\* Who is resumed runs, and has an end of its own.
LEMMA ResumedEnds == Known => (dpc = "resumed" => dfd = "open" /\ pfd # "none")
BY DEF Known, EndsInv, TypeInv, TypeOK, WireTypeOK

\* The plugin takes the mode of the resumption it reads.
LEMMA ModeServe ==
    ASSUME Known, PhaseInv, SelectionInv, ModeInv, Serve, UNCHANGED backendVars PROVE ModeInv'
<1>0. UNCHANGED <<dpc, after, stopped, breakpoints>>
  BY DEF backendVars, callVars, stopVars, bpVars
<1>1. CASE dpc # "resumed"
  BY <1>0, <1>1 DEF ModeInv, StopsAreAskedFor
<1>2. CASE dpc = "resumed"
  <2>1. dfd = "open"
    BY <1>2, ResumedEnds
  <2>2. ASSUME NEW m \in Requests PROVE ~Receive(m)
    BY <1>2, <2>1, <2>2, CommandUnderWay, Verbs
  <2>3. CASE HandleContinue
    <3>1. after = "client" /\ toDebugger = <<>> /\ toPlugin = <<Continue>>
      BY <1>2, <2>1, <2>3, CommandUnderWay DEF HandleContinue, ModeInv, PluginEnd
    <3>2. toDebugger' = <<>> /\ mode' = "running" /\ toPlugin' = <<>>
      BY <2>3, <3>1, OneLine DEF HandleContinue, Leave
    <3> QED BY <1>0, <3>1, <3>2, OneLine DEF ModeInv, StopsAreAskedFor, StepKinds
  <2>4. ASSUME NEW how \in StepKinds, HandleStep(how) PROVE ModeInv'
    <3>1. /\ Step(how) = Step(after) /\ after \in StepKinds /\ current # NoWI
          /\ toDebugger = <<>> /\ toPlugin = <<Step(after)>> /\ PluginEnd
      BY <1>2, <2>1, <2>4, CommandUnderWay, Verbs DEF HandleStep, PluginEnd
    <3>2. how = after
      <4>1. Step(how).how = how /\ Step(after).how = after
        BY DEF Step
      <4> QED BY <3>1, <4>1
    <3>3. current = stopped
      BY <1>2, <2>1, <3>1 DEF SelectionInv
    <3>4. toDebugger' = <<>> /\ mode' = how /\ stepping_index' = current /\ toPlugin' = <<>>
      BY <2>4, <3>1, OneLine DEF HandleStep, Leave
    <3> QED BY <1>0, <3>1, <3>2, <3>3, <3>4, OneLine DEF ModeInv, StopsAreAskedFor
  <2>5. ~ServeEof
    BY <2>1, EofUnderWay DEF ServeEof
  <2> QED BY <2>2, <2>3, <2>4, <2>5, RequestLines
          DEF Serve, HandleBreak, HandleDelete, HandleSelect, HandlePrint, HandleRead
<1> QED BY <1>1, <1>2

\* The interpreter halts only as its mode allows.
LEMMA ModeHostRuns ==
    ASSUME Known, PhaseInv, BreakpointInv, ModeInv, HostRuns, UNCHANGED backendVars PROVE ModeInv'
<1>0. UNCHANGED <<dpc, after, stopped, breakpoints>>
  BY DEF backendVars, callVars, stopVars, bpVars
<1>1. CASE dpc # "resumed"
  BY <1>0, <1>1 DEF ModeInv, StopsAreAskedFor
<1>2. CASE dpc = "resumed"
  <2>1. dfd = "open" /\ pfd # "none"
    BY <1>2, ResumedEnds
  <2>2. ~Connect /\ ~SendReady
    BY <1>2, <2>1 DEF Connect, SendReady, Known, EndsInv, PhaseInv, Resumed, PluginEnd
  <2>3. CASE KernelBegin \/ KernelEnd \/ \E wi \in WorkItems : Finish(wi)
    <3>1. UNCHANGED <<mode, stepping_index, toPlugin, toDebugger, pfd>>
      BY <2>3 DEF KernelBegin, KernelEnd, Finish, wireVars, runVars
    <3> QED BY <1>0, <3>1 DEF ModeInv, StopsAreAskedFor, PluginEnd
  <2>4. CASE ReleasePlugin \/ HostExit
    BY <1>0, <2>4 DEF ReleasePlugin, HostExit, EndProcess, ModeInv, StopsAreAskedFor, PluginEnd
  <2>5. ASSUME NEW wi \in WorkItems, NEW line \in MaybeLine, NEW d \in Depths, Execute(wi, line, d)
        PROVE  ModeInv'
    <3>0. UNCHANGED <<mode, stepping_index>>
      BY <2>5 DEF Execute, runVars
    <3>1. CASE ~Halts(wi, line, d)
      BY <1>0, <2>5, <3>0, <3>1 DEF Execute, ModeInv, StopsAreAskedFor, PluginEnd
    <3>2. CASE Halts(wi, line, d)
      <4>1. PluginEnd /\ line \in Lines /\ ShouldHalt(wi, line, d)
        BY <3>2 DEF Halts, MaybeLine, NoLine
      <4>2. toPlugin = <<>> /\ toDebugger = <<>>
        BY <1>2, <2>5, <4>1 DEF Execute, PhaseInv, Resumed
      <4>3. toDebugger' = <<Stopped(wi, line)>> /\ UNCHANGED <<toPlugin, pfd>>
        BY <2>1, <2>5, <3>2, <4>2, OneLine DEF Execute, SendAndServe, DebuggerEnd
      <4>4. IF after \in StepKinds THEN wi = stopped ELSE line \in breakpoint_lines
        BY <1>2, <4>1, <4>2 DEF ModeInv, ShouldHalt, StepKinds
      <4>5. breakpoint_lines = Armed(breakpoints)
        <5>1. \A id \in Ids : breakpoint_ids[id] = breakpoints[id]
          BY <1>2, <2>1, <4>1 DEF BreakpointInv, IdsAgree, Linked, Unregistered, Unheard
        <5> QED BY <4>1, <5>1 DEF BreakpointInv, PluginArmed, PluginEnd, Armed
      <4>6. ASSUME NEW w \in WorkItems, NEW ln \in Lines, toDebugger' = <<Stopped(w, ln)>>
            PROVE  w = wi /\ ln = line
        BY <4>1, <4>3, <4>6, OneLine, Tags
      <4>7. StopsAreAskedFor'
        BY <1>0, <4>4, <4>5, <4>6 DEF StopsAreAskedFor, Armed
      <4> QED BY <1>0, <3>0, <4>1, <4>3, <4>7 DEF ModeInv, PluginEnd
    <3> QED BY <3>1, <3>2
  <2> QED BY <2>2, <2>3, <2>4, <2>5 DEF HostRuns
<1> QED BY <1>1, <1>2

\* A resumption that leaves: the plugin has still to read it.
LEMMA ModeSent ==
    ASSUME Known, PhaseInv, NEW m, ResumeWith(m), dpc \in {"idle", "stepping"},
           m = Continue => after' = "client" \/ dpc' # "resumed", UNCHANGED pfd
    PROVE  ModeInv'
<1>1. CASE dfd = "open" /\ PluginEnd
  <2>1. toPlugin = <<>> /\ toDebugger = <<>>
    BY <1>1 DEF PhaseInv, Waiting
  <2>2. toPlugin' = <<m>> /\ toDebugger' = <<>>
    BY <1>1, <2>1, OneLine DEF ResumeWith, SendCommand
  <2> QED BY <2>2, OneLine DEF ModeInv, StopsAreAskedFor
<1>2. CASE ~(dfd = "open" /\ PluginEnd)
  BY <1>2 DEF ResumeWith, SendCommand, ModeInv, StopsAreAskedFor
<1> QED BY <1>1, <1>2

\* The debugger waits for a stop only after a resumption.
LEMMA ModeBackend ==
    ASSUME Known, PhaseInv, ModeInv, Client \/ Progress, UNCHANGED pluginVars PROVE ModeInv'
<1>0. ASSUME dpc' # "resumed" PROVE ModeInv'
  BY <1>0 DEF ModeInv, StopsAreAskedFor
<1>1. CASE resume
  BY <1>1, ModeSent DEF resume, callVars, Known, PurposeInv
<1>2. CASE SendStep
  <2>1. Step(after) # Continue
    BY <1>2, Verbs DEF SendStep, Known, TypeInv, StepKnown
  <2> QED BY <1>2, <2>1, ModeSent DEF SendStep
<1>3. CASE Detach \/ read_global_memory \/ evaluate
  BY <1>0, <1>3 DEF Detach, BeginDetach, read_global_memory, evaluate, Ask, Request, SendCommand
<1>4. ASSUME NEW line \in Lines, set_breakpoint(line) PROVE ModeInv'
  BY <1>0, <1>4 DEF set_breakpoint, Quietly, Ask, Request, SendCommand
<1>5. ASSUME NEW id \in Ids, remove_breakpoint(id) PROVE ModeInv'
  BY <1>0, <1>5 DEF remove_breakpoint, Quietly, Ask, Request, SendCommand
<1>6. ASSUME NEW wi \in GlobalIds, NEW why, select_work_item(wi, why) PROVE ModeInv'
  BY <1>0, <1>6 DEF select_work_item, Ask, Request, SendCommand
<1>7. CASE Accept \/ AcceptFails \/ Handshake \/ Register \/ Reap
  BY <1>0, <1>7 DEF Accept, AcceptFails, HostEndedFirst, PollFails,
    Handshake, BeginDetach, Register, Request, SendCommand, Reap
<1>8. CASE ReceiveReply \/ ReceiveEvent
  BY <1>0, <1>8 DEF ReceiveReply, BreakReply, SelectReply, OtherReply, TakeReply, ReceiveEvent
<1> QED BY <1>1, <1>2, <1>3, <1>4, <1>5, <1>6, <1>7, <1>8 DEF Client, Progress, step

\* The plugin runs as it was resumed at all times.
LEMMA ModeInvariant == Spec => []ModeInv
<1>1. Init => ModeInv
  BY DEF Init, BackendInit, ModeInv, StopsAreAskedFor
<1>2. ASSUME Known, PhaseInv, SelectionInv, BreakpointInv, ModeInv, [Next]_vars PROVE ModeInv'
  <2>1. CASE LaunchHost \/ DebuggerKilled
    BY <2>1 DEF LaunchHost, Launch, DebuggerKilled, ModeInv, StopsAreAskedFor
  <2>2. CASE HostKilled /\ UNCHANGED backendVars
    <3>1. ~PluginEnd' /\ UNCHANGED <<dpc, after, stopped, breakpoints, toDebugger>>
      BY <2>2 DEF HostKilled, EndProcess, PluginEnd, backendVars, bpVars, callVars, stopVars
    <3> QED BY <1>2, <3>1 DEF ModeInv, StopsAreAskedFor
  <2>3. CASE UNCHANGED vars
    <3>1. UNCHANGED <<dpc, pfd, toPlugin, toDebugger, after, breakpoints, stopped, mode, stepping_index>>
      BY <2>3 DEF vars, wireVars, pluginVars, runVars, backendVars, bpVars, callVars, stopVars
    <3> QED BY <1>2, <3>1 DEF ModeInv, StopsAreAskedFor, PluginEnd
  <2> QED BY <1>2, <2>1, <2>2, <2>3, ModeServe, ModeHostRuns, ModeBackend DEF Next
<1> QED BY <1>1, <1>2, KnownInvariant, PhaseInvariant, SelectionInvariant, BreakpointInvariant,
           PTL DEF Spec

(***************************************************************************)
(* StopsAreAskedFor: the plugin halts only where the debugger asked it to, *)
(* on a breakpoint the debugger holds or in the work-item that it stepped. *)
(***************************************************************************)
THEOREM StopsAreAskedForAlways == Spec => []StopsAreAskedFor
<1>1. ModeInv => StopsAreAskedFor
  BY DEF ModeInv
<1> QED BY <1>1, ModeInvariant, PTL

(***************************************************************************)
(* FirstArrivalHalts: after a continue no work-item passes a line of the   *)
(* debugger's breakpoints without a halt the first time it gets there.     *)
(***************************************************************************)
THEOREM FirstArrivalHaltsAlways == Spec => FirstArrivalHalts
<1> DEFINE Arrives(wi) ==
        /\ Linked /\ dpc = "resumed" /\ toPlugin = <<>> /\ after = "client"
        /\ instrs' > instrs /\ current' = wi /\ at'[wi] # at[wi]
        /\ last_line[wi] = NoLine /\ at'[wi] \in Armed(breakpoints)
    Halting == \A wi \in WorkItems : Arrives(wi) => host' = "serving"
<1>1. ASSUME Known, BreakpointInv, ModeInv, [Next]_vars PROVE Halting
  <2> SUFFICES ASSUME NEW wi \in WorkItems, Arrives(wi) PROVE host' = "serving"
    OBVIOUS
  <2>0. PluginTypeOK /\ instrs \in Nat
    BY <1>1, BoundAssumption DEF Known, TypeInv, TypeOK, PluginTypeOK
  <2>1. PluginEnd /\ dfd = "open"
    BY DEF Linked
  \* Only an instruction adds to the count.
  <2>2. PICK w \in WorkItems, line \in MaybeLine, d \in Depths : Execute(w, line, d)
    <3>1. ~(instrs' \in {instrs, 0})
      BY <2>0
    <3>2. Client \/ Progress => ~UNCHANGED pluginVars
      BY <3>1 DEF pluginVars, interpVars
    <3>3. ~Serve
      BY <3>1 DEF Serve, HandleContinue, HandlePrint, HandleRead, ServeEof, HandleStep, HandleDelete,
                  HandleBreak, HandleSelect, Receive, pluginVars, interpVars
    <3>4. ~(Connect \/ SendReady \/ KernelBegin \/ KernelEnd \/ ReleasePlugin \/ HostExit)
          /\ \A v \in WorkItems : ~Finish(v)
      BY <3>1 DEF Connect, SendReady, KernelBegin, KernelEnd, ReleasePlugin, HostExit, EndProcess,
                  Finish, pluginVars, interpVars
    <3>5. ~LaunchHost /\ ~HostKilled /\ ~(DebuggerKilled /\ UNCHANGED pluginVars) /\ ~UNCHANGED vars
      BY <3>1 DEF LaunchHost, Exec, HostKilled, EndProcess, vars, pluginVars, interpVars
    <3> QED BY <1>1, <3>2, <3>3, <3>4, <3>5 DEF Next, HostRuns
  <2>3. w = wi /\ line # NoLine /\ at'[wi] = line
    BY <2>0, <2>2 DEF Execute, PluginTypeOK
  <2>4. mode = "running"
    BY <1>1, <2>1 DEF ModeInv, StepKinds
  <2>5. line \in breakpoint_lines
    <3>1. \A id \in Ids : breakpoint_ids[id] = breakpoints[id]
      BY <1>1, <2>1 DEF BreakpointInv, IdsAgree, Linked, Unregistered, Unheard
    <3> QED BY <1>1, <2>1, <2>3, <3>1 DEF BreakpointInv, PluginArmed, PluginEnd, Armed
  <2>6. Halts(wi, line, d)
    BY <2>1, <2>3, <2>4, <2>5 DEF Halts, ShouldHalt
  <2> QED BY <2>1, <2>2, <2>3, <2>6 DEF Execute, SendAndServe, DebuggerEnd
<1>2. Known /\ BreakpointInv /\ ModeInv /\ [Next]_vars => [Halting]_vars
  BY <1>1
<1> QED BY <1>2, KnownInvariant, BreakpointInvariant, ModeInvariant, PTL DEF Spec, FirstArrivalHalts

-----------------------------------------------------------------------------
(* The contract.                                                           *)

(***************************************************************************)
(* A backend that says halted holds its end open, and what only a halted   *)
(* debugger asks for is asked by one; a plugin that closed its channel and *)
(* goes on has no debugger.                                                *)
(***************************************************************************)
HaltInv ==
    /\ halted /\ dpc \notin {"waitpid", "dead"} =>
         dfd = "open" /\ dpc \in {"idle", "register", "request", "stepping"}
    /\ dpc \in {"register", "stepping"} => halted
    /\ dpc = "request" /\ pending.verb # "print" => halted
    /\ host \in {"serving", "kernel", "between"} /\ pfd = "closed" => dfd = "closed"
    /\ host = "none" => dfd # "open" /\ dpc \in {"idle", "waitpid", "dead"}

\* serve() leaves the channel open for a debugger that is there.
LEMMA HaltServe ==
    ASSUME Known, PhaseInv, HaltInv, Serve, UNCHANGED backendVars PROVE HaltInv'
<1>1. UNCHANGED <<dpc, halted, pending>>
  BY DEF backendVars, callVars
<1>2. host = "serving" /\ UNCHANGED dfd
  BY DEF Serve, HandleContinue, HandlePrint, HandleRead, ServeEof, HandleStep, HandleDelete,
         HandleBreak, HandleSelect, Receive
<1>3. host' # "none"
  BY <1>2 DEF Serve, HandleContinue, HandlePrint, HandleRead, ServeEof, HandleStep, HandleDelete,
         HandleBreak, HandleSelect, Answer, Leave, Caller
<1>4. dfd # "closed" => DebuggerEnd
  BY <1>2 DEF DebuggerEnd, Known, EndsInv, TypeInv, TypeOK, WireTypeOK
<1>5. dfd # "closed" => UNCHANGED pfd /\ pfd # "closed"
  BY <1>2, <1>4, EofUnderWay
     DEF Serve, HandleContinue, HandlePrint, HandleRead, ServeEof, HandleStep, HandleDelete,
         HandleBreak, HandleSelect, Answer, Leave, Known, EndsInv
<1> QED BY <1>1, <1>2, <1>3, <1>5 DEF HaltInv

\* So does the interpreter.
LEMMA HaltHostRuns ==
    ASSUME Known, HaltInv, HostRuns, UNCHANGED backendVars PROVE HaltInv'
<1>1. UNCHANGED <<dpc, halted, pending>>
  BY DEF backendVars, callVars
<1>2. CASE Connect
  BY <1>1, <1>2 DEF Connect, HaltInv, Known, EndsInv
<1>3. CASE SendReady
  BY <1>1, <1>3 DEF SendReady, SendAndServe, ClosePluginEnd, HaltInv, Known, EndsInv
<1>4. CASE KernelBegin \/ KernelEnd \/ ReleasePlugin \/ HostExit
  BY <1>1, <1>4 DEF KernelBegin, KernelEnd, ReleasePlugin, HostExit, EndProcess, wireVars, HaltInv
<1>5. ASSUME NEW wi \in WorkItems,
             Finish(wi) \/ \E line \in MaybeLine, d \in Depths : Execute(wi, line, d)
      PROVE  HaltInv'
  BY <1>1, <1>5 DEF Finish, Execute, SendAndServe, ClosePluginEnd, wireVars, Halts, PluginEnd, HaltInv
<1> QED BY <1>2, <1>3, <1>4, <1>5 DEF HostRuns

\* A call of the client that loses the link is not halted after it.
LEMMA HaltClient ==
    ASSUME Known, HaltInv, Client, UNCHANGED pluginVars PROVE HaltInv'
<1>0. host = "none" /\ dpc = "idle" => dfd # "open" /\ ~halted
  BY DEF HaltInv
<1>1. ASSUME NEW m \in Requests, NEW why, Ask(m, why), dpc = "idle", UNCHANGED halted,
             m.verb # "print" => halted
      PROVE  HaltInv'
  BY <1>0, <1>1 DEF Ask, Request, SendCommand, CloseDebuggerEnd, HaltInv
<1>2. CASE Detach
  BY <1>2 DEF Detach, BeginDetach, CloseDebuggerEnd, HaltInv
<1>3. CASE resume
  BY <1>0, <1>3 DEF resume, ResumeWith, SendCommand, CloseDebuggerEnd, HaltInv
<1>4. CASE read_global_memory \/ evaluate
  BY <1>1, <1>4, RequestLines DEF read_global_memory, evaluate, PrintExpr
<1>5. ASSUME NEW line \in Lines, set_breakpoint(line) PROVE HaltInv'
  <2>1. next_id \in Ids
    BY <1>5 DEF set_breakpoint, Ids, Known, TypeInv, TypeOK, BackendTypeOK
  <2>2. CASE Quietly
    BY <1>5, <2>2 DEF set_breakpoint, Quietly, wireVars, HaltInv
  <2> QED BY <1>1, <1>5, <2>1, <2>2, RequestLines DEF set_breakpoint
<1>6. ASSUME NEW id \in Ids, remove_breakpoint(id) PROVE HaltInv'
  <2>1. CASE Quietly
    BY <1>6, <2>1 DEF remove_breakpoint, Quietly, wireVars, HaltInv
  <2> QED BY <1>1, <1>6, <2>1, RequestLines DEF remove_breakpoint
<1>7. ASSUME NEW wi \in GlobalIds, NEW why, select_work_item(wi, why) PROVE HaltInv'
  BY <1>1, <1>7, RequestLines DEF select_work_item
<1> QED BY <1>2, <1>3, <1>4, <1>5, <1>6, <1>7 DEF Client, step

\* The steps of a call keep what halted means.
LEMMA HaltProgress ==
    ASSUME Known, PhaseInv, HaltInv, Progress, UNCHANGED pluginVars PROVE HaltInv'
<1> USE DEF callVars
<1>1. CASE Accept
  BY <1>1 DEF Accept, HaltInv, Known, EndsInv
<1>2. CASE AcceptFails \/ Reap
  BY <1>2 DEF AcceptFails, HostEndedFirst, PollFails,
    BeginDetach, CloseDebuggerEnd, Reap, wireVars, HaltInv, Known, EndsInv,
              Dead, HostGone, TypeInv, TypeOK, WireTypeOK
<1>3. CASE Handshake
  BY <1>3 DEF Handshake, BeginDetach, CloseDebuggerEnd, HaltInv, Known, EndsInv,
              TypeInv, TypeOK, WireTypeOK
<1>4. CASE Register
  <2>1. halted /\ UNCHANGED <<pfd, host, halted>> /\ host # "none"
    BY <1>4 DEF Register, HaltInv
  <2>2. CASE dpc' = "idle" /\ UNCHANGED <<callVars, toPlugin, toDebugger, dfd, listening>>
    BY <1>4, <2>1, <2>2 DEF Register, HaltInv
  <2>3. ASSUME NEW m, Request(m, "launch", "register") PROVE HaltInv'
    BY <1>4, <2>1, <2>3 DEF Register, Request, SendCommand, CloseDebuggerEnd, HaltInv
  <2> QED BY <1>4, <2>2, <2>3 DEF Register
<1>5. CASE ReceiveReply
  <2>1. /\ dpc = "request" /\ dpc' \in {"idle", "register", "stepping"}
        /\ dpc' # "idle" => pending.verb # "print"
        /\ UNCHANGED <<halted, pfd, dfd, host>>
    BY <1>5 DEF ReceiveReply, BreakReply, SelectReply, OtherReply, Answered, TakeReply
  <2> QED BY <2>1 DEF HaltInv
<1>6. CASE SendStep
  BY <1>6 DEF SendStep, ResumeWith, SendCommand, CloseDebuggerEnd, HaltInv
<1>7. CASE ReceiveEvent
  BY <1>7 DEF ReceiveEvent, CloseDebuggerEnd, DebuggerEof, HaltInv, Known, EndsInv, TypeInv, TypeOK,
              WireTypeOK
<1> QED BY <1>1, <1>2, <1>3, <1>4, <1>5, <1>6, <1>7 DEF Progress

\* halted means a linked and halted plugin at all times.
LEMMA HaltInvariant == Spec => []HaltInv
<1>1. Init => HaltInv
  BY DEF Init, WireInit, BackendInit, HaltInv
<1>2. ASSUME Known, PhaseInv, HaltInv, [Next]_vars PROVE HaltInv'
  <2>1. CASE LaunchHost
    BY <1>2, <2>1 DEF LaunchHost, Launch, Exec, HaltInv
  <2>2. CASE DebuggerKilled
    BY <1>2, <2>2 DEF DebuggerKilled, CloseDebuggerEnd, HaltInv
  <2>3. CASE HostKilled /\ UNCHANGED backendVars
    BY <1>2, <2>3 DEF HostKilled, EndProcess, HaltInv, backendVars, callVars
  <2>4. CASE UNCHANGED vars
    BY <1>2, <2>4 DEF vars, wireVars, backendVars, callVars, HaltInv
  <2> QED BY <1>2, <2>1, <2>2, <2>3, <2>4, HaltServe, HaltHostRuns, HaltClient, HaltProgress DEF Next
<1> QED BY <1>1, <1>2, KnownInvariant, PhaseInvariant, PTL DEF Spec

\* What a client sees of a step, in the contract's terms.
Seen == <<Target, Armed(breakpoints), stopped, stop_line, dpc = "resumed" /\ after \in StepKinds>>
SafeInv == Known /\ PhaseInv /\ SelectionInv /\ BreakpointInv /\ ModeInv /\ HaltInv

\* A debugger that is halted holds a kernel that stands still.
LEMMA HaltedStandsStill ==
    ASSUME SafeInv, HostRuns, Target = "halted"
    PROVE  UNCHANGED interpVars
<1> USE DEF SafeInv
<1>1. dpc \notin {"waitpid", "dead"} /\ halted /\ dfd = "open"
  BY DEF Target, HaltInv
<1>2. host \notin {"kernel", "between"}
  <2> SUFFICES ASSUME host \in {"kernel", "between"} PROVE FALSE
    OBVIOUS
  <2>1. PluginEnd
    BY <1>1 DEF HaltInv, PluginEnd, Known, EndsInv, TypeInv, TypeOK, WireTypeOK
  <2>2. dpc = "resumed"
    BY <1>1, <2>1, RunsResumed
  <2> QED BY <1>1, <2>2 DEF HaltInv
<1> QED BY <1>2 DEF HostRuns, Connect, SendReady, KernelBegin, KernelEnd, ReleasePlugin, HostExit,
                    EndProcess, Finish, Execute, pluginVars

\* A step of the host is the kernel's, and only of a target that is not halted.
LEMMA HostContract ==
    ASSUME SafeInv, (Serve \/ HostRuns \/ HostKilled) /\ UNCHANGED backendVars
    PROVE  Contract!Next \/ UNCHANGED Contract!vars
<1>1. UNCHANGED Seen
  BY DEF Seen, Target, Armed, backendVars, bpVars, stopVars, callVars
<1>2. CASE Serve \/ HostKilled
  <2>1. UNCHANGED interpVars
    BY <1>2 DEF Serve, HandleContinue, HandlePrint, HandleRead, ServeEof, HandleStep, HandleDelete,
                HandleBreak, HandleSelect, Receive, HostKilled, EndProcess, pluginVars
  <2> QED BY <1>1, <2>1 DEF Seen, Contract!vars
<1>3. CASE HostRuns
  BY <1>1, <1>3, HaltedStandsStill DEF Seen, Contract!vars, Contract!Next, Contract!Run
<1> QED BY <1>2, <1>3

\* A map of breakpoints that loses an entry disarms at most its line.
LEMMA ArmedLoses ==
    ASSUME NEW ids \in [Ids -> MaybeLine], NEW id \in Ids
    PROVE  LET new == [ids EXCEPT ![id] = NoLine] IN
           Armed(new) = Armed(ids) \/ \E l \in Lines : Armed(new) = Armed(ids) \ {l}
<1>1. CASE ids[id] = NoLine
  <2>1. [ids EXCEPT ![id] = NoLine] = ids
    BY <1>1
  <2> QED BY <2>1
<1>2. CASE ids[id] # NoLine
  BY <1>2, ArmedLess DEF MaybeLine
<1> QED BY <1>1, <1>2

\* What the requests of a client that is at rest come to.
LEMMA AskContract ==
    ASSUME SafeInv, NEW m, NEW why, Ask(m, why), dpc = "idle",
           UNCHANGED <<halted, stopVars, interpVars>>,
           \/ UNCHANGED breakpoints
           \/ \E l \in Lines :
                Armed(breakpoints)' \in {Armed(breakpoints), Armed(breakpoints) \cup {l}, Armed(breakpoints) \ {l}},
           dpc' = "dead" => UNCHANGED breakpoints
    PROVE  Contract!Next \/ UNCHANGED Contract!vars
<1> USE DEF SafeInv, stopVars
<1>1. dpc' \in {"request", "idle", "dead"}
  BY DEF Ask, Request, SendCommand
<1>2. Armed(breakpoints)' = Armed(breakpoints)
      \/ \E l \in Lines : Armed(breakpoints)' \in {Armed(breakpoints) \cup {l}, Armed(breakpoints) \ {l}}
  <2>1. CASE UNCHANGED breakpoints
    BY <2>1 DEF Armed
  <2>2. CASE \E l \in Lines : Armed(breakpoints)'
               \in {Armed(breakpoints), Armed(breakpoints) \cup {l}, Armed(breakpoints) \ {l}}
    <3>1. PICK l \in Lines : Armed(breakpoints)'
            \in {Armed(breakpoints), Armed(breakpoints) \cup {l}, Armed(breakpoints) \ {l}}
      BY <2>2
    <3> QED BY <3>1
  <2> QED BY <2>1, <2>2
<1>3. CASE dpc' = "dead"
  <2>1. Target' = "free" /\ Target \in {"free", "halted"} /\ Armed(breakpoints)' = Armed(breakpoints)
    BY <1>3 DEF Target, Armed
  <2> QED BY <1>3, <2>1 DEF Contract!vars, Contract!Next, Contract!Leave
<1>4. CASE dpc' \in {"request", "idle"}
  <2>1. Target' = Target /\ Target # "running"
    BY <1>4 DEF Target
  <2> QED BY <1>2, <1>4, <2>1 DEF Contract!vars, Contract!Next, Contract!Arm
<1> QED BY <1>1, <1>3, <1>4

\* A call of the client is a step of the contract, or none.
LEMMA ClientContract ==
    ASSUME SafeInv, Client, UNCHANGED pluginVars
    PROVE  Contract!Next \/ UNCHANGED Contract!vars
<1> USE DEF pluginVars, stopVars, callVars, bpVars
<1>0. BackendTypeOK /\ FreshIds
  BY DEF SafeInv, Known, TypeInv, TypeOK, BreakpointInv
<1>1. CASE Detach \/ resume
  <2>1. /\ dpc = "idle" /\ Target \in {"free", "halted"} /\ Armed(breakpoints)' = Armed(breakpoints)
        /\ Target' \in {"free", "running"} /\ (Target' = "running" <=> dpc' = "resumed")
        /\ dpc' = "resumed" => Target = "halted"
        /\ UNCHANGED <<stopped, stop_line, interpVars>>
    BY <1>1 DEF Detach, BeginDetach, resume, ResumeWith, SendCommand, Target, Armed
  <2>2. CASE dpc' = "resumed"
    BY <2>1, <2>2 DEF Contract!Next, Contract!Resume
  <2>3. CASE dpc' # "resumed"
    BY <2>1, <2>3 DEF Contract!vars, Contract!Next, Contract!Leave
  <2> QED BY <2>2, <2>3
<1>2. CASE read_global_memory \/ evaluate
  BY <1>2, AskContract DEF read_global_memory, evaluate
<1>3. ASSUME NEW wi \in GlobalIds, NEW why, select_work_item(wi, why)
      PROVE  Contract!Next \/ UNCHANGED Contract!vars
  BY <1>3, AskContract DEF select_work_item
\* Breakpoints change while nothing runs.
<1>4. ASSUME Quietly, dpc = "idle", UNCHANGED <<halted, stopVars, interpVars>>, NEW l \in Lines,
             Armed(breakpoints)' \in {Armed(breakpoints), Armed(breakpoints) \cup {l}, Armed(breakpoints) \ {l}}
      PROVE  Contract!Next \/ UNCHANGED Contract!vars
  <2>1. Target' = Target /\ Target # "running" /\ dpc' = "idle"
    BY <1>4 DEF Quietly, Target
  <2> QED BY <1>4, <2>1 DEF Contract!vars, Contract!Next, Contract!Arm
<1>5. ASSUME NEW line \in Lines, set_breakpoint(line) PROVE Contract!Next \/ UNCHANGED Contract!vars
  <2>1. next_id \in Ids /\ breakpoints[next_id] = NoLine
    BY <1>0, <1>5 DEF set_breakpoint, Ids, BackendTypeOK, FreshIds
  <2>2. Armed([breakpoints EXCEPT ![next_id] = line]) = Armed(breakpoints) \cup {line}
    BY <1>0, <2>1, ArmedNew DEF BackendTypeOK
  <2>3. breakpoints' \in {breakpoints, [breakpoints EXCEPT ![next_id] = line]}
        /\ (dpc' = "dead" => UNCHANGED breakpoints)
    BY <1>5 DEF set_breakpoint, Quietly
  <2>4. Armed(breakpoints)' \in {Armed(breakpoints), Armed(breakpoints) \cup {line}}
    <3>1. Armed(breakpoints)' = Armed(breakpoints')
      BY DEF Armed
    <3> QED BY <2>2, <2>3, <3>1
  <2>5. CASE Quietly
    BY <1>4, <1>5, <2>4, <2>5 DEF set_breakpoint
  <2>6. CASE Ask(Break(next_id, line), "client")
    BY <1>5, <2>3, <2>4, <2>6, AskContract DEF set_breakpoint
  <2> QED BY <1>5, <2>5, <2>6 DEF set_breakpoint
<1>6. ASSUME NEW id \in Ids, remove_breakpoint(id) PROVE Contract!Next \/ UNCHANGED Contract!vars
  <2>1. breakpoints' \in {breakpoints, [breakpoints EXCEPT ![id] = NoLine]}
        /\ (dpc' = "dead" => UNCHANGED breakpoints) /\ breakpoints[id] \in Lines
    BY <1>0, <1>6 DEF remove_breakpoint, BackendTypeOK, MaybeLine
  <2>2. PICK l \in Lines : Armed(breakpoints)' \in {Armed(breakpoints), Armed(breakpoints) \ {l}}
    <3>1. Armed(breakpoints)' = Armed(breakpoints')
      BY DEF Armed
    <3>2. breakpoints \in [Ids -> MaybeLine]
      BY <1>0 DEF BackendTypeOK
    <3> QED BY <2>1, <3>1, <3>2, ArmedLoses
  <2>3. CASE Quietly
    BY <1>4, <1>6, <2>2, <2>3 DEF remove_breakpoint
  <2>4. CASE Ask(Delete(id), "client")
    BY <1>6, <2>1, <2>2, <2>4, AskContract DEF remove_breakpoint
  <2> QED BY <1>6, <2>3, <2>4 DEF remove_breakpoint
<1> QED BY <1>1, <1>2, <1>3, <1>5, <1>6 DEF Client, step

\* A step of a call is a step of the contract, or none.
LEMMA ProgressContract ==
    ASSUME SafeInv, Progress, UNCHANGED pluginVars
    PROVE  Contract!Next \/ UNCHANGED Contract!vars
<1> USE DEF SafeInv, pluginVars, stopVars, callVars, bpVars
<1>0. BackendTypeOK /\ UNCHANGED interpVars
  BY DEF Known, TypeInv, TypeOK
<1>1. CASE Accept \/ AcceptFails \/ Reap \/ (Handshake /\ dpc' = "waitpid")
  <2>1. Target = "free" /\ Target' = "free" /\ dpc # "resumed" /\ dpc' # "resumed"
        /\ Armed(breakpoints)' = Armed(breakpoints) /\ UNCHANGED <<stopped, stop_line>>
    BY <1>1 DEF Accept, AcceptFails, HostEndedFirst, PollFails,
      Reap, Handshake, BeginDetach, Target, Armed, HaltInv
  <2> QED BY <1>0, <2>1 DEF Contract!vars
<1>2. CASE Handshake /\ dpc' # "waitpid"
  <2>1. Target = "free" /\ Target' = "halted" /\ dpc # "resumed" /\ dpc' # "resumed"
        /\ Armed(breakpoints)' = Armed(breakpoints) /\ UNCHANGED <<stopped, stop_line>>
    BY <1>2 DEF Handshake, BeginDetach, Target, Armed, HaltInv
  <2> QED BY <1>0, <2>1 DEF Contract!Next, Contract!Attach
<1>3. CASE Register
  <2>1. Target = "halted" /\ Target' \in {"halted", "free"} /\ dpc # "resumed" /\ dpc' # "resumed"
        /\ Armed(breakpoints)' = Armed(breakpoints) /\ UNCHANGED <<stopped, stop_line>>
    BY <1>3 DEF Register, Request, SendCommand, Target, Armed, HaltInv
  <2> QED BY <1>0, <2>1 DEF Contract!vars, Contract!Next, Contract!Leave
<1>4. CASE ReceiveReply
  <2>1. /\ dpc = "request" /\ dpc' \in {"idle", "register", "stepping"}
        /\ UNCHANGED <<halted, stop_line>> /\ Target' = Target /\ Target # "running"
    BY <1>4 DEF ReceiveReply, BreakReply, SelectReply, OtherReply, Answered, TakeReply, Target
  <2>2. CASE BreakReply
    <3>1. UNCHANGED breakpoints \/ breakpoints' = [breakpoints EXCEPT ![pending.id] = NoLine]
      BY <2>2 DEF BreakReply
    <3>2. pending.id \in Ids /\ breakpoints \in [Ids -> MaybeLine] /\ UNCHANGED stopped
      BY <1>0, <2>2, BreakNames DEF BreakReply, BackendTypeOK
    <3>3. Armed(breakpoints)' = Armed(breakpoints')
      BY DEF Armed
    <3>4. \/ Armed(breakpoints)' = Armed(breakpoints)
          \/ \E l \in Lines : Armed(breakpoints)' = Armed(breakpoints) \ {l}
      BY <3>1, <3>2, <3>3, ArmedLoses
    <3> QED BY <1>0, <2>1, <3>2, <3>4 DEF Contract!vars, Contract!Next, Contract!Arm
  <2>3. CASE SelectReply
    <3>1. pending.wi \in GlobalIds /\ Target = "halted" /\ Armed(breakpoints)' = Armed(breakpoints)
      BY <1>0, <2>1, <2>3, SelectNames DEF SelectReply, BackendTypeOK, HaltInv, Target, Armed
    <3>2. UNCHANGED stopped \/ stopped' = pending.wi
      BY <2>3 DEF SelectReply
    <3> QED BY <1>0, <2>1, <3>1, <3>2 DEF Contract!vars, Contract!Next, Contract!Select
  <2>4. CASE OtherReply
    BY <1>0, <2>1, <2>4 DEF OtherReply, Armed, Contract!vars
  <2> QED BY <1>4, <2>2, <2>3, <2>4 DEF ReceiveReply
<1>5. CASE SendStep
  <2>1. /\ Target = "halted" /\ dpc' \in {"resumed", "idle", "dead"}
        /\ Target' = (IF dpc' = "resumed" THEN "running" ELSE "free") /\ dpc # "resumed"
        /\ Armed(breakpoints)' = Armed(breakpoints) /\ UNCHANGED <<stopped, stop_line>>
    BY <1>5 DEF SendStep, ResumeWith, SendCommand, Target, Armed, HaltInv
  <2> QED BY <1>0, <2>1 DEF Contract!Next, Contract!Resume, Contract!Leave
<1>6. CASE ReceiveEvent
  <2>1. Target = "running" /\ dpc = "resumed" /\ dpc' = "idle"
        /\ Armed(breakpoints)' = Armed(breakpoints)
    BY <1>6 DEF ReceiveEvent, Target, Armed, HaltInv
  <2>2. CASE toDebugger = <<>>
    <3>1. Target' = "free" /\ UNCHANGED <<stopped, stop_line>>
      BY <1>6, <2>1, <2>2 DEF ReceiveEvent, Target
    <3> QED BY <1>0, <2>1, <3>1 DEF Contract!Next, Contract!Leave
  <2>3. ASSUME NEW wi \in WorkItems, NEW ln \in Lines, toDebugger = <<Stopped(wi, ln)>>
        PROVE  Contract!Next \/ UNCHANGED Contract!vars
    <3>1. Head(toDebugger).tag = "stopped" /\ Head(toDebugger).wi = wi /\ Head(toDebugger).line = ln
          /\ toDebugger # <<>>
      BY <2>3, OneLine, Tags
    <3>2. halted' /\ stopped' = wi /\ stop_line' = ln
      BY <1>6, <3>1 DEF ReceiveEvent, DebuggerEof
    <3>3. IF after \in StepKinds THEN wi = stopped ELSE ln \in Armed(breakpoints)
      BY <2>1, <2>3 DEF ModeInv, StopsAreAskedFor
    <3> QED BY <1>0, <2>1, <3>2, <3>3 DEF Target, Contract!Next, Contract!Halt
  <2> QED BY <2>1, <2>2, <2>3 DEF PhaseInv
<1> QED BY <1>1, <1>2, <1>3, <1>4, <1>5, <1>6 DEF Progress

(***************************************************************************)
(* ImplementsContract: plugin, socket and backend, with every interleaving *)
(* and every loss of a process, are one target that is free, halted or     *)
(* running; in particular a halted kernel stands still.                    *)
(***************************************************************************)
THEOREM LinkImplementsContract == Spec => ImplementsContract
<1>1. Init => Contract!Init
  BY DEF Init, WireInit, BackendInit, PluginInit, Contract!Init, Target, Armed, NoLine
<1>2. ASSUME SafeInv, [Next]_vars PROVE Contract!Next \/ UNCHANGED Contract!vars
  <2>1. CASE LaunchHost
    <3>1. /\ Target = "free" /\ Target' = "free" /\ dpc # "resumed" /\ dpc' # "resumed"
          /\ Armed(breakpoints)' = Armed(breakpoints) /\ UNCHANGED <<stopped, stop_line>>
      BY <1>2, <2>1 DEF LaunchHost, Launch, SafeInv, HaltInv, Target, Armed, bpVars, stopVars
    <3> QED BY <3>1 DEF Contract!vars, Contract!Next, Contract!Run
  <2>2. CASE DebuggerKilled /\ UNCHANGED pluginVars
    <3>1. /\ Target' = "free" /\ dpc' # "resumed" /\ dpc # "dead"
          /\ Armed(breakpoints)' = Armed(breakpoints) /\ UNCHANGED <<stopped, stop_line, interpVars>>
      BY <2>2 DEF DebuggerKilled, Target, Armed, bpVars, stopVars, pluginVars
    <3>2. dpc = "resumed" => Target # "free"
      BY <1>2 DEF SafeInv, HaltInv, Target
    <3> QED BY <3>1, <3>2 DEF Contract!vars, Contract!Next, Contract!Leave
  <2>3. CASE UNCHANGED vars
    <3>1. UNCHANGED <<dpc, halted, after, breakpoints, stopped, stop_line, interpVars>>
      BY <2>3 DEF vars, pluginVars, backendVars, bpVars, stopVars, callVars
    <3> QED BY <3>1 DEF Target, Armed, Contract!vars
  <2> QED BY <1>2, <2>1, <2>2, <2>3, HostContract, ClientContract, ProgressContract DEF Next
<1>3. SafeInv /\ [Next]_vars => [Contract!Next]_(Contract!vars)
  BY <1>2
<1>4. Spec => []SafeInv
  BY KnownInvariant, PhaseInvariant, SelectionInvariant, BreakpointInvariant, ModeInvariant,
     HaltInvariant, PTL DEF SafeInv
<1> QED BY <1>1, <1>3, <1>4, PTL DEF Spec, ImplementsContract, Contract!Spec

=============================================================================
