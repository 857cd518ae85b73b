--------------------------- MODULE OclgrindBackend ---------------------------
(***************************************************************************)
(* The debugger process: OclgrindBackend and OclgrindLocationBackend.      *)
(* Every call is synchronous: the process blocks in recv(), in poll() or   *)
(* in waitpid(), and dpc says where.  "idle" means that no call of the     *)
(* backend is in progress and its client may make one.  The stop callback  *)
(* runs inside resume_with() and calls back into the backend; it finds the *)
(* state a client finds when the call has returned, so it is a client too. *)
(***************************************************************************)
EXTENDS OclgrindProtocol

CONSTANT MaxLaunches  \* bound on the times the client launches a host
ASSUME LaunchAssumption == MaxLaunches \in Nat

VARIABLES
    dpc,           \* where the debugger is
    halted,        \* halted
    breakpoints,   \* breakpoints, NoLine for an id without entry
    next_id,       \* next_breakpoint_id
    stopped,       \* the global id in stopped and in exec_ctx, NoWI before any stop
    stop_line,     \* stop_line, which is also stopped.location.line
    pending,       \* the request whose reply is awaited
    after,         \* what the reply is for: a client's call, launch() or a step
    todo,          \* launch(): breakpoints still to be registered
    launches       \* how much of the bound is used

callVars == <<pending, after, todo>>
stopVars == <<stopped, stop_line>>
bpVars == <<breakpoints, next_id>>
backendVars == <<dpc, halted, bpVars, stopVars, callVars, launches>>

Dead == {"none"} \cup HostGone
Blocked == {"accept", "handshake", "register", "request", "stepping", "resumed", "waitpid"}
Purposes == {"client", "launch"} \cup StepKinds
NoRequest == [verb |-> "none"]

BackendTypeOK ==
    /\ dpc \in {"idle", "dead"} \cup Blocked
    /\ halted \in BOOLEAN
    /\ breakpoints \in [Ids -> MaybeLine]
    /\ next_id \in 1 .. MaxId + 1
    /\ stopped \in GlobalIds \cup {NoWI}
    /\ stop_line \in MaybeLine
    /\ pending \in Requests \cup {NoRequest}
    /\ after \in Purposes
    /\ todo \in SUBSET Ids
    /\ launches \in 0 .. MaxLaunches

BackendInit ==
    /\ dpc = "idle" /\ halted = FALSE
    /\ breakpoints = [id \in Ids |-> NoLine] /\ next_id = 1
    /\ stopped = NoWI /\ stop_line = NoLine
    /\ pending = NoRequest /\ after = "client" /\ todo = {}
    /\ launches = 0

Registered == {id \in Ids : breakpoints[id] # NoLine}

-----------------------------------------------------------------------------
(* Sending.  SendCommand says what happens to the socket, and to the       *)
(* process when the peer is gone; next is where a sent command leaves the  *)
(* debugger, failed where it is when send() returns false.                 *)

SendCommand(m, next, failed) ==
    \/ /\ dfd = "open" /\ PluginEnd
       /\ toPlugin' = Append(toPlugin, m) /\ dpc' = next
       /\ UNCHANGED <<toDebugger, dfd, listening>>
    \/ /\ dfd = "open" /\ ~PluginEnd /\ SigPipeFatal
       /\ dpc' = "dead" /\ CloseDebuggerEnd /\ listening' = FALSE
       /\ UNCHANGED toPlugin
    \/ /\ dfd # "open" \/ (~PluginEnd /\ ~SigPipeFatal)
       /\ dpc' = failed
       /\ UNCHANGED <<toPlugin, toDebugger, dfd, listening>>

\* request() up to its recv(): the reply awaited, and what for.
Request(m, why, failed) ==
    /\ SendCommand(m, "request", failed)
    /\ pending' = IF dpc' = "request" THEN m ELSE NoRequest
    /\ after' = IF dpc' = "request" THEN why ELSE "client"

\* detach() up to waitpid().
BeginDetach ==
    /\ dpc' = "waitpid"
    /\ CloseDebuggerEnd /\ listening' = FALSE
    /\ UNCHANGED toPlugin

-----------------------------------------------------------------------------
(* launch() and detach().                                                  *)

\* Up to accept_plugin(); the client launches when no host is running.
Launch ==
    /\ dpc = "idle" /\ host = "none" /\ launches < MaxLaunches
    /\ launches' = launches + 1
    /\ dpc' = "accept" /\ listening' = TRUE
    /\ toPlugin' = <<>> /\ toDebugger' = <<>> /\ pfd' = "none" /\ dfd' = "none"
    /\ UNCHANGED <<halted, bpVars, stopVars, callVars>>

Accept ==
    /\ dpc = "accept" /\ pfd # "none"
    /\ dfd' = "open" /\ dpc' = "handshake"
    /\ UNCHANGED <<toPlugin, toDebugger, pfd, listening, host>>
    /\ UNCHANGED <<halted, bpVars, stopVars, callVars, launches>>

\* Wrong variant: the child is reaped and the wait for its connection goes on.
HostReapedUnseen ==
    /\ dpc = "accept" /\ host \in HostGone
    /\ host' = "none"
    /\ UNCHANGED <<wireVars, backendVars>>

\* poll() times out every 100 ms, and the host is found to have ended.
HostEndedFirst ==
    /\ dpc = "accept" /\ host \in HostGone
    /\ host' = "none"
    /\ BeginDetach
    /\ UNCHANGED <<pfd, halted, bpVars, stopVars, callVars, launches>>

\* poll() or accept() fails; nothing obliges it to.
PollFails ==
    /\ dpc = "accept"
    /\ BeginDetach
    /\ UNCHANGED <<pfd, host, halted, bpVars, stopVars, callVars, launches>>

AcceptFails == HostEndedFirst \/ PollFails

Greeted == toDebugger # <<>> /\ Head(toDebugger) = Ready

Handshake ==
    /\ dpc = "handshake" /\ DebuggerReadable
    /\ \/ /\ Greeted
          /\ toDebugger' = Tail(toDebugger)
          /\ halted' = TRUE /\ todo' = Registered /\ dpc' = "register"
          /\ UNCHANGED <<toPlugin, dfd, listening>>
       \/ /\ ~Greeted
          /\ BeginDetach /\ UNCHANGED <<halted, todo>>
    /\ UNCHANGED <<pfd, host, bpVars, stopVars, pending, after, launches>>

\* Wrong variant: the commands are sent without reading the replies.
RegisterPipelined ==
    /\ dpc = "register"
    /\ \/ /\ todo = {}
          /\ dpc' = "idle" /\ UNCHANGED <<callVars, toPlugin, toDebugger, dfd, listening>>
       \/ \E id \in todo :
            /\ todo' = todo \ {id}
            /\ SendCommand(Break(id, breakpoints[id]), "register", "register")
            /\ UNCHANGED <<pending, after>>
    /\ UNCHANGED <<pfd, host, halted, bpVars, stopVars, launches>>

\* Breakpoints registered before launch only reach the plugin now, in the
\* order of the map; the replies are read and not looked at.
Register ==
    /\ dpc = "register"
    /\ \/ /\ todo = {}
          /\ dpc' = "idle" /\ UNCHANGED <<callVars, toPlugin, toDebugger, dfd, listening>>
       \/ \E id \in todo :
            /\ \A other \in todo : id <= other
            /\ todo' = todo \ {id}
            /\ Request(Break(id, breakpoints[id]), "launch", "register")
    /\ UNCHANGED <<pfd, host, halted, bpVars, stopVars, launches>>

Detach ==
    /\ dpc = "idle" /\ host # "none"
    /\ BeginDetach
    /\ UNCHANGED <<pfd, host, halted, bpVars, stopVars, callVars, launches>>

\* Wrong variant: waitpid() with WNOHANG.
ReapWithoutWaiting ==
    /\ dpc = "waitpid"
    /\ host' = "none" /\ halted' = FALSE /\ dpc' = "idle"
    /\ UNCHANGED <<wireVars, bpVars, stopVars, callVars, launches>>

\* waitpid() returns; without a child it returns at once.
Reap ==
    /\ dpc = "waitpid" /\ host \in Dead
    /\ host' = "none" /\ halted' = FALSE /\ dpc' = "idle"
    /\ UNCHANGED <<wireVars, bpVars, stopVars, callVars, launches>>

-----------------------------------------------------------------------------
(* Requests: the call is sent, then its reply, or the end of the stream,   *)
(* is read.  set_breakpoint and remove_breakpoint change the backend's own *)
(* map first and tell the plugin only when it is halted.                   *)

Ask(m, why) == Request(m, why, "idle") /\ UNCHANGED <<todo, pfd, host>>
Quietly == UNCHANGED <<dpc, callVars, wireVars, host>>

set_breakpoint(line) ==
    /\ dpc = "idle" /\ next_id <= MaxId
    /\ next_id' = next_id + 1
    /\ \/ ~halted /\ Quietly /\ breakpoints' = [breakpoints EXCEPT ![next_id] = line]
       \/ /\ halted /\ Ask(Break(next_id, line), "client")
          /\ breakpoints' =
               IF dpc' = "request" THEN [breakpoints EXCEPT ![next_id] = line] ELSE breakpoints
    /\ UNCHANGED <<halted, stopVars, launches>>

remove_breakpoint(id) ==
    /\ dpc = "idle" /\ breakpoints[id] # NoLine
    /\ \/ ~halted /\ Quietly
       \/ halted /\ Ask(Delete(id), "client")
    /\ breakpoints' = IF dpc' = "dead" THEN breakpoints ELSE [breakpoints EXCEPT ![id] = NoLine]
    /\ UNCHANGED <<halted, next_id, stopVars, launches>>

select_work_item(wi, why) ==
    /\ dpc = "idle" /\ halted
    /\ Ask(Select(wi), why)
    /\ UNCHANGED <<halted, bpVars, stopVars, launches>>

read_global_memory ==
    /\ dpc = "idle" /\ halted
    /\ Ask(ReadMemory, "client")
    /\ UNCHANGED <<halted, bpVars, stopVars, launches>>

\* OclgrindLocationBackend::evaluate needs a context, that is, some stop or
\* selection before it; it does not ask whether the backend is halted.
evaluate ==
    /\ dpc = "idle" /\ stopped # NoWI
    /\ Ask(PrintExpr, "client")
    /\ UNCHANGED <<halted, bpVars, stopVars, launches>>

\* Wrong variant: halted is left alone.
ResumeWithStillHalted(m) ==
    /\ UNCHANGED halted
    /\ SendCommand(m, "resumed", "idle")

\* resume_with(): halted is cleared before the command is sent.
ResumeWith(m) ==
    /\ halted' = FALSE
    /\ SendCommand(m, "resumed", "idle")

resume ==
    /\ dpc = "idle" /\ halted
    /\ ResumeWith(Continue)
    /\ UNCHANGED <<pfd, host, bpVars, stopVars, callVars, launches>>

\* step_in and step_over select the work-item, and resume when that worked.
step(wi, how) == select_work_item(wi, how)

SendStep ==
    /\ dpc = "stepping"
    /\ ResumeWith(Step(after))
    /\ after' = IF dpc' = "resumed" THEN after ELSE "client"
    /\ UNCHANGED <<pfd, host, bpVars, stopVars, pending, todo, launches>>

\* A reply, or the end of the stream, ends the request.
Answered(ok) ==
    /\ dpc = "request" /\ DebuggerReadable
    /\ ok = (toDebugger # <<>> /\ Head(toDebugger) \in {Ok, Located})

TakeReply(next) ==
    /\ toDebugger' = IF toDebugger = <<>> THEN <<>> ELSE Tail(toDebugger)
    /\ dpc' = next

BreakReply ==
    /\ pending.verb = "break"
    /\ \E ok \in BOOLEAN :
         /\ Answered(ok)
         /\ breakpoints' = IF ok \/ after = "launch" THEN breakpoints
                           ELSE [breakpoints EXCEPT ![pending.id] = NoLine]
    /\ TakeReply(IF after = "launch" THEN "register" ELSE "idle")
    /\ after' = "client" /\ UNCHANGED stopped

\* Wrong variants: the result of select_work_item() is not looked at by the
\* step; the context is assigned before the reply is looked at.
SelectReplyUnchecked ==
    /\ pending.verb = "select"
    /\ \E ok \in BOOLEAN : Answered(ok)
    /\ stopped' = pending.wi
    /\ TakeReply(IF after \in StepKinds THEN "stepping" ELSE "idle")
    /\ UNCHANGED <<after, breakpoints>>

SelectReplyAssignsFirst ==
    /\ pending.verb = "select"
    /\ stopped' = pending.wi /\ UNCHANGED breakpoints
    /\ \/ /\ Answered(TRUE) /\ UNCHANGED after
          /\ TakeReply(IF after \in StepKinds THEN "stepping" ELSE "idle")
       \/ /\ Answered(FALSE) /\ after' = "client"
          /\ TakeReply("idle")

SelectReply ==
    /\ pending.verb = "select"
    /\ UNCHANGED breakpoints
    /\ \/ /\ Answered(TRUE) /\ stopped' = pending.wi
          /\ TakeReply(IF after \in StepKinds THEN "stepping" ELSE "idle")
          /\ UNCHANGED after
       \/ /\ Answered(FALSE) /\ UNCHANGED stopped
          /\ TakeReply("idle") /\ after' = "client"

OtherReply ==
    /\ pending.verb \in {"delete", "print", "read"}
    /\ \E ok \in BOOLEAN : Answered(ok)
    /\ TakeReply("idle")
    /\ UNCHANGED <<after, stopped, breakpoints>>

ReceiveReply ==
    /\ BreakReply \/ SelectReply \/ OtherReply
    /\ pending' = NoRequest
    /\ UNCHANGED <<toPlugin, pfd, dfd, listening, host>>
    /\ UNCHANGED <<halted, next_id, stop_line, todo, launches>>

\* After a resume: a stopped event, the end of the stream, or a line that is
\* neither, on which resume_with() returns with halted still false.
ReceiveEvent ==
    /\ dpc = "resumed" /\ DebuggerReadable
    /\ dpc' = "idle" /\ after' = "client"
    /\ \/ /\ DebuggerEof
          /\ CloseDebuggerEnd /\ UNCHANGED <<halted, stopVars>>
       \/ /\ toDebugger # <<>>
          /\ toDebugger' = Tail(toDebugger) /\ UNCHANGED dfd
          /\ LET m == Head(toDebugger) IN
             \/ /\ m.tag = "stopped"
                /\ halted' = TRUE /\ stopped' = m.wi /\ stop_line' = m.line
             \/ m.tag # "stopped" /\ UNCHANGED <<halted, stopVars>>
    /\ UNCHANGED <<pfd, host, toPlugin, listening, bpVars, pending, todo, launches>>

\* The debugger is killed; its descriptors are closed for it.
DebuggerKilled ==
    /\ dpc # "dead"
    /\ dpc' = "dead"
    /\ CloseDebuggerEnd /\ listening' = FALSE
    /\ UNCHANGED <<toPlugin, pfd, host, halted, bpVars, stopVars, callVars, launches>>

-----------------------------------------------------------------------------
\* The calls a client may make besides launch().
Client ==
    \/ Detach \/ resume \/ read_global_memory \/ evaluate
    \/ \E line \in Lines : set_breakpoint(line)
    \/ \E id \in Ids : remove_breakpoint(id)
    \/ \E wi \in GlobalIds :
         select_work_item(wi, "client") \/ \E how \in StepKinds : step(wi, how)

\* The steps a call in progress takes by itself.
Progress ==
    \/ Accept \/ AcceptFails \/ Handshake \/ Register
    \/ ReceiveReply \/ SendStep \/ ReceiveEvent \/ Reap

=============================================================================
