-------------------------- MODULE OclgrindProtocol --------------------------
(***************************************************************************)
(* The newline-framed protocol between ocldbg and the plugin injected into *)
(* the host program (ocldbg/backends/oclgrind/OclgrindProtocol.h), and the *)
(* UNIX stream socket below it.  Both ends are single threaded.            *)
(*                                                                         *)
(* A line is a record: its verb or tag, and the fields the other side      *)
(* looks at.  A socket end is "none" before it exists, "open", or "closed".*)
(***************************************************************************)
EXTENDS Naturals, Sequences

CONSTANTS
    WorkItems,    \* global indices of the work-items of the NDRange
    GlobalIds,    \* ids a client may name; those outside WorkItems are out of range
    NoWI,         \* "no work-item": a null pointer
    Lines,        \* kernel source lines that carry code
    MaxId,        \* bound on the breakpoint ids handed out
    SigPipeFatal  \* TRUE: write() on a socket the peer closed kills the writer
                  \* (nothing in either process changes that default)

ASSUME WorkItemAssumption == WorkItems \subseteq GlobalIds /\ NoWI \notin GlobalIds
ASSUME LineAssumption == Lines \subseteq Nat \ {0}
ASSUME MaxIdAssumption == MaxId \in Nat
ASSUME SigPipeAssumption == SigPipeFatal \in BOOLEAN

\* Line 0 names no code; the maps of breakpoints use it for "no entry".
NoLine == 0
MaybeLine == Lines \cup {NoLine}
Ids == 1 .. MaxId

VARIABLES
    host,        \* where the host process is; "none" before fork() and once reaped
    toPlugin,    \* lines sent by the debugger, not yet read by the plugin
    toDebugger,  \* lines sent by the plugin, not yet read by the debugger
    pfd,         \* the plugin's end of the socket
    dfd,         \* the debugger's end, once accepted
    listening    \* the debugger's listen_fd is open

wireVars == <<toPlugin, toDebugger, pfd, dfd, listening>>

\* ocldbg -> plugin.
Break(id, line) == [verb |-> "break", id |-> id, line |-> line]
Delete(id)      == [verb |-> "delete", id |-> id]
Select(wi)      == [verb |-> "select", wi |-> wi]
PrintExpr       == [verb |-> "print"]
ReadMemory      == [verb |-> "read"]
Continue        == [verb |-> "continue"]
Step(how)       == [verb |-> "step", how |-> how]
StepKinds       == {"in", "over"}

Requests ==
    {Break(id, line) : id \in Ids, line \in Lines}
      \cup {Delete(id) : id \in Ids}
      \cup {Select(wi) : wi \in GlobalIds}
      \cup {PrintExpr, ReadMemory}
Resumptions == {Continue} \cup {Step(how) : how \in StepKinds}
Commands == Requests \cup Resumptions

\* plugin -> ocldbg.  Located is the "ok" that carries six coordinates.
Ready           == [tag |-> "ready"]
Stopped(wi, ln) == [tag |-> "stopped", wi |-> wi, line |-> ln]
Ok              == [tag |-> "ok"]
Located         == [tag |-> "located"]
Value(wi)       == [tag |-> "value", wi |-> wi]
Data            == [tag |-> "data"]
Err             == [tag |-> "err"]

Events == {Ready} \cup {Stopped(wi, ln) : wi \in WorkItems, ln \in Lines}
Replies == {Ok, Located, Data, Err} \cup {Value(wi) : wi \in WorkItems}

HostGone == {"exited", "killed", "sigpipe"}

WireTypeOK ==
    /\ host \in {"none", "starting", "connected", "serving", "between", "kernel", "released"}
                 \cup HostGone
    /\ toPlugin \in Seq(Commands)
    /\ toDebugger \in Seq(Events \cup Replies)
    /\ pfd \in {"none", "open", "closed"}
    /\ dfd \in {"none", "open", "closed"}
    /\ listening \in BOOLEAN

WireInit ==
    /\ host = "none"
    /\ toPlugin = <<>> /\ toDebugger = <<>>
    /\ pfd = "none" /\ dfd = "none" /\ listening = FALSE

-----------------------------------------------------------------------------
\* A connection waiting in the listen backlog can be written to already.
DebuggerEnd == dfd = "open" \/ (dfd = "none" /\ listening)
PluginEnd == pfd = "open"

\* recv() finds a line, or the end of the stream; otherwise it blocks.
PluginEof == toPlugin = <<>> /\ ~DebuggerEnd
DebuggerEof == toDebugger = <<>> /\ ~PluginEnd
DebuggerReadable == toDebugger # <<>> \/ DebuggerEof

\* close() drops what this end has not read; what it sent stays readable.
ClosePluginEnd == pfd' = "closed" /\ toPlugin' = <<>>
CloseDebuggerEnd == dfd' = "closed" /\ toDebugger' = <<>>

=============================================================================
