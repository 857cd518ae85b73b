------------------------------ MODULE DAPServer ------------------------------
(***************************************************************************)
(* The Debug Adapter Protocol server (ocldbg/dap/DAPServer.cpp), between a *)
(* client that sends requests when it likes and a Backend whose calls      *)
(* block: while the target runs the server reads nothing.                  *)
(*                                                                         *)
(* A request is its command, one argument (a thread, a frame, a reference, *)
(* a line or a work-item) and two notes of the client's: how many stops it *)
(* had heard of, and the work-item it expects the answer to be about.      *)
(* Source paths, lines and names of frames are layout, and left out.       *)
(***************************************************************************)
EXTENDS Integers, Sequences

CONSTANTS
    WorkItems,    \* work-items a stop can show
    GlobalIds,    \* ids a client may name; those outside WorkItems are out of range
    NoWI,         \* no work-item
    Stops,        \* what a stop can show: [stopped, visible], visible a sequence
    MaxThreads,   \* bound on the thread ids a client names: threads that every stop has
    MaxRequests,  \* bound on the requests after configurationDone
    MaxInFlight   \* bound on the requests sent and not yet answered

ASSUME StopAssumption ==
    \A s \in Stops : s.stopped \in WorkItems /\ s.visible \in Seq(WorkItems)
ASSUME ThreadAssumption == \A s \in Stops : MaxThreads <= Len(s.visible) + 1
ASSUME NameAssumption == WorkItems \subseteq GlobalIds /\ NoWI \notin GlobalIds
ASSUME DAPBoundAssumption == MaxThreads \in Nat /\ MaxRequests \in Nat /\ MaxInFlight \in Nat

VARIABLES
    inbox,     \* requests the server has not read
    out,       \* messages the client has not read
    pc,        \* "reading", "resuming" (in a call of the backend), "over" or "killed"
    next_seq,  \* next_seq
    running,   \* running
    threads,   \* threads: entry i is the work-item of thread i
    selected,  \* selected_wi
    stopped,   \* current_stop_.stopped
    target,    \* the backend's target: "none", "halted", "running" or "gone"
    answered,  \* requests answered
    stops,     \* stops reported
    sent,      \* requests the client has sent
    heard,     \* messages the client has read
    client     \* the client: what it has set up, its threads, frames and references

serverVars == <<pc, next_seq, running, threads, selected, stopped, target, answered, stops>>
clientVars == <<sent, heard, client>>
vars == <<inbox, out, serverVars, clientVars>>

\* Threads are numbered from 1, the stopped work-item first.
stopped_thread_id == 1

\* Frames and variable references are numbers computed from the thread's.
FrameOf(tid) == tid * 10 + 1
BaseRef(frame) == frame * 100
GlobalsRef(frame) == BaseRef(frame) + 1
IsGlobals(ref) == ref % 100 = 1

\* Wrong variant: the factor of the frames is forgotten.
ThreadOfFrame(ref) == (IF IsGlobals(ref) THEN ref - 1 ELSE ref) \div 100

ThreadOf(ref) == ((IF IsGlobals(ref) THEN ref - 1 ELSE ref) \div 100) \div 10

Setup == <<"initialize", "launch", "setBreakpoints", "configurationDone">>
\* "step" stands for next and stepIn.
Resuming == {"configurationDone", "continue", "step"}

Init ==
    /\ inbox = <<>> /\ out = <<>>
    /\ pc = "reading" /\ next_seq = 1 /\ running = TRUE
    /\ threads = <<>> /\ selected = NoWI /\ stopped = NoWI
    /\ target = "none" /\ answered = 0 /\ stops = 0
    /\ sent = 0 /\ heard = 0
    /\ client = [setup |-> 0, stops |-> 0, frames |-> {}, refs |-> {},
                 closing |-> FALSE, hung_up |-> FALSE]

-----------------------------------------------------------------------------
(* The client.                                                             *)

Send(cmd, arg, wi) ==
    /\ ~client.closing /\ sent - answered < MaxInFlight
    /\ inbox' = Append(inbox, [cmd |-> cmd, arg |-> arg, epoch |-> client.stops, expected |-> wi])
    /\ sent' = sent + 1
    /\ UNCHANGED <<out, serverVars, heard>>

\* The order of the handshake; the client need not wait for an answer.
SetUp ==
    /\ client.setup < Len(Setup)
    /\ Send(Setup[client.setup + 1], 0, NoWI)
    /\ client' = [client EXCEPT !.setup = @ + 1]

\* Then requests in any order, about what the client has been told.
Ask ==
    /\ client.setup = Len(Setup) /\ sent < Len(Setup) + MaxRequests
    /\ \/ \E cmd \in {"continue", "step", "other"} : Send(cmd, 0, NoWI)
       \/ \E t \in 1 .. MaxThreads : Send("stackTrace", t, NoWI)
       \/ \E f \in client.frames : Send("scopes", f.frame, f.wi)
       \/ \E r \in client.refs : Send("variables", r.ref, r.wi)
       \/ \E wi \in GlobalIds : Send("selectWorkItem", wi, NoWI)
    /\ UNCHANGED client

Disconnect ==
    /\ client.setup = Len(Setup)
    /\ Send("disconnect", 0, NoWI)
    /\ client' = [client EXCEPT !.closing = TRUE]

\* The client closes both directions, with or without a disconnect before.
HangUp ==
    /\ ~client.hung_up
    /\ client' = [client EXCEPT !.closing = TRUE, !.hung_up = TRUE]
    /\ UNCHANGED <<inbox, out, serverVars, sent, heard>>

\* What a message teaches the client; a stop ends the life of its references.
Learn(m) ==
    CASE m.what = "stopped" ->
           [client EXCEPT !.stops = @ + 1, !.frames = {}, !.refs = {}]
      [] m.what = "stackTrace" ->
           [client EXCEPT !.frames = @ \cup {[frame |-> m.body, wi |-> m.wi]}]
      [] m.what = "scopes" /\ m.expected # NoWI ->
           [client EXCEPT !.refs = @ \cup {[ref |-> r, wi |-> m.expected] : r \in m.body}]
      [] OTHER -> client

Listen ==
    /\ ~client.hung_up /\ out # <<>>
    /\ client' = Learn(Head(out)) /\ heard' = heard + 1 /\ out' = Tail(out)
    /\ UNCHANGED <<inbox, serverVars, sent>>

-----------------------------------------------------------------------------
(* The server.                                                             *)

Handle(cmd) ==
    /\ pc = "reading" /\ running
    /\ inbox # <<>> /\ Head(inbox).cmd = cmd
    /\ inbox' = Tail(inbox)
    /\ UNCHANGED clientVars

Request == Head(inbox)

\* make_response(): the answer to the request at the head of the inbox.
Response(body, wi) ==
    [seq |-> next_seq, what |-> Request.cmd, request_seq |-> answered + 1, body |-> body,
     wi |-> wi, expected |-> IF Request.epoch = stops THEN Request.expected ELSE NoWI]

Respond(body, wi) ==
    /\ out' = Append(out, Response(body, wi))
    /\ next_seq' = next_seq + 1 /\ answered' = answered + 1

\* threads[tid], or what the handler falls back on.
ThreadOr(tid, wi) == IF tid \in DOMAIN threads THEN threads[tid] ELSE wi

Unchanged == UNCHANGED <<pc, running, threads, selected, stopped, target, stops>>

\* make_event()
Event(seq, what, body, wi) ==
    [seq |-> seq, what |-> what, request_seq |-> answered,
     body |-> body, wi |-> wi, expected |-> NoWI]

\* The answer, and after it the event "initialized".
HandleInitialize ==
    /\ Handle("initialize")
    /\ out' = out \o <<Response({}, NoWI),
                      [Event(next_seq + 1, "initialized", {}, NoWI) EXCEPT !.request_seq = answered + 1]>>
    /\ next_seq' = next_seq + 2 /\ answered' = answered + 1
    /\ Unchanged

\* threads, setBreakpoints (which only ever adds breakpoints), and commands the
\* server does not know: nothing of its own changes.
HandlePlain ==
    /\ \E cmd \in {"setBreakpoints", "other"} : Handle(cmd)
    /\ Respond({}, NoWI)
    /\ Unchanged

\* The result of launch() is not looked at.
HandleLaunch ==
    /\ Handle("launch")
    /\ target' \in {"halted", target}
    /\ Respond({}, NoWI)
    /\ UNCHANGED <<pc, running, threads, selected, stopped, stops>>

HandleStackTrace ==
    /\ Handle("stackTrace")
    /\ Respond(FrameOf(Request.arg), ThreadOr(Request.arg, stopped))
    /\ Unchanged

HandleScopes ==
    /\ Handle("scopes")
    /\ Respond({BaseRef(Request.arg), GlobalsRef(Request.arg)}, Request.expected)
    /\ Unchanged

\* resolve_target_wi()
VariablesOf(ref) ==
    LET tid == IF ThreadOf(ref) = 0 THEN stopped_thread_id ELSE ThreadOf(ref) IN
    ThreadOr(tid, IF selected # NoWI THEN selected ELSE stopped)

HandleVariables ==
    /\ Handle("variables")
    /\ Respond(IsGlobals(Request.arg), VariablesOf(Request.arg))
    /\ Unchanged

\* Wrong variant: the result of the backend is not looked at.
HandleSelectUnchecked ==
    /\ Handle("selectWorkItem")
    /\ selected' = Request.arg
    /\ Respond({}, NoWI)
    /\ UNCHANGED <<pc, running, threads, stopped, target, stops>>

HandleSelect ==
    /\ Handle("selectWorkItem")
    /\ \/ target = "halted" /\ Request.arg \in WorkItems /\ selected' = Request.arg
       \/ UNCHANGED selected
    /\ Respond({}, NoWI)
    /\ UNCHANGED <<pc, running, threads, stopped, target, stops>>

\* configurationDone, continue, next and stepIn answer first and then call the
\* backend, which does nothing when its target is not halted, and may fail.
HandleResume ==
    /\ \E cmd \in Resuming : Handle(cmd)
    /\ Respond({}, NoWI)
    /\ \/ target = "halted" /\ pc' = "resuming" /\ target' = "running"
       \/ UNCHANGED <<pc, target>>
    /\ UNCHANGED <<running, threads, selected, stopped, stops>>

StoppedEvent(wi) == Event(next_seq, "stopped", stopped_thread_id, wi)

\* Wrong variant: an event does not count in the numbering.
StopKeepsSeq(s) ==
    /\ pc = "resuming" /\ pc' = "reading"
    /\ target' = "halted"
    /\ threads' = <<s.stopped>> \o s.visible
    /\ stopped' = s.stopped /\ selected' = NoWI /\ stops' = stops + 1
    /\ out' = Append(out, StoppedEvent(s.stopped))
    /\ UNCHANGED <<inbox, next_seq, running, answered, clientVars>>

\* The call of the backend returns.  Its callback has reported the stop; or
\* there was none to report, because the program ended or shows nothing.
Stop(s) ==
    /\ pc = "resuming" /\ pc' = "reading"
    /\ target' = "halted"
    /\ threads' = <<s.stopped>> \o s.visible
    /\ stopped' = s.stopped /\ selected' = NoWI /\ stops' = stops + 1
    /\ out' = Append(out, StoppedEvent(s.stopped))
    /\ next_seq' = next_seq + 1
    /\ UNCHANGED <<inbox, running, answered, clientVars>>

ReturnSilently ==
    /\ pc = "resuming" /\ pc' = "reading"
    /\ target' \in {"halted", "gone"}
    /\ UNCHANGED <<inbox, out, next_seq, running, threads, selected, stopped, answered, stops>>
    /\ UNCHANGED clientVars

\* Wrong variant: the loop goes on.
HandleDisconnectGoesOn ==
    /\ Handle("disconnect")
    /\ Respond({}, NoWI)
    /\ target' = "gone"
    /\ UNCHANGED <<pc, running, threads, selected, stopped, stops>>

HandleDisconnect ==
    /\ Handle("disconnect")
    /\ Respond({}, NoWI)
    /\ target' = "gone" /\ running' = FALSE
    /\ UNCHANGED <<pc, threads, selected, stopped, stops>>

\* The loop ends, and with it the backend, which detaches.  A connection that
\* is closed with messages unread may lose the requests the server has not read.
LeaveLoop ==
    /\ pc = "reading"
    /\ ~running \/ (client.hung_up /\ (inbox = <<>> \/ out # <<>>))
    /\ pc' = "over" /\ target' = "gone"
    /\ UNCHANGED <<inbox, out, next_seq, running, threads, selected, stopped, answered, stops>>
    /\ UNCHANGED clientVars

\* A write to a client that has hung up raises SIGPIPE, whose action is the
\* default one, unless the connection still takes it.  Of the handlers only
\* launch() has acted before it answers; a disconnect has not yet detached.
KilledByWrite ==
    /\ client.hung_up /\ pc' = "killed"
    /\ \/ /\ pc = "reading" /\ running /\ inbox # <<>>
          /\ target' \in IF Request.cmd = "launch" THEN {"halted", target} ELSE {target}
       \/ pc = "resuming" /\ target' = "halted"
    /\ UNCHANGED <<inbox, out, next_seq, running, threads, selected, stopped, answered, stops>>
    /\ UNCHANGED clientVars

Client == SetUp \/ Ask \/ Disconnect \/ HangUp \/ Listen

Server ==
    \/ HandleInitialize \/ HandlePlain \/ HandleLaunch \/ HandleStackTrace \/ HandleScopes \/ HandleVariables
    \/ HandleSelect \/ HandleResume \/ HandleDisconnect
    \/ ReturnSilently \/ LeaveLoop \/ KilledByWrite
    \/ \E s \in Stops : Stop(s)

Next == Client \/ Server

\* The server is scheduled and a running target stops or ends; a client reads
\* what it is sent.
Spec == Init /\ [][Next]_vars /\ WF_vars(Server) /\ WF_vars(Listen)

-----------------------------------------------------------------------------
IsResponse(m) == m.what \notin {"initialized", "stopped"}

TypeOK ==
    /\ pc \in {"reading", "resuming", "over", "killed"}
    /\ threads \in Seq(WorkItems)
    /\ selected \in WorkItems \cup {NoWI} /\ stopped \in WorkItems \cup {NoWI}
    /\ target \in {"none", "halted", "running", "gone"}

(***************************************************************************)
(* What the client reads is numbered without gaps (next_seq++), its        *)
(* requests are answered once each and in the order it sent them, and a    *)
(* stop is heard of after the answer to the request that caused it, so the *)
(* client never takes a stop for one that is over (DAPServer.cpp:495,504). *)
(***************************************************************************)
StreamInOrder ==
    /\ sent - answered = Len(inbox)
    /\ \A i \in DOMAIN out :
      /\ out[i].seq = heard + i
      /\ \A j \in DOMAIN out : i < j => out[i].request_seq <= out[j].request_seq
      /\ \A j \in DOMAIN out :
           i < j /\ IsResponse(out[j]) => out[i].request_seq < out[j].request_seq

(***************************************************************************)
(* The variables of a scope of a frame of a thread are those of the        *)
(* thread's work-item, for every thread of the stop (scopes and            *)
(* variables share the numbering of references, DAPServer.cpp:364,428-430).*)
(***************************************************************************)
VariablesOfThread ==
    \A i \in DOMAIN out :
      out[i].what = "variables" /\ out[i].expected # NoWI => out[i].wi = out[i].expected

(***************************************************************************)
(* A disconnect, or the end of the input, is obeyed, also while the target *)
(* runs (DAPServer.cpp:508-512, run_dap): the server ends, and leaves no   *)
(* program behind unless the client hung up without waiting for the last   *)
(* answer and the server was killed writing it (DAPServer.cpp:28-31).      *)
(***************************************************************************)
DisconnectEnds ==
    client.closing ~> \/ pc = "over" /\ target = "gone"
                      \/ pc = "killed" /\ client.hung_up

=============================================================================
