--------------------------- MODULE DAPServerProofs ---------------------------
(***************************************************************************)
(* Theorems about DAPServer, for every set of stops and work-items and for *)
(* every number of requests the client sends ahead.                        *)
(***************************************************************************)
EXTENDS DAPServer, TLAPS

-----------------------------------------------------------------------------
(* Sequences of messages.                                                  *)

\* A message at the end leaves those before it where they are.
LEMMA AppendFacts ==
    ASSUME NEW S, NEW s \in Seq(S), NEW m
    PROVE  /\ Append(s, m) \in Seq(S \cup {m})
           /\ Len(s) \in Nat /\ Len(Append(s, m)) = Len(s) + 1
           /\ DOMAIN s = 1 .. Len(s) /\ DOMAIN Append(s, m) = 1 .. Len(s) + 1
           /\ \A i \in 1 .. Len(s) : Append(s, m)[i] = s[i]
           /\ Append(s, m)[Len(s) + 1] = m
<1> DEFINE T == S \cup {m}
<1>1. s \in Seq(T) /\ m \in T
  OBVIOUS
<1> HIDE DEF T
<1>2. Append(s, m) \in Seq(T)
  BY <1>1
<1>3. /\ Len(s) \in Nat /\ Len(Append(s, m)) = Len(s) + 1
      /\ DOMAIN s = 1 .. Len(s) /\ DOMAIN Append(s, m) = 1 .. Len(s) + 1
  BY <1>1
<1>4. \A i \in 1 .. Len(s) : Append(s, m)[i] = s[i]
  BY <1>1
<1>5. Append(s, m)[Len(s) + 1] = m
  BY <1>1
<1> QED BY <1>2, <1>3, <1>4, <1>5 DEF T

\* A message that is read brings the others one place forward.
LEMMA TailFacts ==
    ASSUME NEW S, NEW s \in Seq(S), s # <<>>
    PROVE  /\ Tail(s) \in Seq(S)
           /\ Len(s) \in Nat \ {0} /\ Len(Tail(s)) = Len(s) - 1
           /\ DOMAIN s = 1 .. Len(s) /\ DOMAIN Tail(s) = 1 .. Len(s) - 1
           /\ \A i \in 1 .. Len(s) - 1 : Tail(s)[i] = s[i + 1]
           /\ Head(s) = s[1] /\ s[1] \in S
<1>1. Len(s) \in Nat \ {0} /\ DOMAIN s = 1 .. Len(s)
  OBVIOUS
<1>2. Tail(s) \in Seq(S) /\ Len(Tail(s)) = Len(s) - 1
  OBVIOUS
<1>3. DOMAIN Tail(s) = 1 .. Len(s) - 1
  BY <1>2
<1>4. \A i \in 1 .. Len(s) - 1 : Tail(s)[i] = s[i + 1]
  OBVIOUS
<1>5. Head(s) = s[1] /\ s[1] \in S
  BY <1>1
<1> QED BY <1>1, <1>2, <1>3, <1>4, <1>5

-----------------------------------------------------------------------------
(* Type correctness.                                                       *)

\* The threads of a stop are a sequence of work-items.
LEMMA ThreadsOfStop ==
    ASSUME NEW s \in Stops
    PROVE  /\ s.stopped \in WorkItems /\ <<s.stopped>> \o s.visible \in Seq(WorkItems)
           /\ Len(<<s.stopped>> \o s.visible) = Len(s.visible) + 1 /\ Len(s.visible) \in Nat
BY StopAssumption

\* The server's variables keep their types, whatever the client sends
\* (TypeOK): a stop replaces all of threads, and a work-item that the backend
\* refuses is never selected.
THEOREM TypeCorrect == Spec => []TypeOK
<1>1. Init => TypeOK
  BY DEF Init, TypeOK
<1>2. TypeOK /\ [Next]_vars => TypeOK'
  <2> SUFFICES ASSUME TypeOK, [Next]_vars PROVE TypeOK'
    OBVIOUS
  <2> USE DEF TypeOK
  <2>1. CASE SetUp \/ Ask \/ Disconnect \/ HangUp \/ Listen
    BY <2>1 DEF SetUp, Ask, Disconnect, HangUp, Listen, Send, serverVars
  <2>2. CASE HandleInitialize \/ HandlePlain \/ HandleStackTrace \/ HandleScopes \/ HandleVariables
    BY <2>2 DEF HandleInitialize, HandlePlain, HandleStackTrace, HandleScopes, HandleVariables,
                Unchanged
  <2>3. CASE HandleLaunch \/ HandleResume \/ HandleDisconnect
    BY <2>3 DEF HandleLaunch, HandleResume, HandleDisconnect
  <2>4. CASE HandleSelect
    BY <2>4 DEF HandleSelect
  <2>5. CASE ReturnSilently \/ LeaveLoop \/ KilledByWrite
    BY <2>5 DEF ReturnSilently, LeaveLoop, KilledByWrite
  <2>6. ASSUME NEW s \in Stops, Stop(s) PROVE TypeOK'
    BY <2>6, ThreadsOfStop DEF Stop
  <2>7. CASE UNCHANGED vars
    BY <2>7 DEF vars, serverVars
  <2> QED BY <2>1, <2>2, <2>3, <2>4, <2>5, <2>6, <2>7 DEF Next, Client, Server
<1> QED BY <1>1, <1>2, PTL DEF Spec

-----------------------------------------------------------------------------
(* The order of the stream.                                                *)

IsSequence(s) == \E S : s \in Seq(S)

\* What is on its way to a client that has heard h messages, from a server that
\* has answered a requests and numbers its next message n.
Stream(o, h, n, a) ==
    /\ n = h + Len(o) + 1
    /\ \A i \in DOMAIN o : o[i].seq = h + i /\ o[i].request_seq \in Nat /\ o[i].request_seq <= a
    /\ \A i, j \in DOMAIN o : i < j => o[i].request_seq <= o[j].request_seq
    /\ \A i, j \in DOMAIN o :
         i < j /\ IsResponse(o[j]) => o[i].request_seq < o[j].request_seq

StreamInv ==
    /\ sent \in Nat /\ answered \in Nat /\ heard \in Nat /\ next_seq \in Nat
    /\ IsSequence(inbox) /\ IsSequence(out)
    /\ sent - answered = Len(inbox)
    /\ Stream(out, heard, next_seq, answered)

\* An answer to the next request, or an event about the last one, goes on the stream.
LEMMA StreamGrows ==
    ASSUME NEW o, IsSequence(o), NEW h \in Nat, NEW n \in Nat, NEW a \in Nat, Stream(o, h, n, a),
           NEW m, m.seq = n,
           \/ m.request_seq = a + 1
           \/ m.request_seq = a /\ ~IsResponse(m),
           NEW b \in Nat, a <= b, m.request_seq <= b
    PROVE  IsSequence(Append(o, m)) /\ Stream(Append(o, m), h, n + 1, b)
<1>1. PICK S : o \in Seq(S)
  BY DEF IsSequence
<1> DEFINE p == Append(o, m)
<1>2. /\ p \in Seq(S \cup {m}) /\ Len(o) \in Nat /\ Len(p) = Len(o) + 1
      /\ DOMAIN o = 1 .. Len(o) /\ DOMAIN p = 1 .. Len(o) + 1
      /\ \A i \in 1 .. Len(o) : p[i] = o[i]
      /\ p[Len(o) + 1] = m
  BY <1>1, AppendFacts
<1> HIDE DEF p
<1>3. IsSequence(p)
  BY <1>2 DEF IsSequence
<1>4. n + 1 = h + Len(p) + 1
  BY <1>2 DEF Stream
<1>5. \A i \in DOMAIN p : p[i].seq = h + i /\ p[i].request_seq \in Nat /\ p[i].request_seq <= b
  <2>1. m.seq = h + (Len(o) + 1) /\ m.request_seq \in Nat
    BY <1>2 DEF Stream
  <2>2. \A i \in 1 .. Len(o) : o[i].seq = h + i /\ o[i].request_seq \in Nat /\ o[i].request_seq <= b
    BY <1>2 DEF Stream
  <2>3. ASSUME NEW i \in DOMAIN p
        PROVE  p[i].seq = h + i /\ p[i].request_seq \in Nat /\ p[i].request_seq <= b
    <3>1. CASE i = Len(o) + 1
      BY <1>2, <2>1, <3>1
    <3>2. CASE i \in 1 .. Len(o)
      BY <1>2, <2>2, <3>2
    <3> QED BY <1>2, <3>1, <3>2
  <2> QED BY <2>3
<1>6. \A i \in DOMAIN p : i < Len(p) => p[i] = o[i] /\ o[i].request_seq <= a
  BY <1>2 DEF Stream
<1>7. ASSUME NEW i \in DOMAIN p, NEW j \in DOMAIN p, i < j
      PROVE  p[i].request_seq <= p[j].request_seq
  <2>1. CASE j = Len(p)
    BY <1>2, <1>5, <1>6, <1>7, <2>1 DEF Stream
  <2>2. CASE j # Len(p)
    BY <1>2, <1>6, <1>7, <2>2 DEF Stream
  <2> QED BY <2>1, <2>2
<1>8. ASSUME NEW i \in DOMAIN p, NEW j \in DOMAIN p, i < j, IsResponse(p[j])
      PROVE  p[i].request_seq < p[j].request_seq
  <2>1. CASE j = Len(p)
    BY <1>2, <1>5, <1>6, <1>8, <2>1 DEF Stream
  <2>2. CASE j # Len(p)
    BY <1>2, <1>6, <1>8, <2>2 DEF Stream
  <2> QED BY <2>1, <2>2
<1> QED BY <1>3, <1>4, <1>5, <1>7, <1>8 DEF Stream, p

\* The client reads the first message of the stream.
LEMMA StreamShrinks ==
    ASSUME NEW o, IsSequence(o), o # <<>>, NEW h \in Nat, NEW n \in Nat, NEW a \in Nat,
           Stream(o, h, n, a)
    PROVE  IsSequence(Tail(o)) /\ Stream(Tail(o), h + 1, n, a)
<1>1. PICK S : o \in Seq(S)
  BY DEF IsSequence
<1> DEFINE p == Tail(o)
<1>2. /\ p \in Seq(S) /\ Len(o) \in Nat \ {0} /\ Len(p) = Len(o) - 1
      /\ DOMAIN o = 1 .. Len(o) /\ DOMAIN p = 1 .. Len(o) - 1
      /\ \A i \in 1 .. Len(o) - 1 : p[i] = o[i + 1]
  BY <1>1, TailFacts
<1> HIDE DEF p
<1>3. \A i \in DOMAIN p : p[i] = o[i + 1] /\ i + 1 \in DOMAIN o /\ i \in Nat
  BY <1>2
<1>4. IsSequence(p) /\ n = (h + 1) + Len(p) + 1
  BY <1>2 DEF IsSequence, Stream
<1>5. \A i \in DOMAIN p :
        p[i].seq = (h + 1) + i /\ p[i].request_seq \in Nat /\ p[i].request_seq <= a
  BY <1>3 DEF Stream
<1>6. \A i, j \in DOMAIN p : i < j => i + 1 < j + 1
  BY <1>3
<1>7. \A i, j \in DOMAIN p : i < j => p[i].request_seq <= p[j].request_seq
  BY <1>3, <1>6 DEF Stream
<1>8. \A i, j \in DOMAIN p :
        i < j /\ IsResponse(p[j]) => p[i].request_seq < p[j].request_seq
  BY <1>3, <1>6 DEF Stream
<1> QED BY <1>4, <1>5, <1>7, <1>8 DEF Stream, p

\* The server takes a request from the inbox and answers it.
LEMMA AnswerKeepsOrder ==
    ASSUME StreamInv, NEW cmd, Handle(cmd), NEW body, NEW wi, Respond(body, wi)
    PROVE  StreamInv'
<1> DEFINE m == Response(body, wi)
<1>1. m.seq = next_seq /\ m.request_seq = answered + 1
  BY DEF Response
<1> HIDE DEF m
<1>2. out' = Append(out, m) /\ next_seq' = next_seq + 1 /\ answered' = answered + 1
  BY DEF Respond, m
<1>3. /\ inbox # <<>> /\ inbox' = Tail(inbox) /\ sent' = sent /\ heard' = heard
  BY DEF Handle, clientVars
<1>4. IsSequence(out') /\ Stream(out', heard', next_seq', answered')
  BY <1>1, <1>2, <1>3, StreamGrows DEF StreamInv
<1>5. IsSequence(inbox') /\ sent' - answered' = Len(inbox')
  BY <1>2, <1>3, TailFacts DEF StreamInv, IsSequence
<1> QED BY <1>2, <1>3, <1>4, <1>5 DEF StreamInv

\* The answer to initialize is followed by the event of the same name.
LEMMA InitializeKeepsOrder == StreamInv /\ HandleInitialize => StreamInv'
<1> SUFFICES ASSUME StreamInv, HandleInitialize PROVE StreamInv'
  OBVIOUS
<1> DEFINE m == Response({}, NoWI)
           e == [Event(next_seq + 1, "initialized", {}, NoWI) EXCEPT !.request_seq = answered + 1]
<1>1. /\ m.seq = next_seq /\ m.request_seq = answered + 1
      /\ e.seq = next_seq + 1 /\ e.request_seq = answered + 1 /\ ~IsResponse(e)
  BY DEF Response, Event, IsResponse
<1>2. /\ out' = out \o <<m, e>> /\ next_seq' = next_seq + 2 /\ answered' = answered + 1
      /\ inbox # <<>> /\ inbox' = Tail(inbox) /\ sent' = sent /\ heard' = heard
  BY DEF HandleInitialize, Handle, clientVars
<1> HIDE DEF m, e
<1>3. out' = Append(Append(out, m), e)
  <2>1. PICK S : out \in Seq(S)
    BY DEF StreamInv, IsSequence
  <2> DEFINE T == S \cup {m, e}
  <2>2. out \in Seq(T) /\ m \in T /\ e \in T
    BY <2>1
  <2> HIDE DEF T
  <2> QED BY <1>2, <2>2
<1>4. IsSequence(Append(out, m)) /\ Stream(Append(out, m), heard, next_seq + 1, answered + 1)
  BY <1>1, StreamGrows DEF StreamInv
<1>5. IsSequence(out') /\ Stream(out', heard, (next_seq + 1) + 1, answered + 1)
  BY <1>1, <1>3, <1>4, StreamGrows DEF StreamInv
<1>6. IsSequence(inbox') /\ sent' - answered' = Len(inbox')
  BY <1>2, TailFacts DEF StreamInv, IsSequence
<1>7. next_seq' = (next_seq + 1) + 1
  BY <1>2 DEF StreamInv
<1> QED BY <1>2, <1>5, <1>6, <1>7 DEF StreamInv

\* A stop is reported after the answer to the request that caused it.
LEMMA StopKeepsOrder ==
    ASSUME StreamInv, NEW s \in Stops, Stop(s)
    PROVE  StreamInv'
<1> DEFINE m == StoppedEvent(s.stopped)
<1>1. m.seq = next_seq /\ m.request_seq = answered /\ ~IsResponse(m)
  BY DEF StoppedEvent, Event, IsResponse
<1> HIDE DEF m
<1>2. /\ out' = Append(out, m) /\ next_seq' = next_seq + 1 /\ answered' = answered
      /\ inbox' = inbox /\ sent' = sent /\ heard' = heard
  BY DEF Stop, m, clientVars
<1>3. IsSequence(out') /\ Stream(out', heard', next_seq', answered')
  BY <1>1, <1>2, StreamGrows DEF StreamInv
<1> QED BY <1>2, <1>3 DEF StreamInv

\* The client sends a request.
LEMMA SendKeepsOrder ==
    ASSUME StreamInv, NEW cmd, NEW arg, NEW wi, Send(cmd, arg, wi)
    PROVE  StreamInv'
<1>1. PICK r : inbox' = Append(inbox, r)
  BY DEF Send
<1>2. sent' = sent + 1 /\ UNCHANGED <<out, heard, next_seq, answered>>
  BY DEF Send, serverVars
<1>3. IsSequence(inbox') /\ Len(inbox') = Len(inbox) + 1
  <2>1. PICK S : inbox \in Seq(S)
    BY DEF StreamInv, IsSequence
  <2>2. inbox' \in Seq(S \cup {r}) /\ Len(inbox') = Len(inbox) + 1
    BY <1>1, <2>1, AppendFacts
  <2> QED BY <2>2 DEF IsSequence
<1>4. sent' - answered' = Len(inbox')
  BY <1>2, <1>3 DEF StreamInv
<1> QED BY <1>4, <1>2, <1>3 DEF StreamInv

\* The client reads a message.
LEMMA ListenKeepsOrder == StreamInv /\ Listen => StreamInv'
<1> SUFFICES ASSUME StreamInv, Listen PROVE StreamInv'
  OBVIOUS
<1>1. /\ out # <<>> /\ out' = Tail(out) /\ heard' = heard + 1
      /\ UNCHANGED <<inbox, sent, next_seq, answered>>
  BY DEF Listen, serverVars
<1>2. IsSequence(out') /\ Stream(out', heard', next_seq', answered')
  BY <1>1, StreamShrinks DEF StreamInv
<1> QED BY <1>1, <1>2 DEF StreamInv

\* Every step keeps the stream in order.
LEMMA StepKeepsOrder == StreamInv /\ [Next]_vars => StreamInv'
<1> SUFFICES ASSUME StreamInv, [Next]_vars PROVE StreamInv'
  OBVIOUS
<1>1. CASE SetUp \/ Ask \/ Disconnect
  BY <1>1, SendKeepsOrder DEF SetUp, Ask, Disconnect
<1>2. CASE HangUp \/ ReturnSilently \/ LeaveLoop \/ KilledByWrite \/ UNCHANGED vars
  <2>1. UNCHANGED <<inbox, out, sent, heard, next_seq, answered>>
    BY <1>2 DEF HangUp, ReturnSilently, LeaveLoop, KilledByWrite, vars, serverVars, clientVars
  <2> QED BY <2>1 DEF StreamInv
<1>3. CASE Listen
  BY <1>3, ListenKeepsOrder
<1>4. CASE HandleInitialize
  BY <1>4, InitializeKeepsOrder
<1>5. CASE HandlePlain \/ HandleLaunch \/ HandleStackTrace \/ HandleScopes \/ HandleVariables
           \/ HandleSelect \/ HandleResume \/ HandleDisconnect
  BY <1>5, AnswerKeepsOrder
     DEF HandlePlain, HandleLaunch, HandleStackTrace, HandleScopes, HandleVariables,
         HandleSelect, HandleResume, HandleDisconnect
<1>6. ASSUME NEW s \in Stops, Stop(s) PROVE StreamInv'
  BY <1>6, StopKeepsOrder
<1> QED BY <1>1, <1>2, <1>3, <1>4, <1>5, <1>6 DEF Next, Client, Server

\* At the start nothing is under way.
LEMMA InitInOrder == Init => StreamInv
<1> SUFFICES ASSUME Init PROVE StreamInv
  OBVIOUS
<1>1. inbox = <<>> /\ out = <<>> /\ next_seq = 1 /\ answered = 0 /\ sent = 0 /\ heard = 0
  BY DEF Init
<1>2. <<>> \in Seq({}) /\ Len(<<>>) = 0 /\ DOMAIN <<>> = {}
  OBVIOUS
<1> QED BY <1>1, <1>2 DEF StreamInv, Stream, IsSequence

\* However far ahead the client sends and whenever the target stops, what it
\* reads is numbered without gaps, its requests are answered once and in order,
\* and a stop comes after the answer to its cause (StreamInOrder).
THEOREM StreamAlwaysInOrder == Spec => []StreamInOrder
<1>2. StreamInv => StreamInOrder
  BY DEF StreamInv, Stream, StreamInOrder
<1> QED BY <1>2, InitInOrder, StepKeepsOrder, PTL DEF Spec

-----------------------------------------------------------------------------
(* Frames and references.                                                  *)

\* A frame, or a reference, of a thread of the stop and what it stands for.
GoodFrame(th, frame, wi) == \E t \in DOMAIN th : frame = FrameOf(t) /\ wi = th[t]
GoodRef(th, ref, wi) ==
    \E t \in DOMAIN th : ref \in {BaseRef(FrameOf(t)), GlobalsRef(FrameOf(t))} /\ wi = th[t]

\* What a message says that belongs to the stop the server is at.
GoodMessage(m, th) ==
    /\ m.what = "stackTrace" /\ m.wi # NoWI => GoodFrame(th, m.body, m.wi)
    /\ m.what = "scopes" /\ m.expected # NoWI => \A r \in m.body : GoodRef(th, r, m.expected)
TrueMessage(m) == m.what = "variables" /\ m.expected # NoWI => m.wi = m.expected

\* f[i] stops have been heard of by a client that heard c and has read i messages.
Epochs(o, f, c, n) ==
    /\ f \in [0 .. Len(o) -> Nat] /\ f[0] = c /\ f[Len(o)] = n
    /\ \A i \in 0 .. Len(o) : f[i] <= n
    /\ \A i \in 1 .. Len(o) : f[i] = f[i - 1] + (IF o[i].what = "stopped" THEN 1 ELSE 0)

\* A message that no report of a stop follows is about the stop the server is at.
Mail(o, c, th, n) ==
    /\ \E f : /\ Epochs(o, f, c, n)
             /\ \A i \in DOMAIN o : f[i] = n => GoodMessage(o[i], th)
    /\ \A i \in DOMAIN o : TrueMessage(o[i])

\* So is a request of a client that has heard of that stop, and so is what it knows.
GoodRequest(r, c, th, n) ==
    /\ r.epoch \in Nat /\ r.epoch <= c
    /\ r.cmd = "stackTrace" => r.arg \in 1 .. MaxThreads
    /\ r.epoch = n /\ r.expected # NoWI /\ r.cmd = "scopes" => GoodFrame(th, r.arg, r.expected)
    /\ r.epoch = n /\ r.expected # NoWI /\ r.cmd = "variables" => GoodRef(th, r.arg, r.expected)
Requests(q, c, th, n) == \A i \in DOMAIN q : GoodRequest(q[i], c, th, n)
Knowledge(c, th, n) ==
    /\ c = [setup |-> c.setup, stops |-> c.stops, frames |-> c.frames, refs |-> c.refs,
            closing |-> c.closing, hung_up |-> c.hung_up]
    /\ c.setup \in Nat /\ c.stops \in Nat /\ n \in Nat /\ c.stops <= n
    /\ c.stops = n =>
         /\ \A f \in c.frames : f.wi # NoWI => GoodFrame(th, f.frame, f.wi)
         /\ \A r \in c.refs : r.wi # NoWI => GoodRef(th, r.ref, r.wi)

ThreadsKnown == (threads = <<>> /\ stopped = NoWI) \/ MaxThreads <= Len(threads)

ReferenceInv ==
    /\ ThreadsKnown
    /\ Mail(out, client.stops, threads, stops)
    /\ Requests(inbox, client.stops, threads, stops)
    /\ Knowledge(client, threads, stops)

\* The numbers of frames and references are taken apart as they were made, and no
\* thread's is 0.
LEMMA RefRoundTrip ==
    ASSUME NEW t \in Nat
    PROVE  ThreadOf(BaseRef(FrameOf(t))) = t /\ ThreadOf(GlobalsRef(FrameOf(t))) = t
BY SMT DEF ThreadOf, BaseRef, GlobalsRef, FrameOf, IsGlobals

\* A message that is no stop goes to the client.
LEMMA MailGrows ==
    ASSUME NEW o, IsSequence(o), NEW c \in Nat, NEW th, NEW n \in Nat, Mail(o, c, th, n),
           NEW m, m.what # "stopped", GoodMessage(m, th), TrueMessage(m)
    PROVE  IsSequence(Append(o, m)) /\ Mail(Append(o, m), c, th, n)
<1>1. PICK S : o \in Seq(S)
  BY DEF IsSequence
<1> DEFINE p == Append(o, m)
<1>2. /\ p \in Seq(S \cup {m}) /\ Len(o) \in Nat /\ Len(p) = Len(o) + 1
      /\ DOMAIN o = 1 .. Len(o) /\ DOMAIN p = 1 .. Len(o) + 1
      /\ \A i \in 1 .. Len(o) : p[i] = o[i]
      /\ p[Len(o) + 1] = m
  BY <1>1, AppendFacts
<1> HIDE DEF p
<1>3. PICK f : /\ Epochs(o, f, c, n)
               /\ \A i \in DOMAIN o : f[i] = n => GoodMessage(o[i], th)
  BY DEF Mail
<1> DEFINE g == [i \in 0 .. Len(p) |-> IF i <= Len(o) THEN f[i] ELSE n]
<1>4. /\ g \in [0 .. Len(p) -> Nat]
      /\ \A i \in 0 .. Len(o) : g[i] = f[i]
      /\ g[Len(o) + 1] = n
  BY <1>2, <1>3 DEF Epochs
<1> HIDE DEF g
<1>5. g[0] = c /\ g[Len(p)] = n /\ \A i \in 0 .. Len(p) : g[i] <= n
  BY <1>2, <1>3, <1>4 DEF Epochs
<1>6. ASSUME NEW i \in 1 .. Len(p)
      PROVE  g[i] = g[i - 1] + (IF p[i].what = "stopped" THEN 1 ELSE 0)
  <2>1. CASE i = Len(p)
    <3>1. i - 1 = Len(o) /\ p[i] = m /\ g[i] = n
      BY <1>2, <1>4, <2>1
    <3>2. g[i - 1] = f[Len(o)] /\ f[Len(o)] = n
      BY <1>2, <1>3, <1>4, <3>1 DEF Epochs
    <3> QED BY <3>1, <3>2
  <2>2. CASE i # Len(p)
    <3>1. i \in 1 .. Len(o) /\ i - 1 \in 0 .. Len(o) /\ i \in 0 .. Len(o)
      BY <1>2, <1>6, <2>2
    <3>2. g[i] = f[i] /\ g[i - 1] = f[i - 1] /\ p[i] = o[i]
      BY <1>2, <1>4, <3>1
    <3> QED BY <1>3, <3>1, <3>2 DEF Epochs
  <2> QED BY <2>1, <2>2
<1>7. \A i \in DOMAIN p : g[i] = n => GoodMessage(p[i], th)
  BY <1>2, <1>3, <1>4
<1>8. \A i \in DOMAIN p : TrueMessage(p[i])
  BY <1>2 DEF Mail
<1>9. Epochs(p, g, c, n)
  BY <1>4, <1>5, <1>6 DEF Epochs
<1> QED BY <1>2, <1>7, <1>8, <1>9 DEF Mail, IsSequence, p

\* A stop is reported; nothing that was on its way is about it.
LEMMA MailStops ==
    ASSUME NEW o, IsSequence(o), NEW c \in Nat, NEW th, NEW n \in Nat, Mail(o, c, th, n),
           NEW m, m.what = "stopped", NEW new
    PROVE  Mail(Append(o, m), c, new, n + 1)
<1>1. PICK S : o \in Seq(S)
  BY DEF IsSequence
<1> DEFINE p == Append(o, m)
<1>2. /\ Len(o) \in Nat /\ Len(p) = Len(o) + 1
      /\ DOMAIN o = 1 .. Len(o) /\ DOMAIN p = 1 .. Len(o) + 1
      /\ \A i \in 1 .. Len(o) : p[i] = o[i]
      /\ p[Len(o) + 1] = m
  BY <1>1, AppendFacts
<1> HIDE DEF p
<1>3. PICK f : Epochs(o, f, c, n)
  BY DEF Mail
<1> DEFINE g == [i \in 0 .. Len(p) |-> IF i <= Len(o) THEN f[i] ELSE n + 1]
<1>4. /\ g \in [0 .. Len(p) -> Nat]
      /\ \A i \in 0 .. Len(o) : g[i] = f[i] /\ g[i] <= n
      /\ g[Len(o) + 1] = n + 1
  BY <1>2, <1>3 DEF Epochs
<1> HIDE DEF g
<1>5. g[0] = c /\ g[Len(p)] = n + 1 /\ \A i \in 0 .. Len(p) : g[i] <= n + 1
  BY <1>2, <1>3, <1>4 DEF Epochs
<1>6. ASSUME NEW i \in 1 .. Len(p)
      PROVE  g[i] = g[i - 1] + (IF p[i].what = "stopped" THEN 1 ELSE 0)
  <2>1. CASE i = Len(p)
    <3>1. i - 1 = Len(o) /\ p[i] = m /\ g[i] = n + 1
      BY <1>2, <1>4, <2>1
    <3>2. g[i - 1] = f[Len(o)] /\ f[Len(o)] = n
      BY <1>2, <1>3, <1>4, <3>1 DEF Epochs
    <3> QED BY <3>1, <3>2
  <2>2. CASE i # Len(p)
    <3>1. i \in 1 .. Len(o) /\ i - 1 \in 0 .. Len(o) /\ i \in 0 .. Len(o)
      BY <1>2, <1>6, <2>2
    <3>2. g[i] = f[i] /\ g[i - 1] = f[i - 1] /\ p[i] = o[i]
      BY <1>2, <1>4, <3>1
    <3> QED BY <1>3, <3>1, <3>2 DEF Epochs
  <2> QED BY <2>1, <2>2
<1>7. \A i \in DOMAIN p : g[i] = n + 1 => p[i] = m
  BY <1>2, <1>4
<1>8. GoodMessage(m, new) /\ TrueMessage(m)
  BY DEF GoodMessage, TrueMessage
<1>9. \A i \in DOMAIN p : TrueMessage(p[i])
  BY <1>2, <1>8 DEF Mail
<1>10. Epochs(p, g, c, n + 1)
  BY <1>4, <1>5, <1>6 DEF Epochs
<1> QED BY <1>7, <1>8, <1>9, <1>10 DEF Mail, p

\* The client reads a message.
LEMMA MailShrinks ==
    ASSUME NEW o, IsSequence(o), o # <<>>, NEW c \in Nat, NEW th, NEW n \in Nat, Mail(o, c, th, n),
           NEW d, d = c + (IF o[1].what = "stopped" THEN 1 ELSE 0)
    PROVE  Mail(Tail(o), d, th, n) /\ d <= n /\ (d = n => GoodMessage(o[1], th))
<1>1. PICK S : o \in Seq(S)
  BY DEF IsSequence
<1> DEFINE p == Tail(o)
<1>2. /\ Len(o) \in Nat \ {0} /\ Len(p) = Len(o) - 1
      /\ DOMAIN o = 1 .. Len(o) /\ DOMAIN p = 1 .. Len(o) - 1
      /\ \A i \in 1 .. Len(o) - 1 : p[i] = o[i + 1]
  BY <1>1, TailFacts
<1> HIDE DEF p
<1>3. PICK f : /\ Epochs(o, f, c, n)
               /\ \A i \in DOMAIN o : f[i] = n => GoodMessage(o[i], th)
  BY DEF Mail
<1>4. f[1] = d /\ d \in Nat /\ d <= n
  <2>1. 1 \in 1 .. Len(o) /\ 1 \in 0 .. Len(o) /\ 1 - 1 = 0
    BY <1>2
  <2>2. f[1] = f[1 - 1] + (IF o[1].what = "stopped" THEN 1 ELSE 0)
    BY <1>3, <2>1 DEF Epochs
  <2> QED BY <1>3, <2>1, <2>2 DEF Epochs
<1> DEFINE g == [i \in 0 .. Len(p) |-> f[i + 1]]
<1>5. /\ g \in [0 .. Len(p) -> Nat]
      /\ \A i \in 0 .. Len(p) : g[i] = f[i + 1] /\ i + 1 \in 0 .. Len(o) /\ i \in Nat
  BY <1>2, <1>3 DEF Epochs
<1> HIDE DEF g
<1>6. g[0] = d /\ g[Len(p)] = n /\ \A i \in 0 .. Len(p) : g[i] <= n
  BY <1>2, <1>3, <1>4, <1>5 DEF Epochs
<1>7. ASSUME NEW i \in 1 .. Len(p)
      PROVE  g[i] = g[i - 1] + (IF p[i].what = "stopped" THEN 1 ELSE 0)
  <2>1. i + 1 \in 1 .. Len(o) /\ i \in 0 .. Len(p) /\ i - 1 \in 0 .. Len(p)
        /\ (i - 1) + 1 = i /\ (i + 1) - 1 = i
    BY <1>2, <1>7
  <2>2. g[i] = f[i + 1] /\ g[i - 1] = f[i] /\ p[i] = o[i + 1]
    BY <1>2, <1>5, <2>1
  <2>3. f[i + 1] = f[i] + (IF o[i + 1].what = "stopped" THEN 1 ELSE 0)
    BY <1>3, <2>1 DEF Epochs
  <2> QED BY <2>2, <2>3
<1>8. \A i \in DOMAIN p : i + 1 \in DOMAIN o /\ p[i] = o[i + 1] /\ g[i] = f[i + 1]
  BY <1>2, <1>5
<1>9. Epochs(p, g, d, n)
  BY <1>5, <1>6, <1>7 DEF Epochs
<1>10. Mail(p, d, th, n)
  BY <1>3, <1>8, <1>9 DEF Mail
<1>11. d = n => GoodMessage(o[1], th)
  BY <1>2, <1>3, <1>4
<1> QED BY <1>4, <1>10, <1>11 DEF p

\* Requests stay good when the client hears more, or one of them is answered.
LEMMA RequestsRemain ==
    ASSUME NEW q, IsSequence(q), NEW c \in Nat, NEW th, NEW n, Requests(q, c, th, n)
    PROVE  /\ \A d \in Nat : c <= d => Requests(q, d, th, n)
           /\ q # <<>> => Requests(Tail(q), c, th, n) /\ GoodRequest(q[1], c, th, n)
<1>1. PICK S : q \in Seq(S)
  BY DEF IsSequence
<1>2. ASSUME NEW d \in Nat, c <= d PROVE Requests(q, d, th, n)
  BY <1>2 DEF Requests, GoodRequest
<1>3. ASSUME q # <<>> PROVE Requests(Tail(q), c, th, n) /\ GoodRequest(q[1], c, th, n)
  <2>1. /\ Len(q) \in Nat \ {0} /\ DOMAIN q = 1 .. Len(q) /\ DOMAIN Tail(q) = 1 .. Len(q) - 1
        /\ \A i \in 1 .. Len(q) - 1 : Tail(q)[i] = q[i + 1]
    BY <1>1, <1>3, TailFacts
  <2>2. \A i \in DOMAIN Tail(q) : i + 1 \in DOMAIN q /\ Tail(q)[i] = q[i + 1]
    BY <2>1
  <2>3. 1 \in DOMAIN q
    BY <2>1
  <2> QED BY <2>2, <2>3 DEF Requests
<1> QED BY <1>2, <1>3

\* The request that is answered, and what stays as it is meanwhile.
LEMMA Answering ==
    ASSUME StreamInv, ReferenceInv, NEW cmd, Handle(cmd)
    PROVE  /\ Request.cmd = cmd /\ GoodRequest(Request, client.stops, threads, stops)
           /\ Requests(inbox', client.stops, threads, stops)
           /\ client' = client /\ client.stops \in Nat /\ stops \in Nat
<1>1. inbox # <<>> /\ inbox' = Tail(inbox) /\ Head(inbox).cmd = cmd /\ client' = client
  BY DEF Handle, clientVars
<1>2. Head(inbox) = inbox[1]
  BY <1>1, TailFacts DEF StreamInv, IsSequence
<1>3. client.stops \in Nat /\ stops \in Nat
  BY DEF ReferenceInv, Knowledge
<1> QED BY <1>1, <1>2, <1>3, RequestsRemain DEF StreamInv, ReferenceInv, Request

\* An answer that is about the stop, or about none, keeps references good.
LEMMA AnswerKeepsReferences ==
    ASSUME StreamInv, ReferenceInv, NEW cmd, Handle(cmd), NEW body, NEW wi, Respond(body, wi),
           cmd # "stopped", GoodMessage(Response(body, wi), threads),
           TrueMessage(Response(body, wi)), UNCHANGED <<threads, stopped, stops>>
    PROVE  ReferenceInv'
<1> DEFINE m == Response(body, wi)
<1>1. /\ Request.cmd = cmd
      /\ Requests(inbox', client.stops, threads, stops)
      /\ client' = client /\ client.stops \in Nat /\ stops \in Nat
  BY Answering
<1>2. m.what # "stopped" /\ GoodMessage(m, threads) /\ TrueMessage(m)
  BY <1>1 DEF Response
<1> HIDE DEF m
<1>3. out' = Append(out, m)
  BY DEF Respond, m
<1>4. Mail(out', client.stops, threads, stops)
  BY <1>1, <1>2, <1>3, MailGrows DEF StreamInv, ReferenceInv
<1>5. ThreadsKnown'
  BY DEF ReferenceInv, ThreadsKnown
<1> QED BY <1>1, <1>4, <1>5 DEF ReferenceInv

\* Answers that name no work-item.
LEMMA PlainKeepsReferences ==
    ASSUME StreamInv, ReferenceInv, NEW cmd, Handle(cmd), Respond({}, NoWI),
           cmd \notin {"stopped", "stackTrace", "scopes", "variables"},
           UNCHANGED <<threads, stopped, stops>>
    PROVE  ReferenceInv'
<1>1. Request.cmd = cmd
  BY Answering
<1>2. Response({}, NoWI).what \notin {"stackTrace", "scopes", "variables"}
  BY <1>1 DEF Response
<1>3. GoodMessage(Response({}, NoWI), threads) /\ TrueMessage(Response({}, NoWI))
  BY <1>2 DEF GoodMessage, TrueMessage
<1> QED BY <1>3, AnswerKeepsReferences

\* initialize is answered by two messages.
LEMMA InitializeKeepsReferences ==
    ASSUME StreamInv, ReferenceInv, HandleInitialize
    PROVE  ReferenceInv'
<1> DEFINE m == Response({}, NoWI)
           e == [Event(next_seq + 1, "initialized", {}, NoWI) EXCEPT !.request_seq = answered + 1]
<1>1. Handle("initialize") /\ out' = out \o <<m, e>> /\ UNCHANGED <<threads, stopped, stops>>
  BY DEF HandleInitialize, Unchanged
<1>2. /\ Request.cmd = "initialize"
      /\ Requests(inbox', client.stops, threads, stops)
      /\ client' = client /\ client.stops \in Nat /\ stops \in Nat
  BY <1>1, Answering
<1>3. m.what = "initialize" /\ e.what = "initialized"
  BY <1>2 DEF Response, Event
<1> HIDE DEF m, e
<1>4. /\ GoodMessage(m, threads) /\ TrueMessage(m) /\ GoodMessage(e, threads) /\ TrueMessage(e)
      /\ m.what # "stopped" /\ e.what # "stopped"
  BY <1>3 DEF GoodMessage, TrueMessage
<1>5. out' = Append(Append(out, m), e)
  <2>1. PICK S : out \in Seq(S)
    BY DEF StreamInv, IsSequence
  <2> DEFINE T == S \cup {m, e}
  <2>2. out \in Seq(T) /\ m \in T /\ e \in T
    BY <2>1
  <2> HIDE DEF T
  <2> QED BY <1>1, <2>2
<1>6. /\ IsSequence(Append(out, m)) /\ Mail(Append(out, m), client.stops, threads, stops)
  BY <1>2, <1>4, MailGrows DEF StreamInv, ReferenceInv
<1>7. Mail(out', client.stops, threads, stops)
  BY <1>2, <1>4, <1>5, <1>6, MailGrows
<1>8. ThreadsKnown'
  BY <1>1 DEF ReferenceInv, ThreadsKnown
<1> QED BY <1>1, <1>2, <1>7, <1>8 DEF ReferenceInv

\* A frame stands for the thread that was asked for.
LEMMA StackTraceKeepsReferences ==
    ASSUME TypeOK, StreamInv, ReferenceInv, HandleStackTrace
    PROVE  ReferenceInv'
<1> DEFINE m == Response(FrameOf(Request.arg), ThreadOr(Request.arg, stopped))
<1>1. /\ Handle("stackTrace") /\ Respond(FrameOf(Request.arg), ThreadOr(Request.arg, stopped))
      /\ UNCHANGED <<threads, stopped, stops>>
  BY DEF HandleStackTrace, Unchanged
<1>2. Request.cmd = "stackTrace" /\ Request.arg \in 1 .. MaxThreads
  BY <1>1, Answering DEF GoodRequest
<1>3. /\ m.what = "stackTrace" /\ m.body = FrameOf(Request.arg)
      /\ m.wi = ThreadOr(Request.arg, stopped)
  BY <1>2 DEF Response
<1> HIDE DEF m
<1>4. m.wi # NoWI => GoodFrame(threads, m.body, m.wi)
  <2>1. CASE threads = <<>> /\ stopped = NoWI
    BY <1>3, <2>1 DEF ThreadOr
  <2>2. CASE MaxThreads <= Len(threads)
    <3>1. Request.arg \in DOMAIN threads
      BY <1>2, <2>2, DAPBoundAssumption DEF TypeOK
    <3> QED BY <1>3, <3>1 DEF ThreadOr, GoodFrame
  <2> QED BY <2>1, <2>2 DEF ReferenceInv, ThreadsKnown
<1>5. GoodMessage(m, threads) /\ TrueMessage(m)
  BY <1>3, <1>4 DEF GoodMessage, TrueMessage
<1> QED BY <1>1, <1>5, AnswerKeepsReferences DEF m

\* The scopes of a frame are those of its thread.
LEMMA ScopesKeepReferences ==
    ASSUME StreamInv, ReferenceInv, HandleScopes
    PROVE  ReferenceInv'
<1> DEFINE refs == {BaseRef(Request.arg), GlobalsRef(Request.arg)}
           m == Response(refs, Request.expected)
<1>1. /\ Handle("scopes") /\ Respond(refs, Request.expected)
      /\ UNCHANGED <<threads, stopped, stops>>
  BY DEF HandleScopes, Unchanged
<1>2. Request.cmd = "scopes" /\ GoodRequest(Request, client.stops, threads, stops)
  BY <1>1, Answering
<1>3. /\ m.what = "scopes" /\ m.body = refs
      /\ m.expected = IF Request.epoch = stops THEN Request.expected ELSE NoWI
  BY <1>2 DEF Response
<1> HIDE DEF m
<1>4. m.expected # NoWI => \A r \in m.body : GoodRef(threads, r, m.expected)
  <2> SUFFICES ASSUME m.expected # NoWI, NEW r \in refs PROVE GoodRef(threads, r, m.expected)
    BY <1>3
  <2>1. m.expected = Request.expected /\ GoodFrame(threads, Request.arg, Request.expected)
    BY <1>2, <1>3 DEF GoodRequest
  <2> QED BY <2>1 DEF GoodFrame, GoodRef
<1>5. GoodMessage(m, threads) /\ TrueMessage(m)
  BY <1>3, <1>4 DEF GoodMessage, TrueMessage
<1> QED BY <1>1, <1>5, AnswerKeepsReferences DEF m

\* The variables of a reference are those of its thread.
LEMMA VariablesKeepReferences ==
    ASSUME TypeOK, StreamInv, ReferenceInv, HandleVariables
    PROVE  ReferenceInv'
<1> DEFINE m == Response(IsGlobals(Request.arg), VariablesOf(Request.arg))
<1>1. /\ Handle("variables") /\ Respond(IsGlobals(Request.arg), VariablesOf(Request.arg))
      /\ UNCHANGED <<threads, stopped, stops>>
  BY DEF HandleVariables, Unchanged
<1>2. Request.cmd = "variables" /\ GoodRequest(Request, client.stops, threads, stops)
  BY <1>1, Answering
<1>3. /\ m.what = "variables" /\ m.wi = VariablesOf(Request.arg)
      /\ m.expected = IF Request.epoch = stops THEN Request.expected ELSE NoWI
  BY <1>2 DEF Response
<1> HIDE DEF m
<1>4. m.expected # NoWI => m.wi = m.expected
  <2> SUFFICES ASSUME m.expected # NoWI PROVE m.wi = m.expected
    OBVIOUS
  <2>1. m.expected = Request.expected /\ GoodRef(threads, Request.arg, Request.expected)
    BY <1>2, <1>3 DEF GoodRequest
  <2>2. PICK t \in DOMAIN threads : /\ Request.arg \in {BaseRef(FrameOf(t)), GlobalsRef(FrameOf(t))}
                                   /\ Request.expected = threads[t]
    BY <2>1 DEF GoodRef
  <2>3. t \in Nat /\ t # 0
    BY DEF TypeOK
  <2>4. ThreadOf(Request.arg) = t
    BY <2>2, <2>3, RefRoundTrip
  <2> QED BY <1>3, <2>1, <2>2, <2>3, <2>4 DEF VariablesOf, ThreadOr
<1>5. GoodMessage(m, threads) /\ TrueMessage(m)
  BY <1>3, <1>4 DEF GoodMessage, TrueMessage
<1> QED BY <1>1, <1>5, AnswerKeepsReferences DEF m

\* With a stop, what was said before is about another one.
LEMMA StopKeepsReferences ==
    ASSUME StreamInv, ReferenceInv, NEW s \in Stops, Stop(s)
    PROVE  ReferenceInv'
<1> DEFINE m == StoppedEvent(s.stopped)
<1>1. m.what = "stopped"
  BY DEF StoppedEvent, Event
<1> HIDE DEF m
<1>2. /\ out' = Append(out, m) /\ stops' = stops + 1 /\ threads' = <<s.stopped>> \o s.visible
      /\ client' = client /\ inbox' = inbox
  BY DEF Stop, m, clientVars
<1>3. client.stops \in Nat /\ stops \in Nat /\ client.stops <= stops
  BY DEF ReferenceInv, Knowledge
<1>4. Mail(out', client.stops, threads', stops + 1)
  BY <1>1, <1>2, <1>3, MailStops DEF StreamInv, ReferenceInv
<1>5. Requests(inbox, client.stops, threads', stops + 1)
  BY <1>3 DEF ReferenceInv, Requests, GoodRequest
<1>6. Knowledge(client, threads', stops + 1)
  BY <1>3 DEF ReferenceInv, Knowledge
<1>7. MaxThreads <= Len(threads')
  BY <1>2, ThreadsOfStop, ThreadAssumption
<1> QED BY <1>2, <1>4, <1>5, <1>6, <1>7 DEF ReferenceInv, ThreadsKnown

\* The client asks about what it knows.
LEMMA SendKeepsReferences ==
    ASSUME StreamInv, ReferenceInv, NEW cmd, NEW arg, NEW wi, Send(cmd, arg, wi),
           cmd = "stackTrace" => arg \in 1 .. MaxThreads,
           client.stops = stops /\ wi # NoWI /\ cmd = "scopes" => GoodFrame(threads, arg, wi),
           client.stops = stops /\ wi # NoWI /\ cmd = "variables" => GoodRef(threads, arg, wi),
           client' = client \/ client' = [client EXCEPT !.setup = @ + 1]
             \/ client' = [client EXCEPT !.closing = TRUE]
    PROVE  ReferenceInv'
<1> DEFINE r == [cmd |-> cmd, arg |-> arg, epoch |-> client.stops, expected |-> wi]
<1>1. client.stops \in Nat
  BY DEF ReferenceInv, Knowledge
<1>2. GoodRequest(r, client.stops, threads, stops)
  BY <1>1 DEF GoodRequest
<1> HIDE DEF r
<1>3. inbox' = Append(inbox, r) /\ UNCHANGED <<out, threads, stopped, stops>>
  BY DEF Send, serverVars, r
<1>4. Requests(inbox', client.stops, threads, stops)
  <2>1. PICK S : inbox \in Seq(S)
    BY DEF StreamInv, IsSequence
  <2>2. /\ DOMAIN inbox = 1 .. Len(inbox) /\ DOMAIN inbox' = 1 .. Len(inbox) + 1
        /\ Len(inbox) \in Nat
        /\ \A i \in 1 .. Len(inbox) : inbox'[i] = inbox[i]
        /\ inbox'[Len(inbox) + 1] = r
    BY <1>3, <2>1, AppendFacts
  <2>3. \A i \in DOMAIN inbox' : i \in DOMAIN inbox \/ i = Len(inbox) + 1
    BY <2>2
  <2> QED BY <1>2, <2>2, <2>3 DEF ReferenceInv, Requests
<1>5. /\ Knowledge(client', threads, stops) /\ client'.stops = client.stops
  BY DEF ReferenceInv, Knowledge
<1>6. ThreadsKnown'
  BY <1>3 DEF ReferenceInv, ThreadsKnown
<1> QED BY <1>3, <1>4, <1>5, <1>6 DEF ReferenceInv

\* The client learns frames and references from a message, or that they are over.
LEMMA ListenKeepsReferences ==
    ASSUME StreamInv, ReferenceInv, Listen
    PROVE  ReferenceInv'
<1> DEFINE m == Head(out)
           d == client.stops + (IF out[1].what = "stopped" THEN 1 ELSE 0)
<1>1. /\ out # <<>> /\ out' = Tail(out) /\ client' = Learn(m)
      /\ UNCHANGED <<inbox, threads, stopped, stops>>
  BY DEF Listen, serverVars
<1>2. m = out[1]
  BY <1>1, TailFacts DEF StreamInv, IsSequence
<1>3. client.stops \in Nat /\ stops \in Nat /\ d \in Nat /\ client.stops <= d
  BY DEF ReferenceInv, Knowledge
<1>4. Mail(Tail(out), d, threads, stops) /\ d <= stops /\ (d = stops => GoodMessage(m, threads))
  BY <1>1, <1>2, <1>3, MailShrinks DEF StreamInv, ReferenceInv
<1>5. Requests(inbox, d, threads, stops)
  BY <1>3, RequestsRemain DEF StreamInv, ReferenceInv
<1>6. client = [setup |-> client.setup, stops |-> client.stops, frames |-> client.frames,
                refs |-> client.refs, closing |-> client.closing, hung_up |-> client.hung_up]
  BY DEF ReferenceInv, Knowledge
<1>7. client'.stops = d /\ Knowledge(client', threads, stops)
  <2>1. CASE m.what = "stopped"
    <3>1. client' = [client EXCEPT !.stops = @ + 1, !.frames = {}, !.refs = {}]
      BY <1>1, <2>1 DEF Learn
    <3>2. client'.stops = d /\ client'.frames = {} /\ client'.refs = {}
      BY <1>2, <1>6, <2>1, <3>1
    <3>3. client' = [setup |-> client.setup, stops |-> d, frames |-> {}, refs |-> {},
                     closing |-> client.closing, hung_up |-> client.hung_up]
      BY <1>2, <1>6, <2>1, <3>1
    <3> QED BY <1>3, <1>4, <3>2, <3>3 DEF ReferenceInv, Knowledge
  <2>2. CASE m.what = "stackTrace"
    <3>1. client' = [client EXCEPT !.frames = @ \cup {[frame |-> m.body, wi |-> m.wi]}]
      BY <1>1, <2>2 DEF Learn
    <3>2. /\ d = client.stops /\ client'.stops = d /\ client'.refs = client.refs
          /\ client'.frames = client.frames \cup {[frame |-> m.body, wi |-> m.wi]}
      BY <1>2, <1>3, <1>6, <2>2, <3>1
    <3>3. d = stops /\ m.wi # NoWI => GoodFrame(threads, m.body, m.wi)
      BY <1>4, <2>2 DEF GoodMessage
    <3>4. d = stops =>
            /\ \A f \in client'.frames : f.wi # NoWI => GoodFrame(threads, f.frame, f.wi)
            /\ \A r \in client'.refs : r.wi # NoWI => GoodRef(threads, r.ref, r.wi)
      BY <3>2, <3>3 DEF ReferenceInv, Knowledge
    <3>5. client' = [setup |-> client.setup, stops |-> client.stops, frames |-> client'.frames, refs |-> client.refs,
                     closing |-> client.closing, hung_up |-> client.hung_up]
      BY <1>6, <3>1, <3>2
    <3> QED BY <1>3, <1>4, <3>2, <3>4, <3>5 DEF ReferenceInv, Knowledge
  <2>3. CASE m.what = "scopes" /\ m.expected # NoWI
    <3>1. client' = [client EXCEPT !.refs = @ \cup {[ref |-> r, wi |-> m.expected] : r \in m.body}]
      BY <1>1, <2>3 DEF Learn
    <3>2. /\ d = client.stops /\ client'.stops = d /\ client'.frames = client.frames
          /\ client'.refs = client.refs \cup {[ref |-> r, wi |-> m.expected] : r \in m.body}
      BY <1>2, <1>3, <1>6, <2>3, <3>1
    <3>3. d = stops => \A r \in m.body : GoodRef(threads, r, m.expected)
      BY <1>4, <2>3 DEF GoodMessage
    <3>4. d = stops =>
            /\ \A f \in client'.frames : f.wi # NoWI => GoodFrame(threads, f.frame, f.wi)
            /\ \A r \in client'.refs : r.wi # NoWI => GoodRef(threads, r.ref, r.wi)
      BY <3>2, <3>3 DEF ReferenceInv, Knowledge
    <3>5. client' = [setup |-> client.setup, stops |-> client.stops, frames |-> client.frames, refs |-> client'.refs,
                     closing |-> client.closing, hung_up |-> client.hung_up]
      BY <1>6, <3>1, <3>2
    <3> QED BY <1>3, <1>4, <3>2, <3>4, <3>5 DEF ReferenceInv, Knowledge
  <2>4. CASE m.what \notin {"stopped", "stackTrace"} /\ ~(m.what = "scopes" /\ m.expected # NoWI)
    BY <1>1, <1>2, <1>3, <2>4 DEF Learn, ReferenceInv
  <2> QED BY <2>1, <2>2, <2>3, <2>4
<1>8. ThreadsKnown'
  BY <1>1 DEF ReferenceInv, ThreadsKnown
<1> QED BY <1>1, <1>4, <1>5, <1>7, <1>8 DEF ReferenceInv

\* Every step keeps references good.
LEMMA StepKeepsReferences ==
    ASSUME TypeOK, StreamInv, ReferenceInv, [Next]_vars
    PROVE  ReferenceInv'
<1>1. CASE SetUp
  <2>1. client.setup + 1 \in 1 .. 4
    BY <1>1 DEF SetUp, Setup, ReferenceInv, Knowledge
  <2>2. Setup[client.setup + 1] # "stackTrace"
    BY <2>1 DEF Setup
  <2> QED BY <1>1, <2>2, SendKeepsReferences DEF SetUp
<1>2. CASE Ask
  <2>1. \A f \in client.frames :
          client.stops = stops /\ f.wi # NoWI => GoodFrame(threads, f.frame, f.wi)
    BY DEF ReferenceInv, Knowledge
  <2>2. \A r \in client.refs :
          client.stops = stops /\ r.wi # NoWI => GoodRef(threads, r.ref, r.wi)
    BY DEF ReferenceInv, Knowledge
  <2> QED BY <1>2, <2>1, <2>2, SendKeepsReferences DEF Ask
<1>3. CASE Disconnect
  BY <1>3, SendKeepsReferences DEF Disconnect
<1>4. CASE HangUp
  <2>1. /\ client' = [client EXCEPT !.closing = TRUE, !.hung_up = TRUE]
        /\ UNCHANGED <<inbox, out, threads, stopped, stops>>
    BY <1>4 DEF HangUp, serverVars
  <2>2. Knowledge(client', threads, stops) /\ client'.stops = client.stops
    BY <2>1 DEF ReferenceInv, Knowledge
  <2> QED BY <2>1, <2>2 DEF ReferenceInv, ThreadsKnown
<1>5. CASE Listen
  BY <1>5, ListenKeepsReferences
<1>6. CASE HandleInitialize
  BY <1>6, InitializeKeepsReferences
<1>7. CASE HandlePlain \/ HandleLaunch \/ HandleSelect \/ HandleResume \/ HandleDisconnect
  BY <1>7, PlainKeepsReferences
     DEF HandlePlain, HandleLaunch, HandleSelect, HandleResume, HandleDisconnect, Unchanged,
         Resuming
<1>8. CASE HandleStackTrace
  BY <1>8, StackTraceKeepsReferences
<1>9. CASE HandleScopes
  BY <1>9, ScopesKeepReferences
<1>10. CASE HandleVariables
  BY <1>10, VariablesKeepReferences
<1>11. CASE ReturnSilently \/ LeaveLoop \/ KilledByWrite \/ UNCHANGED vars
  <2>1. UNCHANGED <<inbox, out, client, threads, stopped, stops>>
    BY <1>11 DEF ReturnSilently, LeaveLoop, KilledByWrite, vars, serverVars, clientVars
  <2> QED BY <2>1 DEF ReferenceInv, ThreadsKnown
<1>12. ASSUME NEW s \in Stops, Stop(s) PROVE ReferenceInv'
  BY <1>12, StopKeepsReferences
<1> QED BY <1>1, <1>2, <1>3, <1>4, <1>5, <1>6, <1>7, <1>8, <1>9, <1>10, <1>11, <1>12
        DEF Next, Client, Server

\* Variables are those of the thread whose frame and scope they were asked of,
\* for any number of threads and however many messages are under way
\* (VariablesOfThread).
THEOREM VariablesAlwaysOfThread == Spec => []VariablesOfThread
<1>1. Init => ReferenceInv
  <2> SUFFICES ASSUME Init PROVE ReferenceInv
    OBVIOUS
  <2>1. /\ inbox = <<>> /\ out = <<>> /\ stops = 0 /\ threads = <<>> /\ stopped = NoWI
        /\ client = [setup |-> 0, stops |-> 0, frames |-> {}, refs |-> {},
                     closing |-> FALSE, hung_up |-> FALSE]
    BY DEF Init
  <2> DEFINE f == [i \in 0 .. 0 |-> 0]
  <2>2. Len(<<>>) = 0 /\ DOMAIN <<>> = {}
    OBVIOUS
  <2>3. f \in [0 .. 0 -> Nat] /\ f[0] = 0 /\ \A i \in 0 .. 0 : f[i] <= 0
    OBVIOUS
  <2> HIDE DEF f
  <2>4. Epochs(<<>>, f, 0, 0)
    BY <2>2, <2>3 DEF Epochs
  <2>5. Mail(<<>>, 0, <<>>, 0)
    BY <2>2, <2>4 DEF Mail
  <2> QED BY <2>1, <2>2, <2>5 DEF ReferenceInv, ThreadsKnown, Requests, Knowledge
<1>2. ReferenceInv => VariablesOfThread
  BY DEF ReferenceInv, Mail, TrueMessage, VariablesOfThread
<1>3. TypeOK /\ StreamInv /\ ReferenceInv /\ [Next]_vars => ReferenceInv'
  BY StepKeepsReferences
<1> QED BY <1>1, <1>2, <1>3, TypeCorrect, InitInOrder, StepKeepsOrder, PTL DEF Spec

=============================================================================
