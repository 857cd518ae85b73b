------------------------ MODULE MCWorkGroupTracking ------------------------
(***************************************************************************)
(* Small instances of WorkGroupTracking for TLC.                           *)
(***************************************************************************)
EXTENDS WorkGroupTracking

CONSTANTS w1, w2

MCWorkers == {w1, w2}

Base == [workers |-> {w1}, global |-> Point(1, 1, 1), local |-> Point(1, 1, 1), work_dim |-> 1,
         named |-> TRUE, track |-> TRUE, break_at |-> FALSE, break_for |-> 0,
         inspect |-> FALSE, faulty |-> FALSE, launches |-> 1]

\* Only the bounds are asked for: every small range.
Bounds ==
    {[Base EXCEPT !.track = FALSE, !.global = Point(gx, gy, gz), !.local = Point(lx, ly, lz),
                  !.work_dim = dim, !.named = named] :
       gx \in 1 .. 5, gy \in 1 .. 3, gz \in 1 .. 2, lx \in 0 .. 3, ly \in 1 .. 2, lz \in 1 .. 2,
       dim \in 1 .. 3, named \in BOOLEAN}

\* Two workers, no line: five items in groups of two, or a square of four groups.
Dispatches ==
    {[Base EXCEPT !.workers = {w1, w2}, !.global = shape[1], !.local = shape[2],
                  !.work_dim = 2, !.inspect = inspect, !.faulty = faulty] :
       shape \in {<<Point(5, 1, 1), Point(2, 1, 1)>>, <<Point(2, 2, 1), Point(1, 1, 1)>>},
       inspect \in BOOLEAN, faulty \in BOOLEAN}

\* One worker, a line, and up to two kernels.
OneWorkerLines ==
    {[Base EXCEPT !.global = Point(5, 1, 1), !.local = Point(2, 1, 1), !.break_at = TRUE,
                  !.break_for = n, !.inspect = inspect, !.launches = k] :
       n \in 0 .. 4, inspect \in BOOLEAN, k \in 1 .. 2}

\* Two workers and a line.
Lines ==
    {[Base EXCEPT !.workers = {w1, w2}, !.global = Point(4, 1, 1), !.local = Point(2, 1, 1),
                  !.break_at = TRUE, !.break_for = n] : n \in 0 .. 2}

\* Three groups, of which a worker takes a second one.
LongLines ==
    {[Base EXCEPT !.workers = {w1, w2}, !.global = Point(3, 1, 1), !.break_at = TRUE]}

MCSetups == Bounds \cup Dispatches \cup OneWorkerLines \cup Lines \cup LongLines

=============================================================================
