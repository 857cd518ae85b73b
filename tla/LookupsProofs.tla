----------------------------- MODULE LookupsProofs -----------------------------
(***************************************************************************)
(* Theorems about Lookups, for every line table, stop, tree of DIEs and    *)
(* command line: where a breakpoint goes, that a listed work-item can be   *)
(* selected, that every variable in scope is found, and that a command     *)
(* line is read for what it says.                                          *)
(***************************************************************************)
EXTENDS Lookups, LeastElement

\* The answer is the one to the question: a state has no other history.
AnswerInv ==
    /\ question.kind = "arguments" => question \in CommandLines
    /\ question.kind = "breakpoint" => question \in Breakpoints
    /\ question.kind = "stop" => question \in Stops
    /\ question.kind = "scope" => question \in Scopes
    /\ Answered("arguments") => answer = <<parse_arguments(Render(question.line))>>
    /\ Answered("breakpoint") =>
         answer = <<resolve_one_breakpoint(question.rows, question.loc)>>
    /\ Answered("scope") =>
         answer = <<variables_in_scope(question.dies, question.units, question.pc)>>
    /\ Answered("stop") =>
         answer = <<{[listed |-> wi, selected |-> select_work_item(question.threads, question.launch,
                                                        question.tracker, wi.global_id)] :
                      wi \in list_stopped_work_items(question.threads, question.launch,
                                                     question.tracker)}>>

\* Every answer is that of the code, to a question of its kind.
LEMMA AnswerInvAlways == Spec => []AnswerInv
<1>1. Init => AnswerInv
  BY QuestionAssumption DEF Init, AnswerInv, Answered
<1>2. AnswerInv /\ [Next]_vars => AnswerInv'
  <2> SUFFICES ASSUME AnswerInv, [Next]_vars PROVE AnswerInv'
    OBVIOUS
  <2>1. CASE AnswerBreakpoint
    BY <2>1 DEF AnswerBreakpoint, Asked, AnswerInv, Answered
  <2>2. CASE AnswerSelect
    BY <2>2 DEF AnswerSelect, Asked, AnswerInv, Answered
  <2>3. CASE AnswerScope
    BY <2>3 DEF AnswerScope, Asked, AnswerInv, Answered
  <2>4. CASE AnswerArguments
    BY <2>4 DEF AnswerArguments, Asked, AnswerInv, Answered
  <2>5. CASE AnswerLocation
    BY <2>5 DEF AnswerLocation, Asked, AnswerInv, Answered
  <2>6. CASE UNCHANGED vars
    BY <2>6 DEF vars, AnswerInv, Answered
  <2> QED BY <2>1, <2>2, <2>3, <2>4, <2>5, <2>6 DEF Next
<1> QED BY <1>1, <1>2, PTL DEF Spec

-----------------------------------------------------------------------------
(* Breakpoints.                                                            *)

\* The least of a set of lines or addresses is in it, below every other.
LEMMA LeastIsLeast ==
    ASSUME NEW T, T \subseteq Nat, T # {}
    PROVE  Least(T) \in T /\ \A m \in T : Least(T) <= m
BY LeastExists DEF Least

\* The rows of the files that match are rows of the table.
LEMMA RowsAreTyped ==
    ASSUME NEW rows, IsLineTable(rows), NEW filter
    PROVE  /\ \A k \in DOMAIN rows : k \in Nat /\ rows[k].address \in Nat /\ rows[k].line \in Nat
           /\ \A r \in RowsOf(rows, filter) : r.address \in Nat /\ r.line \in Nat
<1> DEFINE Row == [address : Nat, line : Nat, file : Seq(STRING), end : BOOLEAN]
<1>1. rows \in Seq(Row)
  BY DEF IsLineTable
<1>2. \A r \in Row : r.address \in Nat /\ r.line \in Nat
  OBVIOUS
<1>3. \A k \in DOMAIN rows : k \in Nat /\ rows[k] \in Row
  <2> HIDE DEF Row
  <2> QED BY <1>1
<1> QED BY <1>2, <1>3 DEF RowsOf

\* A line without code gives the addresses of the next line that has some.
LEMMA PcsOfNextLine ==
    ASSUME NEW rows, IsLineTable(rows), NEW loc, loc.line \in Nat \ {0},
           NEW code, code = RowsOf(rows, loc.file)
    PROVE  /\ source_to_pcs(rows, loc) = {} <=> ~ \E r \in code : r.line >= loc.line
           /\ source_to_pcs(rows, loc) # {} =>
                \E line \in Nat : /\ line >= loc.line
                                  /\ \A s \in code : s.line >= loc.line => s.line >= line
                                  /\ source_to_pcs(rows, loc) = find_pcs_for_line(rows, line, loc.file)
<1> DEFINE here == find_pcs_for_line(rows, loc.line, loc.file)
           next == find_next_line(rows, loc.line, loc.file)
           later == {r.line : r \in {r \in code : r.line > loc.line}}
<1>1. \A r \in code : r.address \in Nat /\ r.line \in Nat
  BY RowsAreTyped
<1>2. source_to_pcs(rows, loc) = IF here = {} /\ next # NoLine
                                 THEN find_pcs_for_line(rows, next, loc.file) ELSE here
  BY DEF source_to_pcs
<1>3. \A line : find_pcs_for_line(rows, line, loc.file) = {r.address : r \in {r \in code : r.line = line}}
  BY DEF find_pcs_for_line
<1>4. here = {} <=> \A r \in code : r.line # loc.line
  BY <1>3
<1>5. CASE here # {}
  BY <1>1, <1>2, <1>4, <1>5
<1>6. CASE here = {} /\ later = {}
  <2>1. next = NoLine
    BY <1>6 DEF find_next_line
  <2>2. source_to_pcs(rows, loc) = {}
    BY <1>2, <1>6, <2>1
  <2>3. \A r \in code : ~(r.line >= loc.line)
    BY <1>1, <1>4, <1>6
  <2> QED BY <2>2, <2>3
<1>7. CASE here = {} /\ later # {}
  <2>1. next = Least(later)
    BY <1>7 DEF find_next_line
  <2>2. later \subseteq Nat
    BY <1>1
  <2>3. next \in later /\ \A m \in later : next <= m
    BY <1>7, <2>1, <2>2, LeastIsLeast
  <2>4. PICK r \in code : r.line = next /\ r.line > loc.line
    BY <2>3
  <2>5. next \in Nat /\ next > loc.line /\ next # NoLine
    BY <2>2, <2>3, <2>4 DEF NoLine
  <2>6. source_to_pcs(rows, loc) = find_pcs_for_line(rows, next, loc.file)
    BY <1>2, <1>7, <2>5
  <2>7. r.address \in source_to_pcs(rows, loc)
    BY <1>3, <2>4, <2>6
  <2>8. ASSUME NEW s \in code, s.line >= loc.line PROVE s.line >= next
    BY <1>1, <1>4, <1>7, <2>2, <2>3, <2>8
  <2> QED BY <1>1, <2>4, <2>5, <2>6, <2>7, <2>8
<1> QED BY <1>5, <1>6, <1>7

\* The row at an address is the only one: the line table says one line of it.
LEMMA LineOfOnlyRow ==
    ASSUME NEW rows, IsLineTable(rows), NEW k \in DOMAIN rows, ~rows[k].end,
           \A j \in DOMAIN rows : rows[j].address = rows[k].address => j = k
    PROVE  pc_to_source(rows, rows[k].address) = rows[k].line
<1> DEFINE pc == rows[k].address
           upto == {j \in DOMAIN rows : rows[j].address <= pc /\ ~rows[j].end}
           near == {j \in upto : \A i \in upto : rows[i].address <= rows[j].address}
<1>1. \A j \in DOMAIN rows : rows[j].address \in Nat /\ j \in Nat
  BY RowsAreTyped
<1>2. k \in upto
  BY <1>1
<1>3. near = {k}
  BY <1>1, <1>2
<1>4. Greatest(near) = k
  BY <1>1, <1>3 DEF Greatest
<1>5. ~ \E j \in DOMAIN rows : /\ rows[j].end
                               /\ rows[Greatest(near)].address < rows[j].address
                               /\ rows[j].address <= pc
  BY <1>1, <1>4
<1> QED BY <1>2, <1>4, <1>5 DEF pc_to_source

\* A breakpoint on a line resolves to the first address of the next line with
\* code, at the rows of that line, and only if there is one.
LEMMA ResolvesToNextLine ==
    ASSUME NEW rows, IsLineTable(rows), NEW loc, loc.line \in Nat \ {0},
           NEW code, code = RowsOf(rows, loc.file),
           NEW a, a = resolve_one_breakpoint(rows, loc)
    PROVE  /\ a.resolved <=> \E r \in code : r.line >= loc.line
           /\ a.resolved =>
                \E line \in Nat, r \in code :
                   /\ line >= loc.line /\ r.line = line /\ r.address = a.address
                   /\ \A s \in code : /\ s.line >= loc.line => s.line >= line
                                      /\ s.line = line => s.address >= a.address
                   /\ a = [resolved |-> TRUE, address |-> a.address,
                           line |-> LET shown == pc_to_source(rows, a.address)
                                    IN IF shown # NoLine THEN shown ELSE loc.line]
                   /\ source_to_pcs(rows, loc) = find_pcs_for_line(rows, line, loc.file)
<1> DEFINE pcs == source_to_pcs(rows, loc)
           shown == pc_to_source(rows, Least(pcs))
           found == [resolved |-> TRUE, address |-> Least(pcs),
                     line |-> IF shown # NoLine THEN shown ELSE loc.line]
<1>1. a = IF pcs = {} THEN Unresolved(loc) ELSE found
  BY DEF resolve_one_breakpoint
<1>2. a.resolved <=> pcs # {}
  BY <1>1 DEF Unresolved
<1>3. pcs = {} <=> ~ \E r \in code : r.line >= loc.line
  BY PcsOfNextLine
<1>4. ASSUME pcs # {}
      PROVE  \E line \in Nat, r \in code :
               /\ line >= loc.line /\ r.line = line /\ r.address = Least(pcs)
               /\ \A s \in code : /\ s.line >= loc.line => s.line >= line
                                  /\ s.line = line => s.address >= Least(pcs)
               /\ pcs = find_pcs_for_line(rows, line, loc.file)
  <2>1. PICK line \in Nat : /\ line >= loc.line
                            /\ \A s \in code : s.line >= loc.line => s.line >= line
                            /\ pcs = find_pcs_for_line(rows, line, loc.file)
    BY <1>4, PcsOfNextLine
  <2>2. pcs = {r.address : r \in {r \in code : r.line = line}}
    BY <2>1 DEF find_pcs_for_line
  <2>3. pcs \subseteq Nat
    BY <2>2, RowsAreTyped
  <2>4. Least(pcs) \in pcs /\ \A m \in pcs : Least(pcs) <= m
    <3> HIDE DEF pcs
    <3> QED BY <1>4, <2>3, LeastIsLeast
  <2>5. PICK r \in code : r.line = line /\ r.address = Least(pcs)
    BY <2>2, <2>4
  <2>6. ASSUME NEW s \in code, s.line = line PROVE s.address >= Least(pcs)
    <3>1. s.address \in pcs
      BY <2>2, <2>6
    <3> QED BY <2>3, <2>4, <3>1
  <2> QED BY <2>1, <2>5, <2>6
<1>5. ASSUME pcs # {}
      PROVE  a.address = Least(pcs)
             /\ a = [resolved |-> TRUE, address |-> a.address,
                     line |-> LET at == pc_to_source(rows, a.address)
                              IN IF at # NoLine THEN at ELSE loc.line]
  <2>1. a = found
    BY <1>1, <1>5
  <2>2. a.address = Least(pcs)
    BY <2>1
  <2> HIDE DEF pcs
  <2> QED BY <2>1, <2>2
<1> HIDE DEF pcs
<1>6. ASSUME a.resolved
      PROVE  \E line \in Nat, r \in code :
               /\ line >= loc.line /\ r.line = line /\ r.address = a.address
               /\ \A s \in code : /\ s.line >= loc.line => s.line >= line
                                  /\ s.line = line => s.address >= a.address
               /\ pcs = find_pcs_for_line(rows, line, loc.file)
  BY <1>2, <1>4, <1>5, <1>6
<1>7. a.resolved <=> \E r \in code : r.line >= loc.line
  BY <1>2, <1>3
<1> QED BY <1>2, <1>5, <1>6, <1>7 DEF pcs

\* BreakpointMovesForward: a breakpoint on a line without code moves to the next
\* line that has code and to its first address, it resolves if there is one, and
\* where addresses have one line each it is shown where it stops and stays there
\* when it is set again (resolve_one_breakpoint(), source_to_pcs()).
THEOREM BreakpointMovesForwardAlways == Spec => []BreakpointMovesForward
<1>1. AnswerInv => BreakpointMovesForward
  <2> SUFFICES ASSUME AnswerInv, Answered("breakpoint"), question.loc.line > 0
               PROVE  BreakpointMovesForward
    BY DEF BreakpointMovesForward
  <2> DEFINE rows == question.rows
             loc == question.loc
             code == Code(question)
             there == {r \in code : r.address = Answer.address}
             single == \A j, k \in DOMAIN rows : rows[j].address = rows[k].address => j = k
             again == [loc EXCEPT !.line = Answer.line]
  <2>1. question \in Breakpoints /\ Answer = resolve_one_breakpoint(rows, loc)
    BY DEF AnswerInv, Answered, Answer
  <2>2. IsLineTable(rows) /\ loc \in [line : Nat, file : Seq(STRING)]
    BY <2>1, QuestionAssumption
  <2>3. loc.line \in Nat \ {0} /\ code = RowsOf(rows, loc.file)
    BY <2>2 DEF Code
  <2>4. Answer.resolved <=> \E r \in code : r.line >= loc.line
    <3> HIDE DEF code, rows, loc
    <3> QED BY <2>1, <2>2, <2>3, ResolvesToNextLine
  <2>5. ASSUME Answer.resolved
        PROVE  /\ \E r \in there :
                    /\ r.line >= loc.line
                    /\ \A s \in code : /\ s.line >= loc.line => s.line >= r.line
                                       /\ s.line = r.line => s.address >= r.address
               /\ single => /\ \A r \in there : r.line = Answer.line
                            /\ resolve_one_breakpoint(rows, again) = Answer
    <3>1. PICK line \in Nat, row \in code :
             /\ line >= loc.line /\ row.line = line /\ row.address = Answer.address
             /\ \A s \in code : /\ s.line >= loc.line => s.line >= line
                                /\ s.line = line => s.address >= Answer.address
             /\ Answer = [resolved |-> TRUE, address |-> Answer.address,
                          line |-> LET shown == pc_to_source(rows, Answer.address)
                                   IN IF shown # NoLine THEN shown ELSE loc.line]
             /\ source_to_pcs(rows, loc) = find_pcs_for_line(rows, line, loc.file)
      <4> HIDE DEF code, rows, loc
      <4> QED BY <2>1, <2>2, <2>3, <2>5, ResolvesToNextLine
    <3>2. \E r \in there : /\ r.line >= loc.line
                           /\ \A s \in code : /\ s.line >= loc.line => s.line >= r.line
                                              /\ s.line = r.line => s.address >= r.address
      <4>1. row \in there
        BY <3>1
      <4> HIDE DEF code, rows, loc, there
      <4> QED BY <3>1, <4>1
    <3>3. ASSUME single
          PROVE  (\A r \in there : r.line = Answer.line)
                 /\ resolve_one_breakpoint(rows, again) = Answer
      <4>1. PICK k \in DOMAIN rows : row = rows[k] /\ matches_source_file(loc.file, rows[k].file)
        BY <2>3, <3>1 DEF RowsOf
      <4>2. ~rows[k].end
        <5> SUFFICES ASSUME rows[k].end PROVE FALSE
          OBVIOUS
        <5>1. PICK j \in DOMAIN rows : /\ rows[j].address < rows[k].address
                                       /\ rows[j].line = rows[k].line /\ rows[j].file = rows[k].file
          BY <2>2 DEF IsLineTable
        <5>2. rows[j] \in code
          BY <2>3, <4>1, <5>1 DEF RowsOf
        <5>3. rows[j].address >= rows[k].address
          BY <3>1, <4>1, <5>1, <5>2
        <5>4. rows[j].address \in Nat /\ rows[k].address \in Nat
          BY <2>2, RowsAreTyped
        <5> QED BY <5>1, <5>3, <5>4
      <4>3. pc_to_source(rows, Answer.address) = line
        <5>1. \A j \in DOMAIN rows : rows[j].address = rows[k].address => j = k
          BY <3>3
        <5> HIDE DEF rows
        <5>2. pc_to_source(rows, rows[k].address) = rows[k].line
          BY <2>2, <4>2, <5>1, LineOfOnlyRow
        <5> QED BY <3>1, <4>1, <5>2
      <4>4. line # NoLine /\ line \in Nat \ {0}
        BY <2>3, <3>1 DEF NoLine
      <4>5. Answer = [resolved |-> TRUE, address |-> Answer.address, line |-> line]
        BY <3>1, <4>3, <4>4
      <4>6. Answer.line = line
        BY <4>5
      <4>7. ASSUME NEW r \in there PROVE r.line = Answer.line
        <5>1. PICK j \in DOMAIN rows : r = rows[j] /\ r.address = Answer.address
          BY <2>3, <4>7 DEF RowsOf
        <5>2. j = k
          BY <3>1, <3>3, <4>1, <5>1
        <5> QED BY <3>1, <4>1, <4>6, <5>1, <5>2
      <4>8. again.line = line /\ again.file = loc.file
        BY <2>2, <4>6
      <4>9. source_to_pcs(rows, again) = find_pcs_for_line(rows, line, loc.file)
        <5>1. row.address \in find_pcs_for_line(rows, line, loc.file)
          BY <2>3, <3>1 DEF find_pcs_for_line
        <5> HIDE DEF again, rows, loc
        <5> QED BY <4>8, <5>1 DEF source_to_pcs
      <4>10. resolve_one_breakpoint(rows, again) = Answer
        <5> DEFINE pcs == find_pcs_for_line(rows, line, loc.file)
        <5>1. pcs # {}
          BY <2>3, <3>1 DEF find_pcs_for_line
        <5>2. Answer = [resolved |-> TRUE, address |-> Least(pcs),
                        line |-> LET shown == pc_to_source(rows, Least(pcs))
                                 IN IF shown # NoLine THEN shown ELSE loc.line]
          <6> HIDE DEF rows, loc
          <6> QED BY <2>1, <3>1, <5>1 DEF resolve_one_breakpoint
        <5>3. Answer.address = Least(pcs)
          <6> HIDE DEF pcs
          <6> QED BY <5>2
        <5> HIDE DEF again, rows, loc, pcs
        <5> QED BY <4>3, <4>4, <4>5, <4>8, <4>9, <5>1, <5>3 DEF resolve_one_breakpoint, pcs
      <4> QED BY <4>7, <4>10
    <3> QED BY <3>2, <3>3
  <2> QED BY <2>4, <2>5 DEF BreakpointMovesForward
<1> QED BY <1>1, AnswerInvAlways, PTL

-----------------------------------------------------------------------------
(* Work-items.                                                             *)

\* A triple of sizes is its three sizes.
LEMMA SizesAreTriples ==
    ASSUME NEW s \in Sizes, NEW t \in Sizes, s.x = t.x, s.y = t.y, s.z = t.z
    PROVE  s = t
BY DEF Sizes

\* Division by a size takes a group and a local id apart again.
LEMMA TakeApart ==
    \A g \in Nat, i \in Nat, l \in Nat \ {0} :
       i < l => (g * l + i) \div l = g /\ (g * l + i) % l = i
OBVIOUS

\* The group read from registers, and the one listed for readable registers.
LEMMA GroupsOfThread ==
    ASSUME NEW threads, threads \in Seq(Registers), NEW tracker,
           NEW t \in DOMAIN threads, threads[t].readable
    PROVE  /\ read_workgroup_id(threads[t]) \in Sizes
           /\ read_workgroup_id(threads[t]).x = threads[t].group.x
           /\ ListedGroup(threads, tracker, t) \in Sizes
           /\ ListedGroup(threads, tracker, t).x = read_workgroup_id(threads[t]).x
           /\ ListedGroup(threads, tracker, t).y = read_workgroup_id(threads[t]).y
           /\ ListedGroup(threads, tracker, t).z = 0
<1> DEFINE read == read_workgroup_id(threads[t])
           listed == ListedGroup(threads, tracker, t)
<1>1. threads[t] \in Registers
  OBVIOUS
<1>2. threads[t].group \in Sizes
  BY <1>1 DEF Registers
<1>3. /\ read \in Sizes /\ read.x = threads[t].group.x
      /\ read.y = 0 \/ read.y < Plausible
  BY <1>2, SizeAssumption DEF read_workgroup_id, Sizes
<1>4. listed = [read EXCEPT !.y = IF @ < Plausible THEN @ ELSE 0, !.z = 0]
  BY DEF ListedGroup
<1> HIDE DEF read, listed
<1> DEFINE y == IF read.y < Plausible THEN read.y ELSE 0
<1>5. y = read.y /\ y \in Nat
  BY <1>3 DEF Sizes
<1>6. listed = [[read EXCEPT !.y = y] EXCEPT !.z = 0]
  BY <1>4
<1> HIDE DEF y
<1> DEFINE row == [read EXCEPT !.y = y]
<1>7. row \in Sizes /\ row.x = read.x /\ row.y = y
  BY <1>3, <1>5 DEF Sizes
<1> HIDE DEF row
<1>8. listed \in Sizes /\ listed.x = read.x /\ listed.y = y /\ listed.z = 0
  <2>1. listed = [row EXCEPT !.z = 0]
    BY <1>6 DEF row
  <2> QED BY <1>7, <2>1 DEF Sizes
<1> QED BY <1>3, <1>5, <1>8 DEF read, listed

\* A local id is a number, however it is found.
LEMMA LocalIdIsNumber ==
    ASSUME NEW frame \in Registers, NEW lx \in Nat
    PROVE  read_local_id(frame, lx) \in Nat
<1>1. /\ frame.r10 \in Nat /\ frame.rsi \in Nat
      /\ frame.local_var \subseteq Nat /\ frame.global_var \subseteq Nat
  BY DEF Registers
<1>2. CASE frame.local_var # {}
  BY <1>1, <1>2 DEF read_local_id
<1>3. CASE frame.local_var = {} /\ frame.global_var # {}
  <2>1. (CHOOSE v \in frame.global_var : TRUE) \in Nat
    BY <1>1, <1>3
  <2>2. OrOne(lx) \in Nat \ {0}
    BY DEF OrOne
  <2> QED BY <1>3, <2>1, <2>2 DEF read_local_id
<1>4. CASE frame.local_var = {} /\ frame.global_var = {}
  BY <1>1, <1>4 DEF read_local_id
<1> QED BY <1>2, <1>3, <1>4

\* The sizes a global id is taken apart with are, along a row, those it was put
\* together with, and 1 between the rows of a launch that has one row of items.
LEMMA LocalSizes ==
    ASSUME NEW launch \in [known : BOOLEAN, local_size : Sizes],
           NEW lx, lx = (IF launch.known THEN launch.local_size.x ELSE AssumedLocal),
           NEW i \in Nat, i < lx
    PROVE  /\ lx \in Nat \ {0}
           /\ lx = IF launch.known /\ launch.local_size.x > 0 THEN launch.local_size.x
                                                              ELSE AssumedLocal
           /\ get_local_dims(launch).x = lx
           /\ get_local_dims(launch).y \in Nat \ {0} /\ get_local_dims(launch).z \in Nat \ {0}
           /\ ~launch.known \/ launch.local_size.y <= 1 => get_local_dims(launch).y = 1
<1>1. launch.local_size \in Sizes /\ launch.known \in BOOLEAN
  OBVIOUS
<1>2. lx \in Nat \ {0}
  BY <1>1, SizeAssumption DEF Sizes
<1>3. CASE launch.known
  <2> DEFINE local == launch.local_size
  <2>1. local.x = lx /\ local.y \in Nat /\ local.z \in Nat
    BY <1>1, <1>3 DEF Sizes
  <2>2. /\ get_local_dims(launch).x = OrOne(local.x)
        /\ get_local_dims(launch).y = OrOne(local.y) /\ get_local_dims(launch).z = OrOne(local.z)
    BY <1>3 DEF get_local_dims, Axes
  <2> HIDE DEF local
  <2>3. /\ OrOne(local.x) = lx /\ OrOne(local.y) \in Nat \ {0} /\ OrOne(local.z) \in Nat \ {0}
        /\ local.y <= 1 => OrOne(local.y) = 1
    BY <1>2, <2>1 DEF OrOne
  <2>4. lx = IF launch.known /\ local.x > 0 THEN local.x ELSE AssumedLocal
    BY <1>2, <1>3, <2>1
  <2> QED BY <1>2, <1>3, <2>2, <2>3, <2>4 DEF local
<1>4. CASE ~launch.known
  BY <1>2, <1>4 DEF get_local_dims, Triple
<1> QED BY <1>1, <1>3, <1>4

\* The threads and the launch of a stop.
IsStop(threads, launch) ==
    threads \in Seq(Registers) /\ launch \in [known : BOOLEAN, local_size : Sizes]

\* What it takes to select a listed item: its sizes fit, it is in row 0 or the
\* launch has one row of items, and no thread listed before it is taken for it.
Selectable(threads, launch, tracker, wi) ==
    LET lx == IF launch.known THEN launch.local_size.x ELSE AssumedLocal
    IN /\ threads[wi.thread].readable /\ wi.local_id.x < lx
       /\ wi.group_id.x * lx + wi.local_id.x < 2 ^ SizeBits
       /\ ~launch.known \/ launch.local_size.y <= 1 \/ wi.group_id.y = 0
       /\ \A other \in list_stopped_work_items(threads, launch, tracker) :
            threads[other.thread].readable /\ other.thread < wi.thread
              /\ other.group_id.x = wi.group_id.x
              => wi.group_id.y # 0 /\ other.group_id.y # wi.group_id.y

\* The item listed for a thread whose registers can be read has the group they hold.
LEMMA ListedItemGroup ==
    ASSUME NEW threads, NEW tracker, NEW launch, IsStop(threads, launch),
           NEW u \in StoppedIn(threads), threads[u].readable
    PROVE  LET item == ListedItem(threads, launch, tracker, u) IN
           /\ item \in list_stopped_work_items(threads, launch, tracker) /\ item.thread = u
           /\ item.group_id.x = read_workgroup_id(threads[u]).x
           /\ item.group_id.y = read_workgroup_id(threads[u]).y
<1> DEFINE item == ListedItem(threads, launch, tracker, u)
<1>1. item \in list_stopped_work_items(threads, launch, tracker)
  BY DEF list_stopped_work_items
<1>2. item.thread = u /\ item.group_id = ListedGroup(threads, tracker, u)
  BY DEF ListedItem
<1>3. u \in DOMAIN threads
  BY DEF StoppedIn
<1>4. /\ ListedGroup(threads, tracker, u).x = read_workgroup_id(threads[u]).x
      /\ ListedGroup(threads, tracker, u).y = read_workgroup_id(threads[u]).y
  BY <1>3, GroupsOfThread DEF IsStop
<1> HIDE DEF item
<1> QED BY <1>1, <1>2, <1>4 DEF item

\* It is selected by its global id: the id divides into its group and local id, and
\* its thread is the first that matches.
LEMMA ListedSelects ==
    ASSUME NEW threads, NEW tracker, NEW launch, IsStop(threads, launch),
           NEW wi \in list_stopped_work_items(threads, launch, tracker), Selectable(threads, launch, tracker, wi)
    PROVE  select_work_item(threads, launch, tracker, wi.global_id) = {wi}
<1> USE DEF IsStop
<1> PICK t \in StoppedIn(threads) : wi = ListedItem(threads, launch, tracker, t)
  BY DEF list_stopped_work_items
<1> DEFINE lx == IF launch.known THEN launch.local_size.x ELSE AssumedLocal
<1>0. /\ wi.thread = t /\ threads[t].readable /\ wi.local_id.x < lx
      /\ wi.group_id.x * lx + wi.local_id.x < 2 ^ SizeBits
      /\ ~launch.known \/ launch.local_size.y <= 1 \/ wi.group_id.y = 0
      /\ \A other \in list_stopped_work_items(threads, launch, tracker) :
           threads[other.thread].readable /\ other.thread < t /\ other.group_id.x = wi.group_id.x
             => wi.group_id.y # 0 /\ other.group_id.y # wi.group_id.y
  <2>1. wi.thread = t
    BY DEF ListedItem
  <2> QED BY <2>1 DEF Selectable
<1> DEFINE length == IF launch.known /\ launch.local_size.x > 0 THEN launch.local_size.x
                                                                ELSE AssumedLocal
           group == ListedGroup(threads, tracker, t)
           i == read_local_id(threads[t], length)
           dims == get_local_dims(launch)
           target == [a \in Axes |-> wi.global_id[a] \div dims[a]]
           rest == [a \in Axes |-> wi.global_id[a] % dims[a]]
           matching == Matching(threads, target)
<1>1. t \in DOMAIN threads /\ t \in Nat /\ threads[t] \in Registers
  BY DEF StoppedIn
<1>2. group \in Sizes /\ group.x \in Nat /\ group.y \in Nat /\ group.z = 0
  BY <1>0, <1>1, GroupsOfThread DEF Sizes
<1>3. length \in Nat /\ i \in Nat
  <2>1. length \in Nat
    BY SizeAssumption DEF Sizes
  <2> HIDE DEF length
  <2> QED BY <1>1, <2>1, LocalIdIsNumber
<1>4. wi = [thread |-> t, group_id |-> group, local_id |-> Triple(i, 0, 0),
            global_id |-> Triple((group.x * length + i) % 2 ^ SizeBits, group.y, group.z)]
  BY DEF ListedItem
<1>5. wi.group_id = group /\ wi.local_id = Triple(i, 0, 0) /\ wi.thread = t
  BY <1>4
<1>6. i < lx
  BY <1>0, <1>5 DEF Triple
<1>7. /\ lx \in Nat \ {0} /\ length = lx /\ dims.x = lx
      /\ dims.y \in Nat \ {0} /\ dims.z \in Nat \ {0}
      /\ dims.y = 1 \/ group.y = 0
  <2>1. wi.group_id.y = group.y
    BY <1>5
  <2> HIDE DEF i, group
  <2> QED BY <1>0, <1>3, <1>6, <2>1, LocalSizes
<1> HIDE DEF length, group, i, dims, lx
<1>8. wi.global_id = Triple(group.x * lx + i, group.y, 0)
  <2>1. group.x * lx + i \in Nat /\ group.x * lx + i < 2 ^ SizeBits
    <3>1. \A g \in Nat, l \in Nat, k \in Nat : g * l + k \in Nat
      OBVIOUS
    <3>2. lx \in Nat
      BY <1>7
    <3>3. group.x * lx + i \in Nat
      BY <1>2, <1>3, <3>1, <3>2, Zenon
    <3>4. wi.group_id.x = group.x /\ wi.local_id.x = i
      BY <1>5 DEF Triple
    <3> QED BY <1>0, <3>3, <3>4
  <2>2. \A n \in Nat, m \in Nat \ {0} : n < m => n % m = n
    OBVIOUS
  <2>3. (group.x * lx + i) % 2 ^ SizeBits = group.x * lx + i
    BY <2>1, <2>2, SizeAssumption
  <2>4. wi.global_id = Triple((group.x * length + i) % 2 ^ SizeBits, group.y, group.z)
    BY <1>4
  <2> QED BY <1>2, <1>7, <2>3, <2>4
<1>9. target \in Sizes /\ target.x = group.x /\ target.y = group.y /\ target.z = 0
  <2>1. (group.x * lx + i) \div lx = group.x
    <3>1. lx \in Nat \ {0} /\ group.x \in Nat /\ i \in Nat
      BY <1>2, <1>3, <1>7
    <3>2. i < lx => (group.x * lx + i) \div lx = group.x /\ (group.x * lx + i) % lx = i
      BY <3>1, TakeApart, Zenon
    <3> QED BY <1>6, <3>2
  <2>2. group.y \div dims.y = group.y /\ 0 \div dims.z = 0
    <3>1. \A n \in Nat \ {0} : 0 \div n = 0
      OBVIOUS
    <3>2. \A n \in Nat : n \div 1 = n
      OBVIOUS
    <3> QED BY <1>2, <1>7, <3>1, <3>2
  <2>3. target["x"] = group.x /\ target["y"] = group.y /\ target["z"] = 0
    BY <1>7, <1>8, <2>1, <2>2 DEF Triple, Axes
  <2>4. target = [a \in Axes |-> target[a]]
    OBVIOUS
  <2> HIDE DEF target
  <2> QED BY <1>2, <2>3, <2>4 DEF Axes, Sizes
<1>10. rest = Triple(i, 0, 0)
  <2>1. (group.x * lx + i) % lx = i
    <3>1. lx \in Nat \ {0} /\ group.x \in Nat /\ i \in Nat
      BY <1>2, <1>3, <1>7
    <3>2. i < lx => (group.x * lx + i) \div lx = group.x /\ (group.x * lx + i) % lx = i
      BY <3>1, TakeApart, Zenon
    <3> QED BY <1>6, <3>2
  <2>2. group.y % dims.y = 0 /\ 0 % dims.z = 0
    <3>1. \A n \in Nat \ {0} : 0 % n = 0
      OBVIOUS
    <3>2. \A n \in Nat : n % 1 = 0
      OBVIOUS
    <3> QED BY <1>2, <1>7, <3>1, <3>2
  <2>3. rest["x"] = i /\ rest["y"] = 0 /\ rest["z"] = 0
    BY <1>7, <1>8, <2>1, <2>2 DEF Triple, Axes
  <2>4. rest = [a \in Axes |-> rest[a]]
    OBVIOUS
  <2> HIDE DEF rest
  <2> QED BY <1>3, <2>3, <2>4 DEF Axes, Triple
<1>11. target = group
  <2> HIDE DEF target
  <2> QED BY <1>2, <1>9, SizesAreTriples
<1>12. t \in matching
  <2>1. /\ read_workgroup_id(threads[t]).x = group.x
        /\ read_workgroup_id(threads[t]).y = group.y
    BY <1>0, <1>1, GroupsOfThread DEF group
  <2> HIDE DEF target
  <2> QED BY <1>0, <1>9, <2>1 DEF Matching, match_wg
<1>13. \A u \in matching : u \in Nat /\ t <= u
  <2> SUFFICES ASSUME NEW u \in matching PROVE u \in Nat /\ t <= u
    OBVIOUS
  <2> DEFINE other == ListedItem(threads, launch, tracker, u)
  <2>1. /\ u \in StoppedIn(threads) /\ threads[u].readable
        /\ read_workgroup_id(threads[u]).x = group.x
        /\ group.y = 0 \/ read_workgroup_id(threads[u]).y = group.y
    <3> HIDE DEF target
    <3> QED BY <1>9 DEF Matching, match_wg
  <2>2. u \in Nat
    BY <2>1 DEF StoppedIn
  <2>3. /\ other \in list_stopped_work_items(threads, launch, tracker) /\ other.thread = u
        /\ other.group_id.x = group.x
        /\ group.y = 0 \/ other.group_id.y = group.y
    BY <2>1, ListedItemGroup
  <2> HIDE DEF other
  <2>4. ~(u < t)
    BY <1>0, <1>5, <2>1, <2>3
  <2> QED BY <1>1, <2>2, <2>4
<1>14. find_threads_for_target_wg(threads, launch, tracker, target, wi.global_id) = {t}
  <2> HIDE DEF target, matching
  <2>1. First(matching) = t
    <3>1. \A u \in matching : (\A v \in matching : u <= v) => u = t
      BY <1>1, <1>12, <1>13
    <3> QED BY <1>12, <1>13, <3>1 DEF First
  <2> QED BY <1>12, <2>1 DEF find_threads_for_target_wg, matching
<1>15. select_work_item(threads, launch, tracker, wi.global_id)
         = {[thread |-> u, group_id |-> target, local_id |-> rest, global_id |-> wi.global_id] :
              u \in find_threads_for_target_wg(threads, launch, tracker, target, wi.global_id)}
  BY DEF select_work_item, dims
<1>16. [thread |-> t, group_id |-> target, local_id |-> rest, global_id |-> wi.global_id] = wi
  <2> HIDE DEF target, rest
  <2> QED BY <1>4, <1>10, <1>11
<1> HIDE DEF target, rest
<1> QED BY <1>14, <1>15, <1>16

\* ListedIsSelected: a work-item that is listed at a stop, and is the first that its
\* group or its column of groups may be taken for, is selected by the global id it
\* is listed with, and is then the same item (list_stopped_work_items(),
\* select_work_item(), find_threads_for_target_wg()).
THEOREM ListedIsSelectedAlways == Spec => []ListedIsSelected
<1>1. AnswerInv => ListedIsSelected
  <2> SUFFICES ASSUME AnswerInv, Answered("stop") PROVE ListedIsSelected
    BY DEF ListedIsSelected
  <2> DEFINE threads == question.threads
             launch == question.launch
             tracker == question.tracker
  <2>1. /\ question \in Stops
        /\ Answer = {[listed |-> wi, selected |-> select_work_item(threads, launch, tracker, wi.global_id)] :
                       wi \in list_stopped_work_items(threads, launch, tracker)}
    BY DEF AnswerInv, Answered, Answer
  <2>2. IsStop(threads, launch)
    BY <2>1, QuestionAssumption DEF IsStop
  <2>3. ASSUME NEW pair \in Answer, Selectable(threads, launch, tracker, pair.listed)
        PROVE  pair.selected = {pair.listed}
    <3>1. PICK wi \in list_stopped_work_items(threads, launch, tracker) :
            pair = [listed |-> wi,
                    selected |-> select_work_item(threads, launch, tracker, wi.global_id)]
      BY <2>1
    <3>2. /\ pair.listed = wi
          /\ pair.selected = select_work_item(threads, launch, tracker, wi.global_id)
      BY <3>1
    <3>3. Selectable(threads, launch, tracker, wi)
      BY <2>3, <3>2
    <3> HIDE DEF threads, launch, tracker
    <3>4. select_work_item(threads, launch, tracker, wi.global_id) = {wi}
      BY <2>2, <3>3, ListedSelects
    <3> QED BY <3>2, <3>4
  <2>4. \A other \in list_stopped_work_items(threads, launch, tracker) :
          \E pair \in Answer : pair.listed = other
    <3> SUFFICES ASSUME NEW other \in list_stopped_work_items(threads, launch, tracker)
                 PROVE  \E pair \in Answer : pair.listed = other
      OBVIOUS
    <3> DEFINE asked == [listed |-> other,
                         selected |-> select_work_item(threads, launch, tracker, other.global_id)]
    <3>1. asked \in Answer
      <4> HIDE DEF threads, launch, tracker
      <4> QED BY <2>1
    <3>2. asked.listed = other
      OBVIOUS
    <3> HIDE DEF asked
    <3> QED BY <3>1, <3>2
  <2> QED BY <2>3, <2>4 DEF ListedIsSelected, Selectable
<1> QED BY <1>1, AnswerInvAlways, PTL


-----------------------------------------------------------------------------
(* Scopes.                                                                 *)

\* What IsInfo says of a DIE, for the provers.
LEMMA InfoTyped ==
    ASSUME NEW units \in Nat, NEW dies, IsInfo(dies, units)
    PROVE  /\ Len(dies) \in Nat /\ DOMAIN dies = 1 .. Len(dies)
           /\ \A k \in DOMAIN dies :
                /\ dies[k].parent \in Nat /\ dies[k].parent < k
                /\ dies[k].parent # 0 => /\ dies[k].parent \in DOMAIN dies
                                         /\ dies[dies[k].parent].tag # "variable"
                /\ dies[k].tag \in {"subprogram", "inlined", "block", "variable"}
                /\ dies[k].unit \in 1 .. units
<1> DEFINE Record == [tag : {"subprogram", "inlined", "block", "variable"}, name : STRING,
                      parent : Nat, lo : Nat, hi : Nat, unit : 1 .. units]
<1>1. dies \in Seq(Record)
  BY DEF IsInfo
<1>2. Len(dies) \in Nat /\ DOMAIN dies = 1 .. Len(dies)
  <2> HIDE DEF Record
  <2> QED BY <1>1
<1>3. ASSUME NEW k \in DOMAIN dies
      PROVE  /\ dies[k].parent \in Nat /\ dies[k].unit \in 1 .. units
             /\ dies[k].tag \in {"subprogram", "inlined", "block", "variable"}
  <2>1. dies[k] \in Record
    <3> HIDE DEF Record
    <3> QED BY <1>1, <1>2
  <2> QED BY <2>1
<1>4. ASSUME NEW k \in DOMAIN dies
      PROVE  /\ dies[k].parent < k
             /\ dies[k].parent # 0 => dies[dies[k].parent].tag # "variable"
  <2>1. \A j \in DOMAIN dies : /\ dies[j].parent < j
                               /\ dies[j].parent # 0 => dies[dies[j].parent].tag # "variable"
    BY DEF IsInfo, NoDie
  <2> QED BY <2>1
<1>5. ASSUME NEW k \in DOMAIN dies, dies[k].parent # 0 PROVE dies[k].parent \in DOMAIN dies
  <2> DEFINE p == dies[k].parent
  <2>1. p \in Nat /\ p # 0 /\ p < k
    BY <1>3, <1>4, <1>5
  <2>2. k \in Nat /\ k <= Len(dies)
    BY <1>2
  <2> HIDE DEF p
  <2>3. p \in 1 .. Len(dies)
    BY <2>1, <2>2, <1>2
  <2> QED BY <2>3, <1>2 DEF p
<1> QED BY <1>2, <1>3, <1>4, <1>5

\* What is around a DIE: its parent and what is around that.
LEMMA AroundEquation ==
    ASSUME NEW units \in Nat, NEW dies, IsInfo(dies, units)
    PROVE  \A k \in DOMAIN dies :
             Around(dies)[k] = IF dies[k].parent = 0 THEN {}
                               ELSE {dies[k].parent} \cup Around(dies)[dies[k].parent]
<1> DEFINE K == DOMAIN dies
           R == {k \in K : dies[k].parent = 0}
           p == [k \in K |-> dies[k].parent]
           base == [k \in K |-> {}]
           V == SUBSET K
           step == [x \in K \X V |-> ({p[x[1]]} \cap K) \cup x[2]]
           Eq(f) == f = [k \in K |-> IF dies[k].parent = NoDie THEN {}
                                     ELSE {dies[k].parent} \cup f[dies[k].parent]]
<1>1. Len(dies) \in Nat /\ K = 1 .. Len(dies)
  BY InfoTyped
<1>2. \A k \in K : /\ dies[k].parent \in Nat /\ dies[k].parent < k
                   /\ dies[k].parent # 0 => dies[k].parent \in K
  BY InfoTyped
<1>3. p \in [K -> Int] /\ (\A k \in K \ R : p[k] \in K /\ p[k] < k)
  <2> HIDE DEF K
  <2> QED BY <1>2
<1>4. K \subseteq 0 .. Len(dies) /\ base \in [K -> V]
  <2>1. K \subseteq 0 .. Len(dies)
    BY <1>1
  <2> HIDE DEF K
  <2> QED BY <2>1
<1>5. step \in [K \X V -> V]
  <2>1. ASSUME NEW x \in K \X V PROVE ({p[x[1]]} \cap K) \cup x[2] \in V
    OBVIOUS
  <2> HIDE DEF K, V, p
  <2> QED BY <2>1
<1>6. PICK f \in [K -> V] :
        \A k \in K : f[k] = IF k \in R THEN base[k] ELSE step[<<k, f[p[k]]>>]
  <2> HIDE DEF K, V, R, p, base, step
  <2>1. Recursion(Len(dies), K, V, R, p, base, step)
    BY <1>1, <1>3, <1>4, <1>5 DEF Recursion
  <2> QED BY <2>1, RecursionExists
<1>7. ASSUME NEW k \in K
      PROVE  f[k] = IF dies[k].parent = NoDie THEN {} ELSE {dies[k].parent} \cup f[dies[k].parent]
  <2>1. CASE k \in R
    <3>1. base[k] = {} /\ dies[k].parent = NoDie
      <4> HIDE DEF K
      <4> QED BY <2>1 DEF NoDie
    <3> HIDE DEF R, base
    <3> QED BY <3>1, <2>1, <1>6
  <2>2. CASE k \notin R
    <3>1. dies[k].parent # NoDie /\ dies[k].parent \in K /\ p[k] = dies[k].parent
      <4> HIDE DEF K
      <4> QED BY <2>2, <1>2 DEF NoDie
    <3>2. <<k, f[p[k]]>> \in K \X V
      <4> HIDE DEF K, V, p
      <4> QED BY <3>1, <1>6
    <3>3. step[<<k, f[p[k]]>>] = ({p[k]} \cap K) \cup f[p[k]]
      <4> HIDE DEF K, V, p
      <4> QED BY <3>2
    <3>4. f[k] = step[<<k, f[p[k]]>>]
      <4> HIDE DEF R, step, p
      <4> QED BY <2>2, <1>6
    <3> HIDE DEF step, K, p
    <3> QED BY <3>1, <3>3, <3>4
  <2> QED BY <2>1, <2>2
<1>8. Eq(f)
  <2> HIDE DEF K
  <2> QED BY <1>6, <1>7
<1>9. Around(dies) = CHOOSE g : Eq(g)
  BY DEF Around
<1>10. Eq(Around(dies))
  <2> HIDE DEF Eq
  <2> QED BY <1>8, <1>9
<1>11. \A k \in K : Around(dies)[k] = IF dies[k].parent = 0 THEN {}
                                       ELSE {dies[k].parent} \cup Around(dies)[dies[k].parent]
  <2> DEFINE up == Around(dies)
  <2> HIDE DEF up, K
  <2> QED BY <1>10 DEF NoDie
<1> QED BY <1>11

\* What is around a DIE comes before it, holds no variable and forms a chain: of
\* two DIEs around it one is around the other.
LEMMA AroundFacts ==
    ASSUME NEW units \in Nat, NEW dies, IsInfo(dies, units), NEW up, up = Around(dies)
    PROVE  \A k \in DOMAIN dies :
             /\ \A j \in up[k] : /\ j \in DOMAIN dies /\ j < k
                                 /\ dies[j].tag # "variable" /\ up[j] \subseteq up[k]
             /\ \A i, j \in up[k] : i = j \/ i \in up[j] \/ j \in up[i]
<1> DEFINE K == DOMAIN dies
           Below(k) == \A j \in up[k] : /\ j \in K /\ j < k
                                        /\ dies[j].tag # "variable" /\ up[j] \subseteq up[k]
           Chain(k) == \A i, j \in up[k] : i = j \/ i \in up[j] \/ j \in up[i]
           S == {k \in Nat : k \in K => Below(k) /\ Chain(k)}
<1>1. \A k \in K : k \in Nat
  BY InfoTyped
<1>2. ASSUME NEW k \in Nat, \A m \in Nat : m < k => m \in S, k \in K PROVE Below(k) /\ Chain(k)
  <2> DEFINE p == dies[k].parent
  <2>1. p \in Nat /\ p < k /\ (p # 0 => p \in K /\ dies[p].tag # "variable")
    BY <1>2, InfoTyped
  <2>2. up[k] = IF p = 0 THEN {} ELSE {p} \cup up[p]
    BY <1>2, AroundEquation
  <2> HIDE DEF p, K
  <2>3. CASE p = 0
    BY <2>2, <2>3
  <2>4. CASE p # 0
    <3>1. Below(p) /\ Chain(p)
      <4> HIDE DEF Below, Chain
      <4> QED BY <2>1, <2>4, <1>2
    <3>2. up[k] = {p} \cup up[p]
      BY <2>2, <2>4
    <3>3. ASSUME NEW j \in up[k] PROVE j \in K /\ j < k /\ dies[j].tag # "variable"
      <4>1. CASE j = p
        BY <4>1, <2>1, <2>4
      <4>2. CASE j \in up[p]
        <5>1. j \in K /\ j < p /\ dies[j].tag # "variable"
          BY <4>2, <3>1
        <5>2. j \in Nat
          BY <5>1, <1>1
        <5> QED BY <5>1, <5>2, <2>1
      <4> QED BY <4>1, <4>2, <3>2
    <3>4. ASSUME NEW j \in up[k] PROVE up[j] \subseteq up[k]
      BY <3>1, <3>2
    <3>5. Chain(k)
      BY <3>1, <3>2
    <3> QED BY <3>3, <3>4, <3>5
  <2> QED BY <2>3, <2>4
<1>3. ASSUME NEW k \in Nat, \A m \in Nat : m < k => m \in S PROVE k \in S
  <2> HIDE DEF Below, Chain, K
  <2> QED BY <1>2, <1>3
<1>4. Nat \subseteq S
  <2> HIDE DEF S
  <2> QED BY <1>3, SetInduction
<1>5. ASSUME NEW k \in K PROVE Below(k) /\ Chain(k)
  <2> HIDE DEF Below, Chain, K
  <2> QED BY <1>1, <1>4
<1> QED BY <1>5

\* A variable is collected below a DIE when every DIE in between is entered.
LEMMA CollectedAre ==
    ASSUME NEW units \in Nat, NEW dies, IsInfo(dies, units), NEW up, up = Around(dies),
           NEW pc, NEW f \in DOMAIN dies
    PROVE  /\ collect_die_vars(dies, f, pc) \subseteq DOMAIN dies
           /\ \A k \in DOMAIN dies :
                k \in collect_die_vars(dies, f, pc) <=>
                  /\ dies[k].tag = "variable" /\ dies[k].name # ""
                  /\ f \in up[k]
                  /\ \A j \in up[k] : f < j => Entered(dies[j], pc)
<1> DEFINE K == DOMAIN dies
           parent(k) == dies[k].parent
           Enters(k) == Entered(dies[k], pc)
           Closed(k) == f \in up[k] /\ \A j \in up[k] : f < j => Enters(j)
           Follows(g, k) == \/ parent(k) = f
                            \/ parent(k) # NoDie /\ Enters(parent(k)) /\ g[parent(k)]
           Eq(g) == g = [k \in K |-> Follows(g, k)]
           c == [k \in K |-> Closed(k)]
<1>1. f \in Nat /\ f # 0
  BY InfoTyped
<1>2. ASSUME NEW k \in K
      PROVE  /\ k \in Nat /\ parent(k) \in Nat /\ parent(k) < k
             /\ parent(k) # NoDie => parent(k) \in K
             /\ up[k] = IF parent(k) = NoDie THEN {} ELSE {parent(k)} \cup up[parent(k)]
             /\ \A j \in up[k] : j \in Nat /\ j < k
  <2>1. /\ k \in Nat /\ parent(k) \in Nat /\ parent(k) < k
        /\ parent(k) # NoDie => parent(k) \in K
    BY InfoTyped DEF NoDie
  <2>2. up[k] = IF parent(k) = NoDie THEN {} ELSE {parent(k)} \cup up[parent(k)]
    BY AroundEquation DEF NoDie
  <2>3. \A j \in up[k] : j \in Nat /\ j < k
    BY AroundFacts, InfoTyped
  <2> QED BY <2>1, <2>2, <2>3
<1>3. ASSUME NEW k \in K
      PROVE  Closed(k) <=> \/ parent(k) = f
                           \/ parent(k) # NoDie /\ Enters(parent(k)) /\ Closed(parent(k))
  <2> DEFINE p == parent(k)
  <2>1. /\ p \in Nat /\ (p # NoDie => p \in K)
        /\ up[k] = IF p = NoDie THEN {} ELSE {p} \cup up[p]
    BY <1>2
  <2>2. p # NoDie => \A j \in up[p] : j \in Nat /\ j < p
    BY <2>1, <1>2
  <2> HIDE DEF p, K, Enters
  <2>3. CASE p = NoDie
    BY <2>1, <2>3, <1>1 DEF NoDie, p
  <2>4. CASE p # NoDie /\ p = f
    <3>1. \A j \in up[k] : ~(f < j)
      BY <2>1, <2>2, <2>4
    <3> QED BY <3>1, <2>1, <2>4 DEF p
  <2>5. CASE p # NoDie /\ p # f
    <3>1. f \in up[k] <=> f \in up[p]
      BY <2>1, <2>5
    <3>2. f \in up[p] => f < p
      BY <2>2, <2>5
    <3>3. ASSUME f \in up[p]
          PROVE  (\A j \in up[k] : f < j => Enters(j)) <=>
                   Enters(p) /\ \A j \in up[p] : f < j => Enters(j)
      BY <3>2, <3>3, <2>1, <2>5
    <3> QED BY <3>1, <3>3, <2>5 DEF p
  <2> QED BY <2>3, <2>4, <2>5
<1>4. Eq(c)
  <2>1. ASSUME NEW k \in K PROVE Closed(k) <=> Follows(c, k)
    <3>1. parent(k) # NoDie => (c[parent(k)] <=> Closed(parent(k)))
      <4>1. parent(k) # NoDie => parent(k) \in K
        BY <1>2
      <4> HIDE DEF K, Closed, parent
      <4> QED BY <4>1, Zenon
    <3> HIDE DEF K, Closed, parent, c, Enters
    <3> QED BY <3>1, <1>3
  <2>2. ASSUME NEW k \in K PROVE Closed(k) = Follows(c, k)
    BY <2>1, Zenon
  <2>3. c = [k \in K |-> Follows(c, k)]
    <3> DEFINE d == [k \in K |-> Follows(c, k)]
    <3>1. \A k \in K : Closed(k) = Follows(c, k)
      BY <2>2
    <3> HIDE DEF Closed, Follows, K
    <3> QED BY <3>1, Zenon
  <2> QED BY <2>3
<1> DEFINE reached == CHOOSE g : Eq(g)
<1>5. Eq(reached)
  <2> HIDE DEF Eq, c
  <2> QED BY <1>4
<1>6. ASSUME NEW k \in K PROVE reached[k] <=> Follows(reached, k)
  <2> DEFINE r == reached
  <2> HIDE DEF reached, K, Follows
  <2> QED BY <1>5, Zenon
<1> DEFINE Same(k) == reached[k] <=> Closed(k)
           S == {k \in Nat : k \in K => Same(k)}
<1>7. ASSUME NEW k \in Nat, \A m \in Nat : m < k => m \in S, k \in K PROVE Same(k)
  <2>1. parent(k) # NoDie => Same(parent(k))
    <3>1. parent(k) # NoDie => parent(k) \in Nat /\ parent(k) < k /\ parent(k) \in K
      BY <1>2, <1>7
    <3> HIDE DEF Same, K, parent
    <3> QED BY <3>1, <1>7
  <2>2. Closed(k) <=> \/ parent(k) = f
                      \/ parent(k) # NoDie /\ Enters(parent(k)) /\ Closed(parent(k))
    BY <1>3, <1>7
  <2>3. reached[k] <=> Follows(reached, k)
    BY <1>6, <1>7
  <2> HIDE DEF reached, Closed, parent, Enters, K
  <2> QED BY <2>1, <2>2, <2>3, Zenon
<1>8. ASSUME NEW k \in Nat, \A m \in Nat : m < k => m \in S PROVE k \in S
  <2> HIDE DEF Same, K
  <2> QED BY <1>7, <1>8
<1>9. Nat \subseteq S
  <2> HIDE DEF S
  <2> QED BY <1>8, SetInduction
<1>10. ASSUME NEW k \in K PROVE reached[k] <=> Closed(k)
  <2>1. k \in S
    <3> HIDE DEF S, K
    <3> QED BY <1>2, <1>9
  <2> HIDE DEF reached, Closed, K
  <2> QED BY <2>1
<1>11. collect_die_vars(dies, f, pc) =
         {k \in K : dies[k].tag = "variable" /\ dies[k].name # "" /\ reached[k]}
  BY DEF collect_die_vars
<1> HIDE DEF reached, Closed, K
<1>12. ASSUME NEW k \in K
       PROVE  k \in collect_die_vars(dies, f, pc) <=>
                dies[k].tag = "variable" /\ dies[k].name # "" /\ Closed(k)
  BY <1>10, <1>11, Zenon
<1>13. collect_die_vars(dies, f, pc) \subseteq K
  BY <1>11
<1> QED BY <1>12, <1>13 DEF Closed, K

\* The greatest of a set of DIEs is in it, above every other.
LEMMA GreatestIsGreatest ==
    ASSUME NEW N \in Nat, NEW T, T \subseteq 1 .. N, T # {}
    PROVE  Greatest(T) \in T /\ \A m \in T : m <= Greatest(T)
BY GreatestExists DEF Greatest

\* Only one element of a set of numbers is above every other.
LEMMA OneGreatest ==
    ASSUME NEW T, T \subseteq Nat, NEW f \in T, \A m \in T : m <= f
    PROVE  Greatest(T) = f
<1>1. Greatest(T) \in T /\ \A m \in T : m <= Greatest(T)
  BY DEF Greatest
<1> DEFINE g == Greatest(T)
<1>2. g \in Nat /\ f \in Nat /\ g <= f /\ f <= g
  BY <1>1
<1> QED BY <1>2

\* The functions at an address, inlined or not.
FunctionsAt(dies, pc) ==
    {k \in DOMAIN dies : dies[k].tag \in {"subprogram", "inlined"} /\ Covers(dies[k], pc)}

\* Of the DIEs below the innermost function at an address, those that contain it
\* are blocks: what is collected is what lies in blocks at it or in inlined calls.
LEMMA ShownAreCollected ==
    ASSUME NEW units \in Nat, NEW dies, IsInfo(dies, units), NEW up, up = Around(dies),
           NEW pc \in Nat \ {0}, NEW f \in FunctionsAt(dies, pc),
           \A m \in FunctionsAt(dies, pc) : m <= f
    PROVE  /\ collect_die_vars(dies, f, pc) \subseteq DOMAIN dies
           /\ \A k \in DOMAIN dies :
                k \in collect_die_vars(dies, f, pc) <=>
                  /\ dies[k].tag = "variable" /\ dies[k].name # "" /\ f \in up[k]
                  /\ \A j \in up[k] \ up[f] : Covers(dies[j], pc) \/ dies[j].tag = "inlined"
<1> DEFINE K == DOMAIN dies
<1>1. f \in K /\ Covers(dies[f], pc)
  BY DEF FunctionsAt
<1>2. \A k \in K : k \in Nat /\ dies[k].tag \in {"subprogram", "inlined", "block", "variable"}
  <2>1. /\ K = 1 .. Len(dies)
        /\ \A k \in K : dies[k].tag \in {"subprogram", "inlined", "block", "variable"}
    BY InfoTyped
  <2>2. \A k \in 1 .. Len(dies) : k \in Nat
    OBVIOUS
  <2> HIDE DEF K
  <2> QED BY <2>1, <2>2
<1>3. ASSUME NEW j \in K, f < j, dies[j].tag # "variable"
      PROVE  Entered(dies[j], pc) <=> Covers(dies[j], pc) \/ dies[j].tag = "inlined"
  <2>1. j \notin FunctionsAt(dies, pc)
    BY <1>1, <1>2, <1>3
  <2>2. Covers(dies[j], pc) => dies[j].tag = "block"
    BY <2>1, <1>2, <1>3 DEF FunctionsAt
  <2>3. pc # 0
    OBVIOUS
  <2> QED BY <2>2, <2>3 DEF Entered
<1>4. ASSUME NEW k \in K, f \in up[k]
      PROVE  (\A j \in up[k] : f < j => Entered(dies[j], pc)) <=>
               (\A j \in up[k] \ up[f] : Covers(dies[j], pc) \/ dies[j].tag = "inlined")
  <2>1. \A j \in up[k] : j \in K /\ dies[j].tag # "variable"
    BY AroundFacts
  <2>2. \A j \in up[k] : j = f \/ j \in up[f] \/ f \in up[j]
    BY <1>4, AroundFacts
  <2>3. \A j \in up[f] : j < f
    BY <1>1, AroundFacts
  <2>4. \A j \in up[k] : f \in up[j] => f < j
    BY <2>1, AroundFacts
  <2>5. ASSUME NEW j \in up[k] PROVE j \in up[f] \/ j = f \/ f < j
    BY <2>2, <2>4
  <2>6. ASSUME NEW j \in up[k], f < j PROVE j \notin up[f]
    BY <2>1, <2>3, <2>6, <1>1, <1>2
  <2>7. ASSUME NEW j \in up[k], f < j
        PROVE  Entered(dies[j], pc) <=> Covers(dies[j], pc) \/ dies[j].tag = "inlined"
    BY <2>1, <2>7, <1>3
  <2> HIDE DEF K
  <2> QED BY <2>5, <2>6, <2>7, <1>1
<1>5. /\ collect_die_vars(dies, f, pc) \subseteq DOMAIN dies
      /\ \A k \in DOMAIN dies :
           k \in collect_die_vars(dies, f, pc) <=>
             /\ dies[k].tag = "variable" /\ dies[k].name # ""
             /\ f \in up[k]
             /\ \A j \in up[k] : f < j => Entered(dies[j], pc)
  <2>1. f \in DOMAIN dies
    BY <1>1
  <2> QED BY <2>1, CollectedAre
<1> QED BY <1>4, <1>5

\* The innermost function at an address is the one LLVM finds in its unit.
LEMMA SubroutineIsInnermost ==
    ASSUME NEW units \in Nat, NEW dies, IsInfo(dies, units),
           NEW pc, NEW f \in FunctionsAt(dies, pc), \A m \in FunctionsAt(dies, pc) : m <= f
    PROVE  getSubroutineForAddress(dies, dies[f].unit, pc) = f
<1> DEFINE at == {k \in DOMAIN dies : /\ dies[k].unit = dies[f].unit /\ Covers(dies[k], pc)
                                      /\ dies[k].tag \in {"subprogram", "inlined"}}
<1>1. at \subseteq FunctionsAt(dies, pc) /\ f \in at
  BY DEF FunctionsAt
<1>2. at \subseteq Nat
  BY InfoTyped
<1>3. \A m \in at : m <= f
  BY <1>1
<1>4. getSubroutineForAddress(dies, dies[f].unit, pc) = IF at = {} THEN NoDie ELSE Greatest(at)
  BY DEF getSubroutineForAddress
<1> HIDE DEF at
<1>5. Greatest(at) = f
  BY <1>1, <1>2, <1>3, OneGreatest
<1> QED BY <1>1, <1>4, <1>5

\* A unit adds to what was found before it: the variables of the function at the
\* address, and no DIE from outside the file.
LEMMA UnitAdds ==
    ASSUME NEW dies, NEW found, NEW unit, NEW pc
    PROVE  /\ found \subseteq UnitVars(found, dies, unit, pc)
           /\ getSubroutineForAddress(dies, unit, pc) # NoDie =>
                collect_die_vars(dies, getSubroutineForAddress(dies, unit, pc), pc)
                  \subseteq UnitVars(found, dies, unit, pc)
           /\ found \subseteq DOMAIN dies => UnitVars(found, dies, unit, pc) \subseteq DOMAIN dies
<1> DEFINE sub == getSubroutineForAddress(dies, unit, pc)
           more == found \cup (IF sub = NoDie THEN {} ELSE collect_die_vars(dies, sub, pc))
           all == {k \in DOMAIN dies : dies[k].unit = unit /\ dies[k].tag = "subprogram"}
           rest == UNION {collect_die_vars(dies, k, pc) : k \in all}
<1>1. UnitVars(found, dies, unit, pc) = IF more # {} THEN more ELSE rest
  BY DEF UnitVars
<1>2. \A k : collect_die_vars(dies, k, pc) \subseteq DOMAIN dies
  BY DEF collect_die_vars
<1>3. rest \subseteq DOMAIN dies
  BY <1>2
<1>4. found \subseteq DOMAIN dies => more \subseteq DOMAIN dies
  BY <1>2
<1>5. found \subseteq more /\ (sub # NoDie => collect_die_vars(dies, sub, pc) \subseteq more)
  OBVIOUS
<1> HIDE DEF more, rest, sub
<1>6. more \subseteq UnitVars(found, dies, unit, pc)
  BY <1>1
<1>7. found \subseteq DOMAIN dies => UnitVars(found, dies, unit, pc) \subseteq DOMAIN dies
  BY <1>1, <1>3, <1>4
<1> QED BY <1>5, <1>6, <1>7 DEF sub

\* What is found in a file is found unit by unit, in an order nothing is lost in.
LEMMA FoundExists ==
    ASSUME NEW units \in Nat, NEW dies, NEW pc
    PROVE  \E found : /\ found \in [0 .. units -> SUBSET DOMAIN dies]
                      /\ found[0] = {}
                      /\ \A u \in 1 .. units : found[u] = UnitVars(found[u - 1], dies, u, pc)
                      /\ variables_in_scope(dies, units, pc) = append_unique_var(found[units], dies)
<1> DEFINE K == 0 .. units
           V == SUBSET DOMAIN dies
           R == {0}
           p == [u \in K |-> u - 1]
           base == [u \in K |-> {}]
           step == [x \in K \X V |-> UnitVars(x[2], dies, x[1], pc)]
           UnitValue(g, u) == IF u = 0 THEN {} ELSE UnitVars(g[u - 1], dies, u, pc)
           Eq(g) == g = [u \in K |-> UnitValue(g, u)]
<1>1. Recursion(units, K, V, R, p, base, step)
  <2>1. p \in [K -> Int] /\ \A k \in K \ R : p[k] \in K /\ p[k] < k
    OBVIOUS
  <2>2. base \in [K -> V]
    OBVIOUS
  <2>3. step \in [K \X V -> V]
    <3>1. ASSUME NEW x \in K \X V PROVE UnitVars(x[2], dies, x[1], pc) \in V
      BY UnitAdds
    <3> HIDE DEF K, V
    <3> QED BY <3>1
  <2> HIDE DEF V, R, p, base, step
  <2> QED BY <2>1, <2>2, <2>3 DEF Recursion
<1>2. PICK f \in [K -> V] : \A k \in K : f[k] = IF k \in R THEN base[k] ELSE step[<<k, f[p[k]]>>]
  <2> HIDE DEF K, V, R, p, base, step
  <2> QED BY <1>1, RecursionExists
<1>3. ASSUME NEW g, Eq(g) PROVE \A u \in K : g[u] = UnitValue(g, u)
  <2> HIDE DEF K, UnitValue
  <2> QED BY <1>3
<1>4. ASSUME NEW u \in K PROVE f[u] = UnitValue(f, u)
  <2>1. CASE u = 0
    BY <2>1, <1>2
  <2>2. CASE u # 0
    <3>1. u \notin R /\ p[u] = u - 1 /\ u - 1 \in K
      BY <2>2
    <3>2. <<u, f[u - 1]>> \in K \X V
      <4> HIDE DEF K, V
      <4> QED BY <3>1, <1>2
    <3>3. step[<<u, f[u - 1]>>] = UnitVars(f[u - 1], dies, u, pc)
      <4> HIDE DEF K, V
      <4> QED BY <3>2
    <3>4. f[u] = step[<<u, f[u - 1]>>]
      <4> HIDE DEF K, R, step, p
      <4> QED BY <3>1, <1>2
    <3> QED BY <3>3, <3>4, <2>2
  <2> QED BY <2>1, <2>2
<1>5. Eq(f)
  <2> HIDE DEF K, UnitValue
  <2> QED BY <1>2, <1>4
<1> DEFINE found == CHOOSE g : Eq(g)
<1>6. Eq(found)
  <2> HIDE DEF Eq
  <2> QED BY <1>5
<1>7. variables_in_scope(dies, units, pc) = append_unique_var(found[units], dies)
  BY DEF variables_in_scope
<1> HIDE DEF found
<1>8. \A u \in K : found[u] = UnitValue(found, u)
  BY <1>6, <1>3
<1>9. found[0] = {} /\ \A u \in 1 .. units : found[u] = UnitVars(found[u - 1], dies, u, pc)
  BY <1>8
<1> DEFINE S == {u \in Nat : u \in K => found[u] \in V}
<1>10. ASSUME NEW u \in Nat, \A m \in Nat : m < u => m \in S PROVE u \in S
  <2>1. CASE u = 0
    BY <2>1, <1>9
  <2>2. CASE u # 0 /\ u \in K
    <3>1. u - 1 \in Nat /\ u - 1 < u /\ u - 1 \in K /\ u \in 1 .. units
      BY <2>2
    <3>2. found[u - 1] \in V
      <4> HIDE DEF V, K
      <4> QED BY <3>1, <1>10
    <3>3. UnitVars(found[u - 1], dies, u, pc) \in V
      BY <3>2, UnitAdds
    <3> HIDE DEF V
    <3> QED BY <3>1, <3>3, <1>9
  <2> HIDE DEF V, K
  <2> QED BY <2>1, <2>2
<1>11. \A u \in K : found[u] \in V
  <2>1. Nat \subseteq S
    <3> HIDE DEF S
    <3> QED BY <1>10, SetInduction
  <2>2. K \subseteq Nat
    OBVIOUS
  <2> HIDE DEF V, K
  <2> QED BY <2>1, <2>2
<1>12. found \in [K -> V]
  <2> HIDE DEF V, K, UnitValue
  <2> QED BY <1>6, <1>11
<1> QED BY <1>7, <1>9, <1>12

\* What was found up to each unit of a file, from what was found before it.
FoundBy(found, units, dies, pc) ==
    \A u \in 1 .. units : found[u] = UnitVars(found[u - 1], dies, u, pc)

\* What is found in a unit is still there in the last one.
LEMMA FoundStays ==
    ASSUME NEW units \in Nat, NEW dies, NEW pc, NEW found, NEW u0 \in 1 .. units,
           FoundBy(found, units, dies, pc)
    PROVE  found[u0] \subseteq found[units]
<1> DEFINE S == {u \in Nat : u \in u0 .. units => found[u0] \subseteq found[u]}
<1>1. ASSUME NEW u \in Nat, \A m \in Nat : m < u => m \in S PROVE u \in S
  <2>1. CASE u = u0
    BY <2>1
  <2>2. CASE u # u0 /\ u \in u0 .. units
    <3>1. u - 1 \in Nat /\ u - 1 < u /\ u - 1 \in u0 .. units /\ u \in 1 .. units
      BY <2>2
    <3>2. found[u0] \subseteq found[u - 1]
      BY <3>1, <1>1
    <3>3. found[u - 1] \subseteq found[u]
      BY <3>1, UnitAdds DEF FoundBy
    <3> QED BY <3>2, <3>3
  <2> QED BY <2>1, <2>2
<1>2. Nat \subseteq S
  <2> HIDE DEF S
  <2> QED BY <1>1, SetInduction
<1>3. units \in Nat /\ units \in u0 .. units
  OBVIOUS
<1> QED BY <1>2, <1>3

\* Of the variables of one name one stays, so that no name is lost.
LEMMA NamesStay ==
    ASSUME NEW dies, NEW found, found \subseteq Nat, NEW k \in found
    PROVE  \E i \in append_unique_var(found, dies) : dies[i].name = dies[k].name
<1> DEFINE T == {j \in found : dies[j].name = dies[k].name}
<1>1. T \subseteq Nat /\ T # {}
  OBVIOUS
<1>2. PICK n \in T : \A j \in T : n <= j
  <2> HIDE DEF T
  <2> QED BY <1>1, LeastExists
<1>3. \A j \in found : dies[j].name = dies[n].name => n <= j
  BY <1>2
<1>4. n \in append_unique_var(found, dies)
  BY <1>2, <1>3 DEF append_unique_var
<1> QED BY <1>2, <1>4

\* Every named variable of the function at the address whose blocks contain it is
\* listed, by name, and in a single unit nothing else but what inlined calls and
\* an empty function let through (collect_die_vars, variables_in_scope), for
\* every tree of DIEs.
THEOREM ScopeCompleteAlways == Spec => []ScopeComplete
<1>1. ASSUME AnswerInv PROVE ScopeComplete
  <2> DEFINE dies == question.dies
             pc == question.pc
             units == question.units
             up == Around(dies)
             functions == {k \in DOMAIN dies : dies[k].tag \in {"subprogram", "inlined"}
                                               /\ Covers(dies[k], pc)}
             f == Greatest(functions)
             below == {k \in DOMAIN dies : dies[k].tag = "variable" /\ dies[k].name # "" /\ f \in up[k]}
             visible == {k \in below : \A j \in up[k] \ up[f] : Covers(dies[j], pc)}
             shown == {k \in below : \A j \in up[k] \ up[f] :
                                       Covers(dies[j], pc) \/ dies[j].tag = "inlined"}
  <2> SUFFICES ASSUME Answered("scope"), functions # {}
               PROVE  /\ {dies[k].name : k \in visible} \subseteq {dies[k].name : k \in Answer}
                      /\ units = 1 /\ shown # {} => Answer \subseteq shown
    BY DEF ScopeComplete
  <2>1. IsInfo(dies, units) /\ units \in Nat /\ pc \in Nat \ {0}
    BY <1>1, QuestionAssumption DEF AnswerInv, Answered
  <2>2. Answer = variables_in_scope(dies, units, pc)
    BY <1>1 DEF AnswerInv, Answer
  <2>3. functions = FunctionsAt(dies, pc)
    BY DEF FunctionsAt
  <2> HIDE DEF dies, pc, units
  <2>4. DOMAIN dies = 1 .. Len(dies) /\ Len(dies) \in Nat
    BY <2>1, InfoTyped
  <2>5. f \in functions /\ \A m \in functions : m <= f
    <3>1. functions \subseteq 1 .. Len(dies)
      BY <2>4
    <3> HIDE DEF functions
    <3> QED BY <3>1, <2>4, GreatestIsGreatest
  <2>6. f \in DOMAIN dies /\ dies[f].unit \in 1 .. units /\ f # NoDie
    <3>1. f \in DOMAIN dies
      BY <2>5
    <3> HIDE DEF f
    <3> QED BY <3>1, <2>1, <2>4, InfoTyped DEF NoDie
  <2> DEFINE own == collect_die_vars(dies, f, pc)
  <2>7. own = shown
    <3>1. /\ own \subseteq DOMAIN dies
          /\ \A k \in DOMAIN dies :
               k \in own <=>
                 /\ dies[k].tag = "variable" /\ dies[k].name # "" /\ f \in up[k]
                 /\ \A j \in up[k] \ up[f] : Covers(dies[j], pc) \/ dies[j].tag = "inlined"
      <4> HIDE DEF f, functions
      <4>1. f \in FunctionsAt(dies, pc) /\ \A m \in FunctionsAt(dies, pc) : m <= f
        BY <2>3, <2>5
      <4> QED BY <2>1, <4>1, ShownAreCollected
    <3> HIDE DEF f, own, up
    <3> QED BY <3>1
  <2>8. getSubroutineForAddress(dies, dies[f].unit, pc) = f
    <3> HIDE DEF f, functions
    <3> QED BY <2>1, <2>3, <2>5, SubroutineIsInnermost
  <2>9. PICK found : /\ found \in [0 .. units -> SUBSET DOMAIN dies]
                     /\ found[0] = {}
                     /\ \A u \in 1 .. units : found[u] = UnitVars(found[u - 1], dies, u, pc)
                     /\ Answer = append_unique_var(found[units], dies)
    BY <2>1, <2>2, FoundExists
  <2> HIDE DEF f, functions, own, shown, visible
  <2>10. own \subseteq found[units]
    <3>1. own \subseteq found[dies[f].unit]
      <4> DEFINE u == dies[f].unit
      <4>1. own \subseteq UnitVars(found[u - 1], dies, u, pc)
        BY <2>6, <2>8, UnitAdds DEF own
      <4> QED BY <4>1, <2>6, <2>9
    <3>2. found[dies[f].unit] \subseteq found[units]
      <4>1. FoundBy(found, units, dies, pc)
        BY <2>9 DEF FoundBy
      <4> QED BY <4>1, <2>1, <2>6, FoundStays
    <3> QED BY <3>1, <3>2
  <2>11. {dies[k].name : k \in visible} \subseteq {dies[k].name : k \in Answer}
    <3>1. visible \subseteq own
      BY <2>7 DEF visible, shown
    <3>2. found[units] \subseteq Nat
      BY <2>1, <2>4, <2>9
    <3>3. ASSUME NEW k \in visible PROVE \E i \in Answer : dies[i].name = dies[k].name
      <4>1. k \in found[units]
        BY <3>1, <2>10
      <4> QED BY <4>1, <3>2, <2>9, NamesStay
    <3> QED BY <3>3
  <2>12. ASSUME units = 1, shown # {} PROVE Answer \subseteq shown
    <3>1. dies[f].unit = 1 /\ units \in 1 .. units /\ units - 1 = 0
      BY <2>6, <2>12
    <3>2. found[units] = UnitVars({}, dies, 1, pc)
      BY <3>1, <2>9, <2>12
    <3>3. getSubroutineForAddress(dies, 1, pc) = f
      BY <3>1, <2>8
    <3>4. UnitVars({}, dies, 1, pc) = own
      <4>1. own # {}
        BY <2>7, <2>12
      <4>2. {} \cup (IF f = NoDie THEN {} ELSE own) = own
        BY <2>6
      <4> QED BY <4>1, <4>2, <3>3 DEF UnitVars, own
    <3>5. Answer \subseteq found[units]
      BY <2>9 DEF append_unique_var
    <3> QED BY <3>2, <3>4, <3>5, <2>7
  <2> QED BY <2>11, <2>12
<1> QED BY <1>1, AnswerInvAlways, PTL

-----------------------------------------------------------------------------
(* Command lines.                                                          *)

\* What parse_arguments() works with: strings, among them those that the provers do
\* not know to be strings, and the numbers its members can hold.
Text == STRING \cup {None, "--", "cpu"}
NumberValues == {0} \cup {Narrow(f, Number[a]) : f \in Numbers, a \in DOMAIN Number}
ArgsType ==
    [host_binary : Text, host_args : Seq(Text), backend_name : Text, flags : SUBSET Flags,
     lists : [Lists -> Seq(Text)], numbers : [Numbers -> NumberValues], thrown : BOOLEAN]
StateType == [args : ArgsType, value : BOOLEAN, rest : BOOLEAN]

\* The fields that options set are of four kinds, and no argument sets none of them.
LEMMA FieldsApart ==
    /\ None \notin Flags /\ None \notin Valued
    /\ \A f \in Flags : f \notin Valued
    /\ \A f \in Lists : f \notin Numbers /\ f # "backend_name"
    /\ \A f \in Numbers : f \notin Lists /\ f # "backend_name"
    /\ "backend_name" \notin Lists
    /\ \A f : f \in Valued <=> f \in Lists \/ f \in Numbers \/ f = "backend_name"
    /\ Option("--") = None
<1>1. /\ None \notin Flags /\ None \notin Valued
      /\ \A f \in Flags : f \notin Valued
      /\ \A f \in Lists : f \notin Numbers /\ f # "backend_name"
      /\ \A f \in Numbers : f \notin Lists /\ f # "backend_name"
      /\ "backend_name" \notin Lists
  BY DEF None, Flags, Valued, Lists, Numbers
<1>2. \A f : f \in Valued <=> f \in Lists \/ f \in Numbers \/ f = "backend_name"
  BY DEF Valued
<1>3. Option("--") = None
  BY DEF None, Option
<1> QED BY <1>1, <1>2, <1>3

\* What an option with a value does: a list grows, a number or a name is replaced.
LEMMA TakeTyped ==
    ASSUME NEW args \in ArgsType, NEW field, NEW value \in Text
    PROVE  Take(args, field, value) \in ArgsType
<1>1. CASE field \in Lists
  <2>1. Append(args.lists[field], value) \in Seq(Text)
    BY <1>1 DEF ArgsType
  <2>2. Take(args, field, value) = [args EXCEPT !.lists[field] = Append(@, value)]
    BY <1>1, FieldsApart DEF Take
  <2> QED BY <1>1, <2>1, <2>2 DEF ArgsType
<1>2. CASE field \notin Lists /\ field = "backend_name"
  <2>1. Take(args, field, value) = [args EXCEPT !.backend_name = value]
    BY <1>2, FieldsApart DEF Take
  <2> QED BY <2>1 DEF ArgsType
<1>3. CASE field \notin Lists /\ field # "backend_name" /\ field \in Numbers /\ value \in DOMAIN Number
  <2>1. Narrow(field, Number[value]) \in NumberValues
    BY <1>3 DEF NumberValues
  <2>2. Take(args, field, value) = [args EXCEPT !.numbers[field] = Narrow(field, Number[value])]
    BY <1>3 DEF Take
  <2> QED BY <1>3, <2>1, <2>2 DEF ArgsType
<1>4. CASE /\ field \notin Lists /\ field # "backend_name"
           /\ ~(field \in Numbers /\ value \in DOMAIN Number)
  <2>1. Take(args, field, value) = [args EXCEPT !.thrown = TRUE]
    BY <1>4 DEF Take
  <2> QED BY <2>1 DEF ArgsType
<1> QED BY <1>1, <1>2, <1>3, <1>4

\* The host program, then its arguments.
LEMMA PositionalTyped ==
    ASSUME NEW args \in ArgsType, NEW arg \in Text
    PROVE  Positional(args, arg) \in ArgsType
<1>1. CASE args.host_binary = None
  BY <1>1 DEF Positional, ArgsType
<1>2. CASE args.host_binary # None
  <2>1. Append(args.host_args, arg) \in Seq(Text)
    BY DEF ArgsType
  <2>2. Positional(args, arg) = [args EXCEPT !.host_args = Append(@, arg)]
    BY <1>2 DEF Positional
  <2> QED BY <2>1, <2>2 DEF ArgsType
<1> QED BY <1>1, <1>2

\* The turn of the loop of parse_arguments() that skips the value of an option.
LEMMA SkipTurn ==
    ASSUME NEW s, NEW argv, NEW k, s.value
    PROVE  ParseOne(s, argv, k) = [s EXCEPT !.value = FALSE]
BY DEF ParseOne

\* The turn that sees "--" before the host program.
LEMMA DashesSeen ==
    ASSUME NEW s, NEW argv, NEW k, argv[k] = "--",
           ~(s.args.thrown \/ s.value), ~(s.rest \/ s.args.host_binary # None)
    PROVE  ParseOne(s, argv, k) = [s EXCEPT !.rest = TRUE]
<1>1. Option(argv[k]) \notin Flags /\ Option(argv[k]) \notin Valued
  BY FieldsApart
<1> QED BY <1>1 DEF ParseOne

\* The turn at an argument of the host program, or at the host program after "--".
LEMMA PositionalTurn ==
    ASSUME NEW s, NEW argv, NEW k,
           ~(s.args.thrown \/ s.value), s.rest \/ s.args.host_binary # None
    PROVE  ParseOne(s, argv, k) = [s EXCEPT !.args = Positional(s.args, argv[k])]
BY DEF ParseOne

\* A turn of the loop of parse_arguments(), for each kind of argument.
LEMMA TurnOfLoop ==
    ASSUME NEW s \in StateType, NEW argv \in Seq(Text), NEW k \in 1 .. Len(argv)
    PROVE  /\ s.args.thrown \/ s.value => ParseOne(s, argv, k) = [s EXCEPT !.value = FALSE]
           /\ ~s.args.thrown /\ ~s.value =>
                /\ s.rest \/ s.args.host_binary # None =>
                     ParseOne(s, argv, k) = [s EXCEPT !.args = Positional(s.args, argv[k])]
                /\ ~s.rest /\ s.args.host_binary = None =>
                     /\ Option(argv[k]) \in Flags =>
                          ParseOne(s, argv, k) = [s EXCEPT !.args.flags = @ \cup {Option(argv[k])}]
                     /\ Option(argv[k]) \in Valued /\ k < Len(argv) =>
                          ParseOne(s, argv, k) =
                            [s EXCEPT !.args = Take(s.args, Option(argv[k]), argv[k + 1]), !.value = TRUE]
                     /\ argv[k] = "--" => ParseOne(s, argv, k) = [s EXCEPT !.rest = TRUE]
                     /\ ~Dashed(argv[k]) /\ argv[k] # "--" =>
                          ParseOne(s, argv, k) = [s EXCEPT !.args = Positional(s.args, argv[k])]
<1> DEFINE field == Option(argv[k])
<1>1. \A f \in Flags : f \notin Valued
  BY FieldsApart
<1>2. argv[k] = "--" => field \notin Flags /\ field \notin Valued
  BY FieldsApart
<1>3. ~Dashed(argv[k]) => field \notin Flags /\ field \notin Valued
  BY FieldsApart DEF Dashed
<1>4. CASE s.args.thrown \/ s.value
  BY <1>4 DEF ParseOne
<1>5. CASE ~(s.args.thrown \/ s.value) /\ (s.rest \/ s.args.host_binary # None)
  BY <1>5 DEF ParseOne
<1>6. CASE ~(s.args.thrown \/ s.value) /\ ~(s.rest \/ s.args.host_binary # None)
  <2>1. field \in Flags => ParseOne(s, argv, k) = [s EXCEPT !.args.flags = @ \cup {field}]
    BY <1>1, <1>2, <1>6 DEF ParseOne
  <2>2. field \in Valued /\ k < Len(argv) =>
          ParseOne(s, argv, k) = [s EXCEPT !.args = Take(s.args, field, argv[k + 1]), !.value = TRUE]
    BY <1>1, <1>2, <1>6 DEF ParseOne
  <2>3. argv[k] = "--" => ParseOne(s, argv, k) = [s EXCEPT !.rest = TRUE]
    BY <1>2, <1>6 DEF ParseOne
  <2>4. ~Dashed(argv[k]) /\ argv[k] # "--" =>
          ParseOne(s, argv, k) = [s EXCEPT !.args = Positional(s.args, argv[k])]
    BY <1>3, <1>6 DEF ParseOne
  <2> QED BY <1>6, <2>1, <2>2, <2>3, <2>4
<1> QED BY <1>4, <1>5, <1>6

\* The loop keeps the types.
LEMMA ParseOneTyped ==
    ASSUME NEW s \in StateType, NEW argv \in Seq(Text), NEW k \in 1 .. Len(argv)
    PROVE  ParseOne(s, argv, k) \in StateType
<1> DEFINE field == Option(argv[k])
           positional == [s EXCEPT !.args = Positional(s.args, argv[k])]
<1>1. argv[k] \in Text /\ (k < Len(argv) => argv[k + 1] \in Text)
  OBVIOUS
<1>2. s.args \in ArgsType
  BY DEF StateType
<1>3. positional \in StateType
  <2>1. Positional(s.args, argv[k]) \in ArgsType
    BY <1>1, <1>2, PositionalTyped
  <2> QED BY <2>1 DEF StateType
<1>4. [s EXCEPT !.value = FALSE] \in StateType /\ [s EXCEPT !.rest = TRUE] \in StateType
  BY DEF StateType
<1>5. ASSUME field \in Flags PROVE [s EXCEPT !.args.flags = @ \cup {field}] \in StateType
  BY <1>5, <1>2 DEF StateType, ArgsType
<1>6. ASSUME k < Len(argv)
      PROVE  [s EXCEPT !.args = Take(s.args, field, argv[k + 1]), !.value = TRUE] \in StateType
  <2>1. Take(s.args, field, argv[k + 1]) \in ArgsType
    BY <1>1, <1>2, <1>6, TakeTyped
  <2> QED BY <2>1 DEF StateType
<1>7. \/ ParseOne(s, argv, k) = [s EXCEPT !.value = FALSE]
      \/ ParseOne(s, argv, k) = positional
      \/ field \in Flags /\ ParseOne(s, argv, k) = [s EXCEPT !.args.flags = @ \cup {field}]
      \/ /\ k < Len(argv)
         /\ ParseOne(s, argv, k) = [s EXCEPT !.args = Take(s.args, field, argv[k + 1]), !.value = TRUE]
      \/ ParseOne(s, argv, k) = [s EXCEPT !.rest = TRUE]
      \/ ParseOne(s, argv, k) = s
  <2>1. CASE s.args.thrown \/ s.value
    BY <2>1 DEF ParseOne
  <2>2. CASE ~(s.args.thrown \/ s.value) /\ (s.rest \/ s.args.host_binary # None)
    BY <2>2 DEF ParseOne
  <2>3. CASE ~(s.args.thrown \/ s.value) /\ ~(s.rest \/ s.args.host_binary # None)
    <3>1. CASE field \in Flags
      <4>1. ParseOne(s, argv, k) = [s EXCEPT !.args.flags = @ \cup {field}]
        BY <2>3, <3>1, FieldsApart DEF ParseOne
      <4> QED BY <4>1, <3>1
    <3>2. CASE field \in Valued /\ k < Len(argv)
      <4>1. ParseOne(s, argv, k) = [s EXCEPT !.args = Take(s.args, field, argv[k + 1]),
                                             !.value = TRUE]
        BY <2>3, <3>2, TurnOfLoop
      <4> QED BY <4>1, <3>2
    <3>3. CASE argv[k] = "--"
      <4>1. ParseOne(s, argv, k) = [s EXCEPT !.rest = TRUE]
        BY <2>3, <3>3, DashesSeen
      <4> QED BY <4>1
    <3>4. CASE field \notin Flags /\ ~(field \in Valued /\ k < Len(argv)) /\ argv[k] # "--"
      BY <2>3, <3>4 DEF ParseOne
    <3> QED BY <3>1, <3>2, <3>3, <3>4
  <2> QED BY <2>1, <2>2, <2>3
<1> HIDE DEF positional, field
<1> QED BY <1>3, <1>4, <1>5, <1>6, <1>7

\* The states of the loop, one after each argument.
Loop(after, argv) ==
    /\ after \in [0 .. Len(argv) -> StateType]
    /\ after[0] = Looking
    /\ \A k \in 1 .. Len(argv) : after[k] = ParseOne(after[k - 1], argv, k)

\* parse_arguments() returns what its loop ends with.
LEMMA LoopExists ==
    ASSUME NEW argv \in Seq(Text)
    PROVE  \E after : Loop(after, argv) /\ parse_arguments(argv) = after[Len(argv)].args
<1> DEFINE N == Len(argv)
           step == [x \in (1 .. N) \X StateType |-> ParseOne(x[2], argv, x[1])]
           Turn(g, k) == IF k = 0 THEN Looking ELSE ParseOne(g[k - 1], argv, k)
           Eq(g) == g = [k \in 0 .. N |-> Turn(g, k)]
<1>1. N \in Nat
  OBVIOUS
<1>2. Looking \in StateType
  <2>1. NoArgs \in ArgsType
    <3>1. <<>> \in Seq(Text)
      OBVIOUS
    <3> QED BY <3>1 DEF NoArgs, ArgsType, NumberValues, Text
  <2> QED BY <2>1 DEF Looking, StateType
<1>3. step \in [(1 .. N) \X StateType -> StateType]
  <2>1. ASSUME NEW x \in (1 .. N) \X StateType PROVE ParseOne(x[2], argv, x[1]) \in StateType
    BY ParseOneTyped
  <2> HIDE DEF N
  <2> QED BY <2>1
<1>4. PICK f \in [0 .. N -> StateType] :
        f[0] = Looking /\ \A k \in 1 .. N : f[k] = step[<<k, f[k - 1]>>]
  <2> HIDE DEF N, step
  <2>1. Turns(N, StateType, Looking, step)
    BY <1>1, <1>2, <1>3 DEF Turns
  <2> QED BY <2>1, TurnsExist
<1> HIDE DEF N
<1>5. Eq(f)
  <2>1. ASSUME NEW k \in 0 .. N PROVE f[k] = Turn(f, k)
    <3>1. CASE k = 0
      BY <3>1, <1>4
    <3>2. CASE k # 0
      <4>1. k \in 1 .. N /\ k - 1 \in 0 .. N
        BY <1>1, <3>2
      <4>2. <<k, f[k - 1]>> \in (1 .. N) \X StateType
        BY <4>1, <1>4
      <4>3. step[<<k, f[k - 1]>>] = ParseOne(f[k - 1], argv, k)
        BY <4>2
      <4> QED BY <4>1, <4>3, <1>4, <3>2
    <3> QED BY <3>1, <3>2
  <2> HIDE DEF Turn
  <2> QED BY <2>1, <1>4
<1> DEFINE after == CHOOSE g : Eq(g)
<1>6. Eq(after)
  <2> HIDE DEF Eq
  <2> QED BY <1>5
<1>7. parse_arguments(argv) = after[N].args
  BY DEF parse_arguments, N
<1> HIDE DEF after
<1>8. \A k \in 0 .. N : after[k] = Turn(after, k)
  <2> HIDE DEF Turn
  <2> QED BY <1>6
<1>9. after[0] = Looking /\ \A k \in 1 .. N : after[k] = ParseOne(after[k - 1], argv, k)
  BY <1>1, <1>8
<1> DEFINE S == {k \in 0 .. N : after[k] \in StateType}
<1>10. 0 .. N \subseteq S
  <2>1. 0 \in S
    BY <1>1, <1>2, <1>9
  <2>2. ASSUME NEW k \in 1 .. N, k - 1 \in S PROVE k \in S
    <3>1. ParseOne(after[k - 1], argv, k) \in StateType
      BY <2>2, ParseOneTyped DEF N
    <3> QED BY <3>1, <1>1, <1>9
  <2> HIDE DEF S
  <2>3. GoesOn(N, S)
    BY <1>1, <2>1, <2>2 DEF GoesOn
  <2> QED BY <2>3, UpToAll
<1>11. after \in [0 .. N -> StateType]
  <2> HIDE DEF Turn
  <2> QED BY <1>6, <1>10
<1> QED BY <1>7, <1>9, <1>11 DEF Loop, N

\* Options as strings: one for a flag, two for an option with a value.
LEMMA OptionsTyped ==
    ASSUME NEW line, IsCommandLine(line)
    PROVE  /\ Len(line.options) \in Nat /\ DOMAIN line.options = 1 .. Len(line.options)
           /\ line.options \in Seq(Seq(Text)) /\ line.host_args \in Seq(Text)
           /\ line.host \in Text /\ line.dashes \in BOOLEAN
           /\ \A i \in 1 .. Len(line.options) :
                /\ line.options[i] \in Seq(Text)
                /\ \/ Len(line.options[i]) = 1 /\ Option(line.options[i][1]) \in Flags
                   \/ /\ Len(line.options[i]) = 2 /\ Option(line.options[i][1]) \in Valued
                      /\ line.options[i][2] \in Text
<1>1. /\ line.options \in Seq(Seq(STRING)) /\ line.host_args \in Seq(STRING)
      /\ line.host \in STRING /\ line.dashes \in BOOLEAN
  BY DEF IsCommandLine
<1>2. \A i \in DOMAIN line.options :
        \/ Len(line.options[i]) = 1 /\ Option(line.options[i][1]) \in Flags
        \/ Len(line.options[i]) = 2 /\ Option(line.options[i][1]) \in Valued
  BY DEF IsCommandLine
<1>3. STRING \subseteq Text
  BY DEF Text
<1>4. Seq(STRING) \subseteq Seq(Text)
  <2>1. ASSUME NEW q \in Seq(STRING) PROVE q \in Seq(Text)
    <3>1. Len(q) \in Nat /\ q \in [1 .. Len(q) -> STRING]
      OBVIOUS
    <3>2. q \in [1 .. Len(q) -> Text]
      BY <1>3, <3>1
    <3> QED BY <3>1, <3>2
  <2> QED BY <2>1
<1>5. line.options \in Seq(Seq(Text))
  <2> DEFINE A == Seq(STRING)
             B == Seq(Text)
  <2> HIDE DEF A, B
  <2>1. A \subseteq B /\ line.options \in Seq(A)
    BY <1>1, <1>4 DEF A, B
  <2>2. line.options \in Seq(B)
    BY <2>1
  <2> QED BY <2>2 DEF B
<1>6. Len(line.options) \in Nat /\ DOMAIN line.options = 1 .. Len(line.options)
  <2> DEFINE B == Seq(Text)
  <2> HIDE DEF B
  <2>1. line.options \in Seq(B)
    BY <1>5 DEF B
  <2> QED BY <2>1
<1>7. ASSUME NEW i \in 1 .. Len(line.options) PROVE line.options[i] \in Seq(Text)
  <2> DEFINE B == Seq(Text)
  <2> HIDE DEF B
  <2>1. line.options \in Seq(B)
    BY <1>5 DEF B
  <2>2. line.options[i] \in B
    BY <2>1
  <2> QED BY <2>2 DEF B
<1>8. ASSUME NEW i \in 1 .. Len(line.options), Len(line.options[i]) = 2
      PROVE  line.options[i][2] \in Text
  BY <1>7, <1>8
<1> QED BY <1>1, <1>2, <1>3, <1>4, <1>5, <1>6, <1>7, <1>8

\* The arguments of the first options, one option after the other.
LEMMA FlatFacts ==
    ASSUME NEW options \in Seq(Seq(Text)), NEW flat, flat = Flat(options)
    PROVE  /\ flat \in [0 .. Len(options) -> Seq(Text)]
           /\ flat[0] = <<>>
           /\ \A i \in 1 .. Len(options) : flat[i] = flat[i - 1] \o options[i]
<1> DEFINE N == Len(options)
           V == Seq(Text)
           step == [x \in (1 .. N) \X V |-> x[2] \o options[x[1]]]
           Turn(g, i) == IF i = 0 THEN <<>> ELSE g[i - 1] \o options[i]
           Eq(g) == g = [i \in 0 .. N |-> Turn(g, i)]
<1>1. N \in Nat /\ <<>> \in V /\ (\A i \in 1 .. N : options[i] \in V)
  <2>1. <<>> \in V
    OBVIOUS
  <2> HIDE DEF V
  <2> QED BY <2>1 DEF V
<1>2. ASSUME NEW a \in V, NEW b \in V PROVE a \o b \in V
  OBVIOUS
<1> HIDE DEF N, V
<1>3. step \in [(1 .. N) \X V -> V]
  BY <1>1, <1>2
<1>4. PICK f \in [0 .. N -> V] : f[0] = <<>> /\ \A i \in 1 .. N : f[i] = step[<<i, f[i - 1]>>]
  <2> HIDE DEF step
  <2>1. Turns(N, V, <<>>, step)
    BY <1>1, <1>3 DEF Turns
  <2> QED BY <2>1, TurnsExist
<1>5. Eq(f)
  <2>1. ASSUME NEW i \in 0 .. N PROVE f[i] = Turn(f, i)
    <3>1. CASE i = 0
      BY <3>1, <1>4
    <3>2. CASE i # 0
      <4>1. i \in 1 .. N /\ i - 1 \in 0 .. N
        BY <1>1, <3>2
      <4>2. <<i, f[i - 1]>> \in (1 .. N) \X V
        BY <4>1, <1>4
      <4>3. step[<<i, f[i - 1]>>] = f[i - 1] \o options[i]
        BY <4>2
      <4> QED BY <4>1, <4>3, <1>4, <3>2
    <3> QED BY <3>1, <3>2
  <2> HIDE DEF Turn
  <2> QED BY <2>1, <1>4
<1>6. Eq(flat)
  <2>1. flat = CHOOSE g : Eq(g)
    BY DEF Flat, N
  <2> HIDE DEF Eq
  <2> QED BY <1>5, <2>1
<1>7. \A i \in 0 .. N : flat[i] = Turn(flat, i)
  <2> HIDE DEF Turn
  <2> QED BY <1>6
<1>8. flat[0] = <<>> /\ \A i \in 1 .. N : flat[i] = flat[i - 1] \o options[i]
  <2>1. flat[0] = Turn(flat, 0)
    <3>1. 0 \in 0 .. N
      BY <1>1
    <3> HIDE DEF Turn
    <3> QED BY <3>1, <1>7
  <2>2. ASSUME NEW i \in 1 .. N PROVE flat[i] = flat[i - 1] \o options[i]
    <3>1. i \in 0 .. N /\ i # 0
      BY <1>1
    <3>2. flat[i] = Turn(flat, i)
      <4> HIDE DEF Turn
      <4> QED BY <3>1, <1>7
    <3> QED BY <3>1, <3>2
  <2> QED BY <2>1, <2>2
<1> DEFINE S == {i \in 0 .. N : flat[i] \in V}
<1>9. 0 .. N \subseteq S
  <2>1. 0 \in S
    BY <1>1, <1>8
  <2>2. ASSUME NEW i \in 1 .. N, i - 1 \in S PROVE i \in S
    BY <1>1, <1>2, <1>8, <2>2
  <2> HIDE DEF S
  <2>3. GoesOn(N, S)
    BY <1>1, <2>1, <2>2 DEF GoesOn
  <2> QED BY <2>3, UpToAll
<1>10. flat \in [0 .. N -> V]
  <2> HIDE DEF Turn
  <2> QED BY <1>6, <1>9
<1> QED BY <1>8, <1>10 DEF N, V

\* The values of a field among the first options.
LEMMA ValuesFacts ==
    ASSUME NEW line, IsCommandLine(line), NEW field \in Valued,
           NEW upto, upto = Values(line, field)
    PROVE  /\ upto \in [0 .. Len(line.options) -> Seq(Text)]
           /\ upto[0] = <<>>
           /\ \A i \in 1 .. Len(line.options) :
                upto[i] = IF Option(line.options[i][1]) = field
                          THEN Append(upto[i - 1], line.options[i][2]) ELSE upto[i - 1]
<1> DEFINE N == Len(line.options)
           V == Seq(Text)
           Sets(i) == Option(line.options[i][1]) = field
           value(i) == line.options[i][2]
           step == [x \in (1 .. N) \X V |-> IF Sets(x[1]) THEN Append(x[2], value(x[1])) ELSE x[2]]
           Turn(g, i) == IF i = 0 THEN <<>>
                         ELSE IF Sets(i) THEN Append(g[i - 1], value(i)) ELSE g[i - 1]
           Eq(g) == g = [i \in 0 .. N |-> Turn(g, i)]
<1>1. N \in Nat /\ <<>> \in V /\ \A i \in 1 .. N : Sets(i) => value(i) \in Text
  <2>1. \A i \in 1 .. N : Sets(i) => value(i) \in Text
    BY OptionsTyped, FieldsApart
  <2>2. N \in Nat
    BY OptionsTyped
  <2>3. <<>> \in V
    OBVIOUS
  <2> QED BY <2>1, <2>2, <2>3
<1>2. ASSUME NEW a \in V, NEW b \in Text PROVE Append(a, b) \in V
  OBVIOUS
<1> HIDE DEF N, V, Sets, value
<1>3. step \in [(1 .. N) \X V -> V]
  BY <1>1, <1>2
<1>4. PICK f \in [0 .. N -> V] : f[0] = <<>> /\ \A i \in 1 .. N : f[i] = step[<<i, f[i - 1]>>]
  <2> HIDE DEF step
  <2>1. Turns(N, V, <<>>, step)
    BY <1>1, <1>3 DEF Turns
  <2> QED BY <2>1, TurnsExist
<1>5. Eq(f)
  <2>1. ASSUME NEW i \in 0 .. N PROVE f[i] = Turn(f, i)
    <3>1. CASE i = 0
      BY <3>1, <1>4
    <3>2. CASE i # 0
      <4>1. i \in 1 .. N /\ i - 1 \in 0 .. N
        BY <1>1, <3>2
      <4>2. <<i, f[i - 1]>> \in (1 .. N) \X V
        BY <4>1, <1>4
      <4>3. step[<<i, f[i - 1]>>] = IF Sets(i) THEN Append(f[i - 1], value(i)) ELSE f[i - 1]
        BY <4>2
      <4> QED BY <4>1, <4>3, <1>4, <3>2
    <3> QED BY <3>1, <3>2
  <2> HIDE DEF Turn
  <2> QED BY <2>1, <1>4
<1>6. Eq(upto)
  <2>1. upto = CHOOSE g : Eq(g)
    BY DEF Values, N, Sets, value
  <2> HIDE DEF Eq
  <2> QED BY <1>5, <2>1
<1>7. \A i \in 0 .. N : upto[i] = Turn(upto, i)
  <2> HIDE DEF Turn
  <2> QED BY <1>6
<1>8. /\ upto[0] = <<>>
      /\ \A i \in 1 .. N : upto[i] = IF Sets(i) THEN Append(upto[i - 1], value(i)) ELSE upto[i - 1]
  BY <1>1, <1>7
<1> DEFINE S == {i \in 0 .. N : upto[i] \in V}
<1>9. 0 .. N \subseteq S
  <2>1. 0 \in S
    BY <1>1, <1>8
  <2>2. ASSUME NEW i \in 1 .. N, i - 1 \in S PROVE i \in S
    BY <1>1, <1>2, <1>8, <2>2
  <2> HIDE DEF S
  <2>3. GoesOn(N, S)
    BY <1>1, <2>1, <2>2 DEF GoesOn
  <2> QED BY <2>3, UpToAll
<1>10. upto \in [0 .. N -> V]
  <2> HIDE DEF Turn
  <2> QED BY <1>6, <1>9
<1> QED BY <1>8, <1>10 DEF N, V, Sets, value

\* What the first options spell is where the command line begins.
LEMMA FlatGrows ==
    ASSUME NEW options \in Seq(Seq(Text)), NEW flat, flat = Flat(options),
           NEW i \in 0 .. Len(options)
    PROVE  /\ Len(flat[i]) <= Len(flat[Len(options)])
           /\ \A k \in 1 .. Len(flat[i]) : flat[Len(options)][k] = flat[i][k]
<1> DEFINE N == Len(options)
           Begins(a, b) == Len(a) <= Len(b) /\ \A k \in 1 .. Len(a) : b[k] = a[k]
           S == {m \in 0 .. N : i <= m => Begins(flat[i], flat[m])}
<1>1. /\ N \in Nat /\ (\A m \in 0 .. N : flat[m] \in Seq(Text))
      /\ \A m \in 1 .. N : flat[m] = flat[m - 1] \o options[m]
  <2>1. N \in Nat
    <3> DEFINE V == Seq(Text)
    <3> HIDE DEF V
    <3>1. options \in Seq(V)
      BY DEF V
    <3> QED BY <3>1
  <2> DEFINE W == Seq(Text)
  <2>2. flat \in [0 .. N -> W] /\ \A m \in 1 .. N : flat[m] = flat[m - 1] \o options[m]
    BY FlatFacts
  <2> HIDE DEF N, W
  <2>3. \A m \in 0 .. N : flat[m] \in W
    BY <2>2
  <2> QED BY <2>1, <2>2, <2>3 DEF W
<1>2. \A m \in 1 .. N : options[m] \in Seq(Text)
  <2> DEFINE V == Seq(Text)
  <2> HIDE DEF V
  <2>1. options \in Seq(V)
    BY DEF V
  <2>2. \A m \in 1 .. N : options[m] \in V
    BY <2>1
  <2> QED BY <2>2 DEF V
<1>3. ASSUME NEW a \in Seq(Text), NEW b \in Seq(Text), NEW c \in Seq(Text), Begins(a, b)
      PROVE  Begins(a, b \o c)
  BY <1>3
<1>4. ASSUME NEW a \in Seq(Text) PROVE Begins(a, a)
  OBVIOUS
<1> HIDE DEF N, Begins
<1>5. 0 \in S
  BY <1>1, <1>4 DEF N
<1>6. ASSUME NEW m \in 1 .. N, m - 1 \in S PROVE m \in S
  <2>1. m - 1 \in 0 .. N /\ m \in 0 .. N
    BY <1>1, <1>6
  <2>2. CASE i <= m - 1
    <3>1. Begins(flat[i], flat[m - 1])
      BY <1>6, <2>2
    <3>2. i \in 0 .. N
      BY DEF N
    <3>3. Begins(flat[i], flat[m - 1] \o options[m])
      BY <3>1, <3>2, <2>1, <1>1, <1>2, <1>3
    <3> QED BY <3>3, <2>1, <1>1
  <2>3. CASE ~(i <= m - 1)
    <3>1. i <= m => i = m
      BY <2>3, <2>1, <1>1 DEF N
    <3> QED BY <3>1, <2>1, <1>1, <1>4
  <2> QED BY <2>2, <2>3
<1>7. GoesOn(N, S)
  <2> HIDE DEF S
  <2> QED BY <1>1, <1>5, <1>6 DEF GoesOn
<1>8. N \in S
  <2> HIDE DEF S
  <2>1. N \in 0 .. N
    BY <1>1
  <2> QED BY <2>1, <1>7, UpToAll
<1>9. Begins(flat[i], flat[N])
  BY <1>8 DEF N
<1> QED BY <1>9 DEF Begins, N

\* The option i of a command line and its value in the arguments, after those that
\* the options before it take.
OptionAt(line, argv, i) ==
    LET flat == Flat(line.options)
        before == Len(flat[i - 1])
    IN /\ before \in Nat /\ Len(flat[i]) = before + Len(line.options[i])
       /\ Len(flat[i]) <= Len(argv)
       /\ argv[before + 1] = line.options[i][1]
       /\ Len(line.options[i]) = 2 => argv[before + 2] = line.options[i][2]

\* What follows the options: perhaps "--", then the host program and its arguments.
HostAt(line, argv, opts, host) ==
    /\ opts \in Nat /\ host = opts + (IF line.dashes THEN 1 ELSE 0)
    /\ line.dashes => argv[opts + 1] = "--"
    /\ line.host = None => Len(argv) = host
    /\ line.host # None =>
         /\ Len(argv) = host + 1 + Len(line.host_args)
         /\ argv[host + 1] = line.host
         /\ \A j \in 1 .. Len(line.host_args) : argv[host + 1 + j] = line.host_args[j]

\* One sequence after the other.
LEMMA Joined ==
    ASSUME NEW a \in Seq(Text), NEW b \in Seq(Text)
    PROVE  /\ a \o b \in Seq(Text) /\ Len(a) \in Nat /\ Len(b) \in Nat
           /\ Len(a \o b) = Len(a) + Len(b)
           /\ \A k \in 1 .. Len(a) : (a \o b)[k] = a[k]
           /\ \A k \in 1 .. Len(b) : (a \o b)[Len(a) + k] = b[k]
OBVIOUS

\* A command line as arguments: every option at its place, then the rest.
LEMMA Rendered ==
    ASSUME NEW line, IsCommandLine(line), NEW argv, argv = Render(line)
    PROVE  /\ argv \in Seq(Text)
           /\ \A i \in 1 .. Len(line.options) : OptionAt(line, argv, i)
           /\ LET opts == Len(Flat(line.options)[Len(line.options)])
              IN HostAt(line, argv, opts, opts + (IF line.dashes THEN 1 ELSE 0))
<1> DEFINE options == line.options
           N == Len(options)
           flat == Flat(options)
           dashes == IF line.dashes THEN <<"--">> ELSE <<>>
           host == IF line.host = None THEN <<>> ELSE <<line.host>> \o line.host_args
<1>1. /\ options \in Seq(Seq(Text)) /\ N \in Nat
      /\ line.host \in Text /\ line.host_args \in Seq(Text)
      /\ \A i \in 1 .. N : options[i] \in Seq(Text) /\ Len(options[i]) \in 1 .. 2
  BY OptionsTyped
<1>2. /\ \A i \in 0 .. N : flat[i] \in Seq(Text)
      /\ \A i \in 1 .. N : flat[i] = flat[i - 1] \o options[i]
  <2> DEFINE V == Seq(Text)
  <2>1. flat \in [0 .. N -> V] /\ \A i \in 1 .. N : flat[i] = flat[i - 1] \o options[i]
    BY <1>1, FlatFacts
  <2> HIDE DEF N, V, flat
  <2>2. \A i \in 0 .. N : flat[i] \in V
    BY <2>1
  <2> QED BY <2>1, <2>2 DEF V
<1>3. dashes \in Seq(Text) /\ host \in Seq(Text)
  <2>1. dashes \in Seq(Text)
    <3>1. "--" \in Text
      BY DEF Text
    <3> QED BY <3>1
  <2>2. host \in Seq(Text)
    BY <1>1
  <2> QED BY <2>1, <2>2
<1>4. argv = flat[N] \o dashes \o host
  BY DEF Render
<1>5. \A i \in 0 .. N : Len(flat[i]) <= Len(flat[N]) /\ \A k \in 1 .. Len(flat[i]) : flat[N][k] = flat[i][k]
  <2>1. options \in Seq(Seq(Text))
    BY <1>1
  <2> HIDE DEF options
  <2> QED BY <2>1, FlatGrows
<1> HIDE DEF N, flat, options
<1>6. flat[N] \in Seq(Text)
  <2>1. N \in 0 .. N
    BY <1>1
  <2> QED BY <2>1, <1>2
<1>7. argv \in Seq(Text)
  <2> HIDE DEF dashes, host
  <2> QED BY <1>3, <1>4, <1>6
<1>8. ASSUME NEW i \in 1 .. N PROVE OptionAt(line, argv, i)
  <2>1. /\ flat[i - 1] \in Seq(Text) /\ flat[i] \in Seq(Text) /\ options[i] \in Seq(Text)
        /\ flat[i] = flat[i - 1] \o options[i]
        /\ Len(options[i]) \in 1 .. 2
    <3>1. i \in 0 .. N /\ i - 1 \in 0 .. N
      BY <1>1
    <3> QED BY <3>1, <1>1, <1>2
  <2> DEFINE a == flat[i - 1]
             b == options[i]
  <2>2. Len(flat[i]) = Len(flat[i - 1]) + Len(options[i])
    BY <2>1, Joined
  <2>3. /\ Len(flat[i]) <= Len(flat[N])
        /\ \A k \in 1 .. Len(flat[i]) : flat[N][k] = flat[i][k]
    <3>1. i \in 0 .. N
      BY <1>1
    <3> QED BY <3>1, <1>5
  <2>4. Len(flat[N]) <= Len(argv) /\ \A k \in 1 .. Len(flat[N]) : argv[k] = flat[N][k]
    <3> HIDE DEF dashes, host
    <3> QED BY <1>3, <1>4, <1>6
  <2>5. flat[i][Len(flat[i - 1]) + 1] = options[i][1]
    <3>1. 1 \in 1 .. Len(b)
      <4>1. Len(b) \in 1 .. 2
        BY <1>1
      <4> HIDE DEF b
      <4> QED BY <4>1
    <3> HIDE DEF a, b
    <3>2. (a \o b)[Len(a) + 1] = b[1]
      BY <2>1, <3>1, Joined DEF a, b
    <3> QED BY <2>1, <3>2 DEF a, b
  <2>6. Len(options[i]) = 2 => flat[i][Len(flat[i - 1]) + 2] = options[i][2]
    <3> SUFFICES ASSUME Len(options[i]) = 2 PROVE flat[i][Len(flat[i - 1]) + 2] = options[i][2]
      OBVIOUS
    <3>1. 2 \in 1 .. Len(b)
      BY <2>1
    <3> HIDE DEF a, b
    <3>2. (a \o b)[Len(a) + 2] = b[2]
      BY <2>1, <3>1, Joined DEF a, b
    <3> QED BY <2>1, <3>2 DEF a, b
  <2>7. Len(flat[i - 1]) \in Nat /\ Len(flat[i]) \in Nat /\ Len(flat[N]) \in Nat
    BY <2>1, <1>6, Joined
  <2> HIDE DEF a, b
  <2>8. argv[Len(flat[i - 1]) + 1] = options[i][1]
    <3> DEFINE before == Len(flat[i - 1])
               length == Len(options[i])
    <3>1. before + 1 \in 1 .. Len(flat[i])
      <4>1. length \in 1 .. 2 /\ Len(flat[i]) = before + length /\ before \in Nat
        BY <2>1, <2>2, <2>7
      <4> HIDE DEF before, length
      <4> QED BY <4>1
    <3>2. Len(flat[i - 1]) + 1 \in 1 .. Len(flat[N])
      BY <3>1, <2>3, <2>7
    <3> QED BY <3>1, <3>2, <2>3, <2>4, <2>5
  <2>9. Len(options[i]) = 2 => argv[Len(flat[i - 1]) + 2] = options[i][2]
    <3> SUFFICES ASSUME Len(options[i]) = 2 PROVE argv[Len(flat[i - 1]) + 2] = options[i][2]
      OBVIOUS
    <3>1. Len(flat[i - 1]) + 2 \in 1 .. Len(flat[i])
      BY <2>2, <2>7
    <3>2. Len(flat[i - 1]) + 2 \in 1 .. Len(flat[N])
      BY <3>1, <2>3, <2>7
    <3> QED BY <3>1, <3>2, <2>3, <2>4, <2>6
  <2>10. Len(flat[i]) <= Len(argv)
    <3>1. Len(argv) \in Nat
      BY <1>7
    <3> QED BY <3>1, <2>3, <2>4, <2>7
  <2> QED BY <2>2, <2>7, <2>8, <2>9, <2>10 DEF OptionAt, flat, options
<1>9. LET opts == Len(flat[N]) IN HostAt(line, argv, opts, opts + (IF line.dashes THEN 1 ELSE 0))
  <2> DEFINE opts == Len(flat[N])
             more == IF line.dashes THEN 1 ELSE 0
             front == flat[N] \o dashes
  <2>1. opts \in Nat /\ more \in Nat
    BY <1>6
  <2>2. front \in Seq(Text) /\ Len(front) = opts + more
    <3>1. Len(dashes) = more
      OBVIOUS
    <3> HIDE DEF dashes, more
    <3> QED BY <1>3, <1>6, <3>1
  <2>3. line.dashes => argv[opts + 1] = "--"
    <3> SUFFICES ASSUME line.dashes PROVE argv[opts + 1] = "--"
      OBVIOUS
    <3>1. dashes = <<"--">> /\ Len(dashes) = 1 /\ dashes[1] = "--"
      OBVIOUS
    <3> HIDE DEF dashes
    <3>2. front[opts + 1] = "--" /\ Len(front) = opts + 1
      BY <3>1, <1>3, <1>6, <2>1
    <3> HIDE DEF front, host, opts
    <3>3. opts + 1 \in 1 .. Len(front)
      BY <3>2, <2>1
    <3>4. argv = front \o host
      BY <1>4 DEF front
    <3>5. argv[opts + 1] = front[opts + 1]
      BY <3>3, <3>4, <2>2, <1>3
    <3> QED BY <3>2, <3>5
  <2>4. Len(argv) = opts + more + Len(host)
        /\ \A k \in 1 .. Len(host) : argv[opts + more + k] = host[k]
    <3>1. argv = front \o host
      BY <1>4
    <3> HIDE DEF front, host, more, opts
    <3>2. Len(argv) = Len(front) + Len(host)
      BY <3>1, <1>3, <2>2, Joined
    <3>3. \A k \in 1 .. Len(host) : argv[Len(front) + k] = host[k]
      BY <3>1, <1>3, <2>2, Joined
    <3> QED BY <3>2, <3>3, <2>2
  <2>5. line.host = None => Len(host) = 0
    OBVIOUS
  <2>6. line.host # None =>
          /\ Len(host) = 1 + Len(line.host_args) /\ host[1] = line.host
          /\ \A j \in 1 .. Len(line.host_args) : host[1 + j] = line.host_args[j]
    <3> SUFFICES ASSUME line.host # None
                 PROVE  /\ Len(host) = 1 + Len(line.host_args) /\ host[1] = line.host
                        /\ \A j \in 1 .. Len(line.host_args) : host[1 + j] = line.host_args[j]
      OBVIOUS
    <3>1. host = <<line.host>> \o line.host_args
      OBVIOUS
    <3> HIDE DEF host
    <3> QED BY <3>1, <1>1
  <2> HIDE DEF host, opts
  <2>7. line.host = None => Len(argv) = opts + more
    BY <2>1, <2>4, <2>5
  <2>8. line.host # None =>
          /\ Len(argv) = opts + more + 1 + Len(line.host_args)
          /\ argv[opts + more + 1] = line.host
          /\ \A j \in 1 .. Len(line.host_args) : argv[opts + more + 1 + j] = line.host_args[j]
    <3> SUFFICES ASSUME line.host # None
                 PROVE  /\ Len(argv) = opts + more + 1 + Len(line.host_args)
                        /\ argv[opts + more + 1] = line.host
                        /\ \A j \in 1 .. Len(line.host_args) :
                             argv[opts + more + 1 + j] = line.host_args[j]
      OBVIOUS
    <3>1. Len(line.host_args) \in Nat
      BY <1>1
    <3> DEFINE rest == Len(line.host_args)
    <3>2. Len(argv) = opts + more + 1 + rest
      <4>1. Len(argv) = opts + more + Len(host) /\ Len(host) = 1 + rest /\ rest \in Nat
        BY <3>1, <2>4, <2>6
      <4> HIDE DEF rest, more
      <4> QED BY <4>1, <2>1
    <3>3. argv[opts + more + 1] = line.host
      BY <3>1, <2>1, <2>4, <2>6
    <3>4. ASSUME NEW j \in 1 .. Len(line.host_args)
          PROVE  argv[opts + more + 1 + j] = line.host_args[j]
      <4>1. 1 + j \in 1 .. Len(host) /\ opts + more + 1 + j = opts + more + (1 + j)
        BY <3>1, <2>1, <2>6
      <4> QED BY <4>1, <2>4, <2>6
    <3> QED BY <3>2, <3>3, <3>4
  <2> HIDE DEF more
  <2>9. HostAt(line, argv, opts, opts + more)
    BY <2>1, <2>3, <2>7, <2>8 DEF HostAt, more
  <2> QED BY <2>9 DEF opts, more
<1> QED BY <1>7, <1>8, <1>9 DEF flat, options, N

\* What the first options of a command line have set.
FlagsUpTo(line, i) == {f \in Flags : \E j \in 1 .. i : Option(line.options[j][1]) = f}
NumberOf(values) == IF values = <<>> THEN 0 ELSE Number[LastOf(values, None)]
OptionsRead(line, args, i) ==
    /\ args.flags = FlagsUpTo(line, i)
    /\ \A l \in Lists : args.lists[l] = Values(line, l)[i]
    /\ args.backend_name = LastOf(Values(line, "backend_name")[i], "cpu")
    /\ \A n \in Numbers : args.numbers[n] = NumberOf(Values(line, n)[i])
NoHostRead(args) ==
    args \in ArgsType /\ args.host_binary = None /\ args.host_args = <<>> /\ ~args.thrown

\* The values of a field with one more option.
LEMMA ValuesGrow ==
    ASSUME NEW line, IsCommandLine(line), NEW i \in 1 .. Len(line.options), NEW field \in Valued
    PROVE  LET before == Values(line, field)[i - 1]
               now == Values(line, field)[i]
               value == line.options[i][2]
           IN /\ Option(line.options[i][1]) # field => now = before
              /\ Option(line.options[i][1]) = field =>
                   /\ now = Append(before, value)
                   /\ \A default : LastOf(now, default) = value
                   /\ now # <<>>
<1> DEFINE N == Len(line.options)
           W == Seq(Text)
           upto == Values(line, field)
           value == line.options[i][2]
           Sets == Option(line.options[i][1]) = field
<1>1. /\ upto \in [0 .. N -> W]
      /\ \A j \in 1 .. N : upto[j] = IF Option(line.options[j][1]) = field
                                     THEN Append(upto[j - 1], line.options[j][2]) ELSE upto[j - 1]
  BY ValuesFacts
<1>2. N \in Nat /\ (Sets => value \in Text)
  BY OptionsTyped, FieldsApart
<1> HIDE DEF upto
<1>3. upto[i] = IF Sets THEN Append(upto[i - 1], value) ELSE upto[i - 1]
  BY <1>1
<1>4. upto[i - 1] \in W
  <2>1. i - 1 \in 0 .. N
    BY <1>2
  <2> HIDE DEF N, W
  <2> QED BY <2>1, <1>1
<1> HIDE DEF Sets, value
<1>5. ASSUME NEW a \in W, NEW v \in Text
      PROVE  Append(a, v) # <<>> /\ \A default : LastOf(Append(a, v), default) = v
  BY DEF LastOf
<1>6. Sets => upto[i] = Append(upto[i - 1], value) /\ value \in Text
  BY <1>2, <1>3
<1>7. ~Sets => upto[i] = upto[i - 1]
  BY <1>3
<1> HIDE DEF W
<1>8. Sets => upto[i] # <<>> /\ \A default : LastOf(upto[i], default) = value
  BY <1>4, <1>5, <1>6
<1> QED BY <1>6, <1>7, <1>8 DEF upto, Sets, value

\* An option sets what it says and nothing else.
LEMMA OptionTakesEffect ==
    ASSUME NEW line, IsCommandLine(line), NEW i \in 1 .. Len(line.options),
           NEW args, NoHostRead(args), OptionsRead(line, args, i - 1),
           NEW field, field = Option(line.options[i][1]),
           NEW now, now = IF field \in Flags THEN [args EXCEPT !.flags = @ \cup {field}]
                          ELSE Take(args, field, line.options[i][2])
    PROVE  NoHostRead(now) /\ OptionsRead(line, now, i)
<1> DEFINE value == line.options[i][2]
           before(f) == Values(line, f)[i - 1]
           after(f) == Values(line, f)[i]
<1>1. \/ field \in Flags /\ field \notin Valued
      \/ field \in Valued /\ field \notin Flags /\ value \in Text
  BY OptionsTyped, FieldsApart
<1>2. \A f \in Valued :
        /\ field # f => after(f) = before(f)
        /\ field = f => /\ after(f) = Append(before(f), value)
                        /\ \A default : LastOf(after(f), default) = value
                        /\ after(f) # <<>>
  BY ValuesGrow
<1>3. \A f : f \in Valued <=> f \in Lists \/ f \in Numbers \/ f = "backend_name"
  BY FieldsApart
<1>4. FlagsUpTo(line, i) = FlagsUpTo(line, i - 1) \cup ({field} \cap Flags)
  <2>1. Len(line.options) \in Nat
    BY OptionsTyped
  <2>2. \A j : j \in 1 .. i <=> j \in 1 .. i - 1 \/ j = i
    BY <2>1
  <2>3. ASSUME NEW f
        PROVE  f \in FlagsUpTo(line, i) <=> f \in FlagsUpTo(line, i - 1) \/ (f = field /\ f \in Flags)
    BY <2>2 DEF FlagsUpTo
  <2> QED BY <2>3
<1> HIDE DEF after, before
<1>5. args \in ArgsType /\ NoHostRead(args)
  BY DEF NoHostRead
<1>6. /\ args.flags = FlagsUpTo(line, i - 1)
      /\ \A l \in Lists : args.lists[l] = before(l)
      /\ args.backend_name = LastOf(before("backend_name"), "cpu")
      /\ \A n \in Numbers : args.numbers[n] = NumberOf(before(n))
  BY DEF OptionsRead, before
<1>7. SUFFICES /\ NoHostRead(now)
               /\ now.flags = FlagsUpTo(line, i)
               /\ \A l \in Lists : now.lists[l] = after(l)
               /\ now.backend_name = LastOf(after("backend_name"), "cpu")
               /\ \A n \in Numbers : now.numbers[n] = NumberOf(after(n))
  BY DEF OptionsRead, after
<1> HIDE DEF value
<1>8. CASE field \in Flags
  <2>1. now = [args EXCEPT !.flags = @ \cup {field}]
    BY <1>8
  <2>2. now \in ArgsType
    BY <1>5, <1>8, <2>1 DEF ArgsType
  <2>3. \A f \in Valued : after(f) = before(f)
    BY <1>1, <1>2, <1>8
  <2>4. now.flags = FlagsUpTo(line, i)
    BY <1>4, <1>5, <1>6, <1>8, <2>1 DEF ArgsType
  <2>5. /\ now.lists = args.lists /\ now.backend_name = args.backend_name
        /\ now.numbers = args.numbers /\ now.host_binary = args.host_binary
        /\ now.host_args = args.host_args /\ now.thrown = args.thrown
    BY <1>5, <2>1 DEF ArgsType
  <2>6. NoHostRead(now)
    BY <1>5, <2>2, <2>5 DEF NoHostRead
  <2> QED BY <1>3, <1>6, <2>3, <2>4, <2>5, <2>6
<1>9. CASE field \in Valued
  <2>1. now = Take(args, field, value) /\ field \notin Flags /\ value \in Text
    BY <1>1, <1>9 DEF value
  <2>2. now \in ArgsType
    BY <1>5, <2>1, TakeTyped
  <2>3. FlagsUpTo(line, i) = FlagsUpTo(line, i - 1)
    BY <1>4, <2>1
  <2>4. CASE field \in Lists
    <3>1. now = [args EXCEPT !.lists[field] = Append(@, value)]
      BY <2>1, <2>4, FieldsApart DEF Take
    <3>2. /\ now.flags = args.flags /\ now.backend_name = args.backend_name
          /\ now.numbers = args.numbers /\ now.host_binary = args.host_binary
          /\ now.host_args = args.host_args /\ now.thrown = args.thrown
      BY <1>5, <3>1 DEF ArgsType
    <3>3. ASSUME NEW l \in Lists PROVE now.lists[l] = after(l)
      <4>1. now.lists[l] = IF l = field THEN Append(args.lists[l], value) ELSE args.lists[l]
        <5>1. DOMAIN args.lists = Lists
          BY <1>5 DEF ArgsType
        <5>2. now.lists = [args.lists EXCEPT ![field] = Append(@, value)]
          <6> DEFINE lists == [args.lists EXCEPT ![field] = Append(@, value)]
          <6>1. now = [args EXCEPT !.lists = lists]
            BY <3>1
          <6> HIDE DEF lists
          <6>2. now.lists = lists
            BY <1>5, <6>1 DEF ArgsType
          <6> QED BY <6>2 DEF lists
        <5> QED BY <5>1, <5>2, <2>4
      <4> QED BY <4>1, <1>2, <1>3, <1>6
    <3>4. \A f \in Numbers \cup {"backend_name"} : after(f) = before(f)
      <4>1. ASSUME NEW f \in Numbers \cup {"backend_name"} PROVE f # field /\ f \in Valued
        BY <2>4, <1>3, FieldsApart
      <4> QED BY <4>1, <1>2
    <3>5. NoHostRead(now)
      BY <1>5, <2>2, <3>2 DEF NoHostRead
    <3> QED BY <1>6, <2>3, <3>2, <3>3, <3>4, <3>5
  <2>5. CASE field = "backend_name"
    <3>1. now = [args EXCEPT !.backend_name = value]
      BY <2>1, <2>5, FieldsApart DEF Take
    <3>2. /\ now.flags = args.flags /\ now.lists = args.lists
          /\ now.numbers = args.numbers /\ now.host_binary = args.host_binary
          /\ now.host_args = args.host_args /\ now.thrown = args.thrown
          /\ now.backend_name = value
      BY <1>5, <3>1 DEF ArgsType
    <3>3. \A f \in Lists \cup Numbers : after(f) = before(f)
      <4>1. ASSUME NEW f \in Lists \cup Numbers PROVE f # field /\ f \in Valued
        BY <2>5, <1>3, FieldsApart
      <4> QED BY <4>1, <1>2
    <3>4. LastOf(after("backend_name"), "cpu") = value
      BY <1>2, <1>9, <2>5
    <3>5. NoHostRead(now)
      BY <1>5, <2>2, <3>2 DEF NoHostRead
    <3> QED BY <1>6, <2>3, <3>2, <3>3, <3>4, <3>5
  <2>6. CASE field \in Numbers
    <3>1. value \in DOMAIN Number /\ Narrow(field, Number[value]) = Number[value]
      <4>1. Len(line.options[i]) = 1 => field \in Flags
        BY OptionsTyped, FieldsApart, <2>1, <2>6
      <4> QED BY <4>1, <2>1, <2>6, OptionsTyped DEF IsCommandLine, value
    <3>2. now = [args EXCEPT !.numbers[field] = Number[value]]
      BY <2>1, <2>6, <3>1, FieldsApart DEF Take
    <3>3. /\ now.flags = args.flags /\ now.lists = args.lists
          /\ now.backend_name = args.backend_name /\ now.host_binary = args.host_binary
          /\ now.host_args = args.host_args /\ now.thrown = args.thrown
      BY <1>5, <3>2 DEF ArgsType
    <3>4. ASSUME NEW n \in Numbers PROVE now.numbers[n] = NumberOf(after(n))
      <4>1. now.numbers[n] = IF n = field THEN Number[value] ELSE args.numbers[n]
        BY <1>5, <2>6, <3>2 DEF ArgsType
      <4>2. n = field => NumberOf(after(n)) = Number[value]
        BY <1>2, <1>9 DEF NumberOf
      <4>3. n # field => after(n) = before(n)
        BY <1>2, <1>3
      <4> QED BY <4>1, <4>2, <4>3, <1>6
    <3>5. \A f \in Lists \cup {"backend_name"} : after(f) = before(f)
      <4>1. ASSUME NEW f \in Lists \cup {"backend_name"} PROVE f # field /\ f \in Valued
        BY <2>6, <1>3, FieldsApart
      <4> QED BY <4>1, <1>2
    <3>6. NoHostRead(now)
      BY <1>5, <2>2, <3>3 DEF NoHostRead
    <3> QED BY <1>6, <2>3, <3>3, <3>4, <3>5, <3>6
  <2> QED BY <1>3, <1>9, <2>4, <2>5, <2>6
<1> QED BY <1>1, <1>8, <1>9

\* The state of the loop after the first options: it looks for more.
Reading(line, s, i) ==
    /\ s \in StateType /\ ~s.value /\ ~s.rest
    /\ NoHostRead(s.args) /\ OptionsRead(line, s.args, i)

\* One option is read in one turn, or in two with its value.
LEMMA OptionTurns ==
    ASSUME NEW line, IsCommandLine(line), NEW argv \in Seq(Text), NEW after, Loop(after, argv),
           NEW i \in 1 .. Len(line.options), OptionAt(line, argv, i),
           Reading(line, after[Len(Flat(line.options)[i - 1])], i - 1)
    PROVE  Reading(line, after[Len(Flat(line.options)[i])], i)
<1> DEFINE before == Len(Flat(line.options)[i - 1])
           now == Len(Flat(line.options)[i])
           option == line.options[i]
           field == Option(option[1])
           s == after[before]
<1>1. /\ before \in Nat /\ now = before + Len(option) /\ now <= Len(argv)
      /\ argv[before + 1] = option[1] /\ (Len(option) = 2 => argv[before + 2] = option[2])
  BY DEF OptionAt
<1>2. /\ s \in StateType /\ ~s.value /\ ~s.rest /\ s.args.host_binary = None /\ ~s.args.thrown
      /\ NoHostRead(s.args) /\ OptionsRead(line, s.args, i - 1)
  BY DEF Reading, NoHostRead
<1>3. \/ Len(option) = 1 /\ field \in Flags
      \/ Len(option) = 2 /\ field \in Valued /\ field \notin Flags
  BY OptionsTyped, FieldsApart
<1>4. Len(argv) \in Nat
  OBVIOUS
<1>5. \A k \in 1 .. Len(argv) : after[k] = ParseOne(after[k - 1], argv, k)
  BY DEF Loop
<1>6. \A k \in 0 .. Len(argv) : after[k] \in StateType
  BY DEF Loop
<1>7. SUFFICES Reading(line, after[now], i)
  OBVIOUS
<1>8. s = after[before]
  OBVIOUS
<1> DEFINE args == IF field \in Flags THEN [s.args EXCEPT !.flags = @ \cup {field}]
                   ELSE Take(s.args, field, option[2])
<1>9. NoHostRead(args) /\ OptionsRead(line, args, i)
  BY <1>2, OptionTakesEffect
<1> HIDE DEF before, now, s, option
<1>10. CASE Len(option) = 1
  <2>1. now = before + 1 /\ now \in 1 .. Len(argv) /\ now - 1 = before
    BY <1>1, <1>4, <1>10
  <2>2. after[now] = ParseOne(s, argv, now) /\ after[now] \in StateType
    <3>1. now \in 0 .. Len(argv)
      BY <2>1, <1>4
    <3> QED BY <2>1, <3>1, <1>5, <1>6, <1>8
  <2>3. Option(argv[now]) = field /\ field \in Flags
    BY <2>1, <1>1, <1>3, <1>10
  <2>4. ParseOne(s, argv, now) = [s EXCEPT !.args.flags = @ \cup {field}]
    <3>1. ParseOne(s, argv, now) = [s EXCEPT !.args.flags = @ \cup {Option(argv[now])}]
      <4>1. Option(argv[now]) \in Flags
        BY <2>3
      <4> HIDE DEF field
      <4> QED BY <4>1, <1>2, FieldsApart DEF ParseOne
    <3> QED BY <3>1, <2>3
  <2>5. [s EXCEPT !.args.flags = @ \cup {field}] = [s EXCEPT !.args = args]
    BY <2>3
  <2>6. after[now].args = args /\ ~after[now].value /\ ~after[now].rest
    <3> HIDE DEF args
    <3> QED BY <2>2, <2>4, <2>5, <1>2 DEF StateType
  <2> QED BY <2>2, <2>6, <1>9 DEF Reading
<1>11. CASE Len(option) = 2
  <2> DEFINE mid == before + 1
  <2>1. /\ mid \in 1 .. Len(argv) /\ mid < Len(argv) /\ mid - 1 = before
        /\ now = mid + 1 /\ now \in 1 .. Len(argv) /\ now - 1 = mid
        /\ mid \in 0 .. Len(argv) /\ now \in 0 .. Len(argv) /\ mid + 1 = before + 2
    <3> DEFINE length == Len(argv)
    <3>1. before \in Nat /\ now = before + 2 /\ now <= length /\ length \in Nat
      BY <1>1, <1>4, <1>11
    <3> HIDE DEF length
    <3>2. /\ mid \in 1 .. length /\ mid < length /\ mid - 1 = before
          /\ now = mid + 1 /\ now \in 1 .. length /\ now - 1 = mid
          /\ mid \in 0 .. length /\ now \in 0 .. length /\ mid + 1 = before + 2
      BY <3>1
    <3> QED BY <3>2 DEF length
  <2>2. argv[mid] = option[1] /\ argv[mid + 1] = option[2]
    BY <2>1, <1>1, <1>11
  <2> HIDE DEF mid
  <2>3. /\ after[mid] = ParseOne(s, argv, mid) /\ after[mid] \in StateType
        /\ after[now] = ParseOne(after[mid], argv, now) /\ after[now] \in StateType
    BY <2>1, <1>5, <1>6, <1>8
  <2>4. Option(argv[mid]) = field /\ field \in Valued /\ field \notin Flags
    BY <2>2, <1>3, <1>11
  <2>5. ParseOne(s, argv, mid) = [s EXCEPT !.args = Take(s.args, field, option[2]), !.value = TRUE]
    BY <2>1, <2>2, <2>4, <1>2, TurnOfLoop
  <2>6. args = Take(s.args, field, option[2])
    BY <2>4
  <2> HIDE DEF args
  <2>7. after[mid].args = args /\ after[mid].value /\ ~after[mid].rest
    BY <2>3, <2>5, <2>6, <1>2 DEF StateType
  <2>8. after[now] = [after[mid] EXCEPT !.value = FALSE]
    <3> DEFINE t == after[mid]
    <3>1. t \in StateType /\ t.value /\ after[now] = ParseOne(t, argv, now)
      BY <2>3, <2>7
    <3> HIDE DEF t
    <3>2. ParseOne(t, argv, now) = [t EXCEPT !.value = FALSE]
      BY <3>1, SkipTurn
    <3> QED BY <3>1, <3>2 DEF t
  <2>9. after[now].args = args /\ ~after[now].value /\ ~after[now].rest
    BY <2>3, <2>7, <2>8 DEF StateType
  <2> QED BY <2>3, <2>9, <1>9 DEF Reading
<1> QED BY <1>3, <1>10, <1>11

\* The options of a command line are read one after the other.
LEMMA OptionsAreRead ==
    ASSUME NEW line, IsCommandLine(line), NEW argv, argv = Render(line),
           NEW after, Loop(after, argv)
    PROVE  LET N == Len(line.options)
           IN Reading(line, after[Len(Flat(line.options)[N])], N)
<1> DEFINE N == Len(line.options)
           flat == Flat(line.options)
           S == {i \in 0 .. N : Reading(line, after[Len(flat[i])], i)}
<1>1. argv \in Seq(Text) /\ \A i \in 1 .. N : OptionAt(line, argv, i)
  BY Rendered
<1>2. N \in Nat
  BY OptionsTyped
<1>3. 0 \in S
  <2>1. flat[0] = <<>>
    BY OptionsTyped, FlatFacts
  <2>2. Len(flat[0]) = 0
    <3> HIDE DEF flat
    <3> QED BY <2>1
  <2>3. after[0] = Looking /\ after[0] \in StateType
    <3>1. 0 \in 0 .. Len(argv)
      BY <1>1
    <3> QED BY <3>1 DEF Loop
  <2>4. \A f \in Valued : Values(line, f)[0] = <<>>
    BY ValuesFacts
  <2>5. FlagsUpTo(line, 0) = {}
    BY DEF FlagsUpTo
  <2>6. OptionsRead(line, NoArgs, 0)
    BY <2>4, <2>5, FieldsApart DEF OptionsRead, NoArgs, LastOf, NumberOf
  <2>7. NoArgs \in ArgsType /\ ~Looking.value /\ ~Looking.rest /\ Looking.args = NoArgs
    BY <2>3 DEF Looking, StateType
  <2>8. NoHostRead(NoArgs)
    BY <2>7 DEF NoHostRead, NoArgs
  <2>9. Reading(line, Looking, 0)
    BY <2>3, <2>6, <2>7, <2>8 DEF Reading
  <2> QED BY <1>2, <2>2, <2>3, <2>9
<1>4. ASSUME NEW i \in 1 .. N, i - 1 \in S PROVE i \in S
  <2>1. Reading(line, after[Len(flat[i])], i)
    BY <1>1, <1>4, OptionTurns
  <2>2. i \in 0 .. N
    BY <1>2
  <2> QED BY <2>1, <2>2
<1>5. N \in S
  <2> HIDE DEF S, N
  <2>1. GoesOn(N, S)
    BY <1>2, <1>3, <1>4 DEF GoesOn
  <2>2. N \in 0 .. N
    BY <1>2
  <2> QED BY <2>1, <2>2, UpToAll
<1> QED BY <1>5

\* The state of the loop after the first arguments of the host program.
FirstOf(q, j) == [k \in 1 .. j |-> q[k]]
Running(line, s, j) ==
    /\ s \in StateType /\ ~s.value /\ ~s.args.thrown
    /\ s.args.host_binary = line.host /\ s.args.host_args = FirstOf(line.host_args, j)
    /\ OptionsRead(line, s.args, Len(line.options))

\* Sequences, from nothing to the whole.
LEMMA FirstOfFacts ==
    ASSUME NEW q \in Seq(Text)
    PROVE  /\ FirstOf(q, 0) = <<>> /\ FirstOf(q, Len(q)) = q
           /\ \A j \in 1 .. Len(q) : FirstOf(q, j) = Append(FirstOf(q, j - 1), q[j])
<1>1. FirstOf(q, 0) = <<>>
  BY DEF FirstOf
<1>2. FirstOf(q, Len(q)) = q
  BY DEF FirstOf
<1>3. ASSUME NEW j \in 1 .. Len(q) PROVE FirstOf(q, j) = Append(FirstOf(q, j - 1), q[j])
  <2>1. FirstOf(q, j) \in Seq(Text) /\ Len(FirstOf(q, j)) = j
    BY DEF FirstOf
  <2>2. FirstOf(q, j - 1) \in Seq(Text) /\ Len(FirstOf(q, j - 1)) = j - 1
    BY DEF FirstOf
  <2>3. q[j] \in Text
    OBVIOUS
  <2>4. \A k \in 1 .. j : FirstOf(q, j)[k] = q[k]
    BY DEF FirstOf
  <2>5. \A k \in 1 .. j - 1 : FirstOf(q, j - 1)[k] = q[k]
    BY DEF FirstOf
  <2> DEFINE a == FirstOf(q, j)
             b == FirstOf(q, j - 1)
             v == q[j]
  <2>6. a \in Seq(Text) /\ Len(a) = j /\ a[j] = v /\ \A k \in 1 .. j - 1 : a[k] = b[k]
    BY <2>1, <2>4, <2>5
  <2> HIDE DEF a, b, v
  <2>7. Append(b, v) \in Seq(Text) /\ Len(Append(b, v)) = j
    BY <2>2, <2>3 DEF b, v
  <2>8. \A k \in 1 .. j : Append(b, v)[k] = a[k]
    BY <2>2, <2>3, <2>6 DEF b, v
  <2>9. a = Append(b, v)
    BY <2>6, <2>7, <2>8
  <2> QED BY <2>9 DEF a, b, v
<1> QED BY <1>1, <1>2, <1>3

\* The host program and its arguments change nothing that options set.
LEMMA HostSetsNoOption ==
    ASSUME NEW line, NEW i, NEW args \in ArgsType, OptionsRead(line, args, i)
    PROVE  /\ \A h : OptionsRead(line, [args EXCEPT !.host_binary = h], i)
           /\ \A h : OptionsRead(line, [args EXCEPT !.host_args = h], i)
<1>1. ASSUME NEW now, now.flags = args.flags, now.lists = args.lists,
             now.backend_name = args.backend_name, now.numbers = args.numbers
      PROVE  OptionsRead(line, now, i)
  BY <1>1 DEF OptionsRead
<1>2. ASSUME NEW h PROVE OptionsRead(line, [args EXCEPT !.host_binary = h], i)
  <2> DEFINE now == [args EXCEPT !.host_binary = h]
  <2>1. /\ now.flags = args.flags /\ now.lists = args.lists
        /\ now.backend_name = args.backend_name /\ now.numbers = args.numbers
    BY DEF ArgsType
  <2> HIDE DEF now
  <2>2. OptionsRead(line, now, i)
    BY <2>1, <1>1
  <2> QED BY <2>2 DEF now
<1>3. ASSUME NEW h PROVE OptionsRead(line, [args EXCEPT !.host_args = h], i)
  <2> DEFINE now == [args EXCEPT !.host_args = h]
  <2>1. /\ now.flags = args.flags /\ now.lists = args.lists
        /\ now.backend_name = args.backend_name /\ now.numbers = args.numbers
    BY DEF ArgsType
  <2> HIDE DEF now
  <2>2. OptionsRead(line, now, i)
    BY <2>1, <1>1
  <2> QED BY <2>2 DEF now
<1> QED BY <1>2, <1>3

\* After the options, and "--" if it is there, the host program is looked for.
LEMMA DashesTurn ==
    ASSUME NEW line, IsCommandLine(line), NEW argv \in Seq(Text), NEW after, Loop(after, argv),
           NEW opts, NEW host, HostAt(line, argv, opts, host),
           Reading(line, after[opts], Len(line.options))
    PROVE  /\ host \in 0 .. Len(argv) /\ after[host] \in StateType
           /\ ~after[host].value /\ after[host].rest = line.dashes
           /\ NoHostRead(after[host].args)
           /\ OptionsRead(line, after[host].args, Len(line.options))
<1> DEFINE s == after[opts]
<1>1. /\ s \in StateType /\ ~s.value /\ ~s.rest /\ s.args.host_binary = None /\ ~s.args.thrown
      /\ NoHostRead(s.args) /\ OptionsRead(line, s.args, Len(line.options))
  BY DEF Reading, NoHostRead
<1>2. opts \in Nat /\ host = opts + (IF line.dashes THEN 1 ELSE 0)
  BY DEF HostAt
<1>3. Len(argv) \in Nat /\ line.dashes \in BOOLEAN /\ Len(line.host_args) \in Nat
  <2>1. Len(argv) \in Nat
    OBVIOUS
  <2>2. line.host_args \in Seq(Text) /\ line.dashes \in BOOLEAN
    BY OptionsTyped
  <2> QED BY <2>1, <2>2
<1>4. host \in 0 .. Len(argv)
  <2> DEFINE rest == Len(line.host_args)
             length == Len(argv)
  <2>1. host \in Nat
    BY <1>2
  <2>2. length = host \/ length = host + 1 + rest
    BY DEF HostAt
  <2>3. length \in Nat /\ rest \in Nat
    BY <1>3
  <2> HIDE DEF rest, length
  <2> QED BY <2>1, <2>2, <2>3 DEF length
<1>5. CASE line.dashes
  <2>1. host = opts + 1 /\ host \in 1 .. Len(argv) /\ host - 1 = opts
    BY <1>2, <1>3, <1>4, <1>5
  <2>2. argv[host] = "--"
    BY <2>1, <1>5 DEF HostAt
  <2>3. after[host] = ParseOne(s, argv, host) /\ after[host] \in StateType
    BY <2>1, <1>4 DEF Loop
  <2> HIDE DEF s
  <2>4. ParseOne(s, argv, host) = [s EXCEPT !.rest = TRUE]
    BY <2>2, <1>1, DashesSeen
  <2>5. after[host].args = s.args /\ after[host].value = s.value /\ after[host].rest = TRUE
    BY <2>3, <2>4, <1>1 DEF StateType
  <2> QED BY <2>3, <2>5, <1>1, <1>4, <1>5
<1>6. CASE ~line.dashes
  <2>1. host = opts /\ after[host] = s
    BY <1>2, <1>6
  <2> HIDE DEF s
  <2> QED BY <2>1, <1>1, <1>3, <1>4, <1>6 DEF StateType
<1> QED BY <1>3, <1>5, <1>6

\* The host program is read in the next turn, whatever it is spelled like after "--".
LEMMA HostTurn ==
    ASSUME NEW line, IsCommandLine(line), NEW argv \in Seq(Text), NEW after, Loop(after, argv),
           NEW opts, NEW host, HostAt(line, argv, opts, host), line.host # None,
           Reading(line, after[opts], Len(line.options))
    PROVE  Running(line, after[host + 1], 0)
<1> DEFINE s == after[host]
           next == host + 1
<1>1. /\ host \in 0 .. Len(argv) /\ s \in StateType
      /\ ~s.value /\ s.rest = line.dashes
      /\ NoHostRead(s.args) /\ OptionsRead(line, s.args, Len(line.options))
  BY DashesTurn
<1>2. /\ s.args \in ArgsType /\ s.args.host_binary = None /\ s.args.host_args = <<>>
      /\ ~s.args.thrown
  BY <1>1 DEF NoHostRead
<1>3. line.host_args \in Seq(Text) /\ line.host \in Text /\ Len(line.host_args) \in Nat
  <2>1. line.host_args \in Seq(Text) /\ line.host \in Text
    BY OptionsTyped
  <2> QED BY <2>1
<1>4. next \in 1 .. Len(argv) /\ next \in 0 .. Len(argv) /\ next - 1 = host /\ argv[next] = line.host
  <2>1. Len(argv) = host + 1 + Len(line.host_args) /\ argv[next] = line.host
    BY DEF HostAt
  <2> DEFINE rest == Len(line.host_args)
             length == Len(argv)
  <2>2. length = host + 1 + rest /\ rest \in Nat /\ length \in Nat
    BY <2>1, <1>3
  <2>4. host \in Nat
    <3>1. \A h \in 0 .. length : h \in Nat
      BY <2>2
    <3> QED BY <3>1, <1>1
  <2> HIDE DEF rest, length
  <2>3. next \in 1 .. length /\ next \in 0 .. length /\ next - 1 = host
    BY <2>2, <2>4
  <2> QED BY <2>1, <2>3 DEF length
<1>5. after[next] = ParseOne(s, argv, next) /\ after[next] \in StateType
  <2> HIDE DEF next
  <2>1. after[next] = ParseOne(after[next - 1], argv, next)
    BY <1>4 DEF Loop
  <2> QED BY <2>1, <1>4 DEF Loop
<1> HIDE DEF s, next
<1>6. ParseOne(s, argv, next) = [s EXCEPT !.args = Positional(s.args, argv[next])]
  <2>1. CASE line.dashes
    <3>1. ~s.args.thrown /\ ~s.value /\ s.rest
      BY <2>1, <1>1, <1>2
    <3> QED BY <3>1 DEF ParseOne
  <2>2. CASE ~line.dashes
    <3>1. ~Dashed(argv[next]) /\ argv[next] # "--"
      BY <2>2, <1>4 DEF IsCommandLine
    <3> QED BY <3>1, <2>2, <1>1, <1>2, <1>4, TurnOfLoop
  <2> QED BY <2>1, <2>2
<1>7. Positional(s.args, argv[next]) = [s.args EXCEPT !.host_binary = line.host]
  BY <1>2, <1>4 DEF Positional
<1> DEFINE args == [s.args EXCEPT !.host_binary = line.host]
<1>8. after[next].args = args /\ ~after[next].value
  <2>1. after[next] = [s EXCEPT !.args = args]
    BY <1>5, <1>6, <1>7
  <2> HIDE DEF args
  <2> QED BY <2>1, <1>1 DEF StateType
<1>9. args.host_binary = line.host /\ args.host_args = <<>> /\ ~args.thrown
  BY <1>2 DEF ArgsType
<1>10. OptionsRead(line, args, Len(line.options))
  BY <1>1, <1>2, HostSetsNoOption
<1>11. FirstOf(line.host_args, 0) = <<>>
  BY <1>3, FirstOfFacts
<1> HIDE DEF args
<1>12. Running(line, after[next], 0)
  BY <1>5, <1>8, <1>9, <1>10, <1>11 DEF Running
<1> QED BY <1>12 DEF next

\* What follows the host program is its, also when it is spelled like an option.
LEMMA HostArgumentTurn ==
    ASSUME NEW line, IsCommandLine(line), line.host # None, NEW argv \in Seq(Text), NEW s \in StateType,
           NEW j \in 1 .. Len(line.host_args), Running(line, s, j - 1),
           NEW k \in 1 .. Len(argv), argv[k] = line.host_args[j],
           NEW now, now = ParseOne(s, argv, k)
    PROVE  Running(line, now, j)
<1>1. /\ ~s.value /\ ~s.args.thrown /\ s.args.host_binary = line.host
      /\ s.args.host_args = FirstOf(line.host_args, j - 1)
      /\ OptionsRead(line, s.args, Len(line.options))
      /\ s.args \in ArgsType
  BY DEF Running, StateType
<1>2. now = [s EXCEPT !.args = Positional(s.args, argv[k])] /\ now \in StateType
  <2>1. now \in StateType
    BY ParseOneTyped
  <2>2. s.args.host_binary # None
    BY <1>1
  <2> QED BY <2>1, <2>2, <1>1, PositionalTurn
<1> DEFINE args == [s.args EXCEPT !.host_args = FirstOf(line.host_args, j)]
<1>3. Positional(s.args, argv[k]) = args
  <2>1. FirstOf(line.host_args, j) = Append(s.args.host_args, argv[k])
    BY <1>1, OptionsTyped, FirstOfFacts
  <2>2. Positional(s.args, argv[k]) = [s.args EXCEPT !.host_args = Append(@, argv[k])]
    BY <1>1 DEF Positional
  <2> QED BY <2>1, <2>2
<1>4. /\ args.host_binary = line.host /\ args.host_args = FirstOf(line.host_args, j)
      /\ ~args.thrown
  BY <1>1 DEF ArgsType
<1>5. OptionsRead(line, args, Len(line.options))
  BY <1>1, HostSetsNoOption
<1> HIDE DEF args
<1>6. now.args = args /\ ~now.value
  BY <1>1, <1>2, <1>3 DEF StateType
<1> QED BY <1>2, <1>4, <1>5, <1>6 DEF Running

\* The command line that the loop of parse_arguments() has read at its end.
LEMMA CommandLineIsRead ==
    ASSUME NEW line, IsCommandLine(line), NEW args, args = parse_arguments(Render(line))
    PROVE  /\ args.host_binary = line.host /\ ~args.thrown
           /\ args.host_args = IF line.host = None THEN <<>> ELSE line.host_args
           /\ OptionsRead(line, args, Len(line.options))
<1> DEFINE argv == Render(line)
           N == Len(line.options)
           H == Len(line.host_args)
           opts == Len(Flat(line.options)[N])
           host == opts + (IF line.dashes THEN 1 ELSE 0)
<1>1. argv \in Seq(Text) /\ HostAt(line, argv, opts, host)
  BY Rendered
<1>2. PICK after : Loop(after, argv) /\ args = after[Len(argv)].args
  BY <1>1, LoopExists
<1>3. Reading(line, after[opts], N)
  BY <1>2, OptionsAreRead
<1> HIDE DEF argv, opts, host
<1>4. CASE line.host = None
  <2>1. Len(argv) = host
    BY <1>1, <1>4 DEF HostAt
  <2>2. NoHostRead(after[host].args) /\ OptionsRead(line, after[host].args, N)
    BY <1>1, <1>2, <1>3, DashesTurn
  <2> QED BY <2>1, <2>2, <1>2, <1>4 DEF NoHostRead
<1>5. CASE line.host # None
  <2> DEFINE S == {j \in 0 .. H : Running(line, after[host + 1 + j], j)}
  <2>1. Len(argv) = host + 1 + H /\ \A j \in 1 .. H : argv[host + 1 + j] = line.host_args[j]
    BY <1>1, <1>5 DEF HostAt
  <2>2. H \in Nat /\ line.host_args \in Seq(Text)
    <3>1. line.host_args \in Seq(Text)
      BY OptionsTyped
    <3> QED BY <3>1
  <2>3. host \in Nat
    BY <1>1, <1>2, <1>3, DashesTurn
  <2>4. 0 \in S
    <3>1. Running(line, after[host + 1], 0)
      BY <1>1, <1>2, <1>3, <1>5, HostTurn
    <3>2. host + 1 + 0 = host + 1
      BY <2>3
    <3> QED BY <3>1, <3>2, <2>2
  <2>5. ASSUME NEW j \in 1 .. H, j - 1 \in S PROVE j \in S
    <3> DEFINE k == host + 1 + j
    <3>1. /\ k \in 1 .. Len(argv) /\ k \in 0 .. Len(argv) /\ k - 1 = host + 1 + (j - 1)
          /\ k - 1 \in 0 .. Len(argv) /\ j \in 0 .. H
      <4> HIDE DEF H
      <4> QED BY <2>1, <2>2, <2>3
    <3>2. argv[k] = line.host_args[j]
      BY <2>1
    <3>3. Running(line, after[k - 1], j - 1)
      BY <2>5, <3>1
    <3> HIDE DEF k
    <3>4. after[k - 1] \in StateType /\ after[k] = ParseOne(after[k - 1], argv, k)
      BY <3>1, <1>2 DEF Loop
    <3>5. Running(line, after[k], j)
      BY <1>1, <1>5, <3>1, <3>2, <3>3, <3>4, HostArgumentTurn
    <3> QED BY <3>1, <3>5 DEF k
  <2>6. H \in S
    <3> HIDE DEF S, H
    <3>1. GoesOn(H, S)
      BY <2>2, <2>4, <2>5 DEF GoesOn
    <3>2. H \in 0 .. H
      BY <2>2
    <3> QED BY <3>1, <3>2, UpToAll
  <2>7. Running(line, after[Len(argv)], H)
    BY <2>1, <2>6
  <2>8. FirstOf(line.host_args, H) = line.host_args
    BY <2>2, FirstOfFacts
  <2> QED BY <2>7, <2>8, <1>2, <1>5 DEF Running
<1> QED BY <1>4, <1>5

\* Every option of a command line takes effect, and what follows the host program is
\* the host program's (parse_arguments), for every command line.
THEOREM ParsesBackAlways == Spec => []ParsesBack
<1>1. ASSUME AnswerInv PROVE ParsesBack
  <2> DEFINE line == question.line
             N == Len(line.options)
             values(field) == Values(line, field)[N]
  <2> SUFFICES ASSUME Answered("arguments")
               PROVE  /\ Answer.host_binary = line.host
                      /\ Answer.host_args = IF line.host = None THEN <<>> ELSE line.host_args
                      /\ Answer.flags = Set(line) \cap Flags
                      /\ \A l \in Lists : Answer.lists[l] = values(l)
                      /\ Answer.backend_name = LastOf(values("backend_name"), "cpu")
                      /\ \A n \in Numbers :
                           Answer.numbers[n] =
                             IF values(n) = <<>> THEN 0 ELSE Number[LastOf(values(n), None)]
                      /\ ~Answer.thrown
    BY DEF ParsesBack
  <2>1. IsCommandLine(line)
    BY <1>1, QuestionAssumption DEF AnswerInv, Answered
  <2>2. Answer = parse_arguments(Render(line))
    BY <1>1 DEF AnswerInv, Answer
  <2> HIDE DEF line
  <2>3. /\ Answer.host_binary = line.host /\ ~Answer.thrown
        /\ Answer.host_args = IF line.host = None THEN <<>> ELSE line.host_args
        /\ OptionsRead(line, Answer, N)
    BY <2>1, <2>2, CommandLineIsRead
  <2>4. FlagsUpTo(line, N) = Set(line) \cap Flags
    <3>1. DOMAIN line.options = 1 .. N
      BY <2>1, OptionsTyped
    <3>2. ASSUME NEW g PROVE g \in FlagsUpTo(line, N) <=> g \in Set(line) \cap Flags
      BY <3>1 DEF FlagsUpTo, Set
    <3> QED BY <3>2
  <2> QED BY <2>3, <2>4 DEF OptionsRead, NumberOf
<1> QED BY <1>1, AnswerInvAlways, PTL
=============================================================================
