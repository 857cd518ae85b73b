------------------------------- MODULE Lookups -------------------------------
(***************************************************************************)
(* Questions that ocldbg answers from what it was given, without a running *)
(* program: what a command line asks for, where a breakpoint goes, which   *)
(* variables are in scope, where a variable's value is, and which thread a *)
(* listed work-item is.  Each state holds one question; a step answers it  *)
(* with the code's definitions, and the properties compare the answer with *)
(* what the question means.                                                *)
(***************************************************************************)
EXTENDS ProgramArgs, DWARFSourceModel, DWARFExpressions, WorkItems

CONSTANTS CommandLines, Breakpoints, Scopes, Locations, Stops,
          Layouts       \* the size and the elements' offsets of the types that can be read

\* A line table: the row that ends a sequence repeats the line of one before it,
\* at a higher address (DW_LNE_end_sequence adds a row with the registers as they
\* are, once the address has been advanced past the last instruction).
IsLineTable(rows) ==
    /\ rows \in Seq([address : Nat, line : Nat, file : Seq(STRING), end : BOOLEAN])
    /\ \A k \in DOMAIN rows : rows[k].end =>
         \E j \in DOMAIN rows : /\ ~rows[j].end /\ rows[j].address < rows[k].address
                               /\ rows[j].line = rows[k].line /\ rows[j].file = rows[k].file

\* The DIEs of a file: the parent of one comes before it, and is no variable.
IsInfo(dies, units) ==
    /\ dies \in Seq([tag : {"subprogram", "inlined", "block", "variable"}, name : STRING,
                     parent : Nat, lo : Nat, hi : Nat, unit : 1 .. units])
    /\ \A k \in DOMAIN dies :
         /\ dies[k].parent < k
         /\ dies[k].parent # NoDie => dies[dies[k].parent].tag # "variable"

\* A command line that can be read: every option is spelled as one and has a value
\* if it takes one, a number that its field can hold if it takes a number; the
\* host program is not spelled like an option, but after "--".
IsCommandLine(line) ==
    /\ line \in [options : Seq(Seq(STRING)), dashes : BOOLEAN, host : STRING,
                 host_args : Seq(STRING)]
    /\ \A i \in DOMAIN line.options :
         LET field == Option(line.options[i][1])
             value == line.options[i][2]
         IN \/ Len(line.options[i]) = 1 /\ field \in Flags
            \/ /\ Len(line.options[i]) = 2 /\ field \in Valued
               /\ field \in Numbers => /\ value \in DOMAIN Number
                                       /\ Narrow(field, Number[value]) = Number[value]
    /\ line.dashes \/ line.host = None \/ ~(Dashed(line.host) \/ line.host = "--")

\* What the registers and variables of a thread hold are words.
Sizes == [x : Nat, y : Nat, z : Nat]
Registers == [stopped : BOOLEAN, readable : BOOLEAN, group : Sizes,
              local_var : SUBSET Nat, global_var : SUBSET Nat, r10 : Nat, rsi : Nat]

ASSUME QuestionAssumption ==
    /\ \A q \in CommandLines : q.kind = "arguments" /\ IsCommandLine(q.line)
    /\ \A q \in Breakpoints : /\ q.kind = "breakpoint"
                              /\ q.loc \in [line : Nat, file : Seq(STRING)]
                              /\ IsLineTable(q.rows)
    /\ \A q \in Scopes : /\ q.kind = "scope" /\ q.units \in Nat /\ q.pc \in Nat \ {0}
                         /\ IsInfo(q.dies, q.units)
    /\ \A q \in Locations : q.kind = "location"
    /\ \A q \in Stops : /\ q.kind = "stop" /\ q.threads \in Seq(Registers)
                        /\ q.launch \in [known : BOOLEAN, local_size : Sizes]

VARIABLES question, answer
vars == <<question, answer>>

Unanswered == <<>>

Init ==
    /\ \/ question \in CommandLines
       \/ question \in Breakpoints
       \/ question \in Scopes
       \/ question \in Locations
       \/ question \in Stops
    /\ answer = Unanswered

Asked(kind) == question.kind = kind /\ answer = Unanswered /\ UNCHANGED question

\* A command line: options, each with its value if it takes one, perhaps "--",
\* then the host program and its arguments.
Flat(options) ==
    LET flat[i \in 0 .. Len(options)] == IF i = 0 THEN <<>> ELSE flat[i - 1] \o options[i]
    IN flat
Render(line) ==
    Flat(line.options)[Len(line.options)] \o (IF line.dashes THEN <<"--">> ELSE <<>>)
        \o (IF line.host = None THEN <<>> ELSE <<line.host>> \o line.host_args)
AnswerArguments ==
    /\ Asked("arguments")
    /\ answer' = <<parse_arguments(Render(question.line))>>

AnswerBreakpoint ==
    /\ Asked("breakpoint")
    /\ answer' = <<resolve_one_breakpoint(question.rows, question.loc)>>

AnswerScope ==
    /\ Asked("scope")
    /\ answer' = <<variables_in_scope(question.dies, question.units, question.pc)>>

\* The type of a variable: qualifiers around a base type, the innermost first.
TypeOf(base, quals) ==
    LET types == <<[tag |-> "base", to |-> NoDie, name |-> base]>>
                     \o [k \in DOMAIN quals |-> [tag |-> quals[k], to |-> k, name |-> <<>>]]
    IN type_names(types)[Len(types)]

\* A number in LEB128, in as many bytes as given.
Encoded(n, bytes) ==
    [k \in 1 .. bytes |-> [low |-> (n \div 2 ^ (Payload * (k - 1))) % 2 ^ Payload,
                           more |-> k < bytes]]
Expression(q) ==
    [op |-> q.op, reg |-> q.reg, operand |-> Encoded(q.number, q.bytes),
     stack_value |-> q.stack_value, length |-> q.length]
AnswerLocation ==
    /\ Asked("location")
    /\ answer' = <<eval_from_dwarf_expr(question.frame, Expression(question),
                                        TypeOf(question.base, question.quals))>>

\* The items listed at a stop, each with what selecting it comes to.
AnswerSelect ==
    /\ Asked("stop")
    /\ answer' = <<{[listed |-> wi, selected |-> select_work_item(question.threads, question.launch,
                                                                 question.tracker, wi.global_id)] :
                     wi \in list_stopped_work_items(question.threads, question.launch,
                                                    question.tracker)}>>

Next == AnswerArguments \/ AnswerBreakpoint \/ AnswerScope \/ AnswerLocation \/ AnswerSelect
Spec == Init /\ [][Next]_vars

(***************************************************************************)
(* Properties                                                              *)
(***************************************************************************)
Answered(kind) == question.kind = kind /\ answer # Unanswered
Answer == answer[1]

\* What the options of a command line set: the fields, and the values of a field
\* in their order.
Set(line) == {Option(line.options[i][1]) : i \in DOMAIN line.options}
Values(line, field) ==
    LET upto[i \in 0 .. Len(line.options)] ==
            IF i = 0 THEN <<>>
            ELSE IF Option(line.options[i][1]) = field THEN Append(upto[i - 1], line.options[i][2])
            ELSE upto[i - 1]
    IN upto
LastOf(values, default) == IF values = <<>> THEN default ELSE values[Len(values)]

\* Every option takes effect whatever value it has, repeated options keep their
\* order, and whatever follows the host program is the host program's, also
\* when it is spelled like an option of ocldbg or like "--".
ParsesBack ==
    Answered("arguments") =>
        LET line == question.line
            values(field) == Values(line, field)[Len(line.options)]
        IN
        /\ Answer.host_binary = line.host
        /\ Answer.host_args = IF line.host = None THEN <<>> ELSE line.host_args
        /\ Answer.flags = Set(line) \cap Flags
        /\ \A l \in Lists : Answer.lists[l] = values(l)
        /\ Answer.backend_name = LastOf(values("backend_name"), "cpu")
        /\ \A n \in Numbers :
             Answer.numbers[n] = IF values(n) = <<>> THEN 0 ELSE Number[LastOf(values(n), None)]
        /\ ~Answer.thrown

\* The rows of a table that a breakpoint may go to.
Code(q) == RowsOf(q.rows, q.loc.file)

\* A breakpoint on a line without code moves to the next line that has code in a
\* matching file, and to the first address of it; it resolves whenever there is
\* one.  When addresses have one line each, it is shown at the line it stops at,
\* and setting it again at that line leaves it where it is.  Lines count from 1.
BreakpointMovesForward ==
    (Answered("breakpoint") /\ question.loc.line > 0) =>
        LET line == question.loc.line
            there == {r \in Code(question) : r.address = Answer.address}
            single == \A j, k \in DOMAIN question.rows :
                        question.rows[j].address = question.rows[k].address => j = k
        IN /\ Answer.resolved <=> \E r \in Code(question) : r.line >= line
           /\ Answer.resolved =>
                \E r \in there :
                   /\ r.line >= line
                   /\ \A s \in Code(question) :
                        /\ s.line >= line => s.line >= r.line
                        /\ s.line = r.line => s.address >= r.address
           /\ (Answer.resolved /\ single) =>
                /\ \A r \in there : r.line = Answer.line
                /\ resolve_one_breakpoint(question.rows, [question.loc EXCEPT !.line = Answer.line])
                     = Answer

\* The DIEs around a DIE.
Around(dies) ==
    LET up[k \in DOMAIN dies] == IF dies[k].parent = NoDie THEN {}
                                 ELSE {dies[k].parent} \cup up[dies[k].parent]
    IN up

\* Every named variable of the function at the address whose blocks contain it is
\* listed, by name, whichever unit it is in.  In a single unit nothing else is,
\* but for the variables of inlined calls, which the code does not filter, and
\* for those of all functions when this one has none to show.
ScopeComplete ==
    Answered("scope") =>
        LET dies == question.dies
            pc == question.pc
            up == Around(dies)
            functions == {k \in DOMAIN dies : dies[k].tag \in {"subprogram", "inlined"}
                                              /\ Covers(dies[k], pc)}
            f == Greatest(functions)
            below == {k \in DOMAIN dies : dies[k].tag = "variable" /\ dies[k].name # "" /\ f \in up[k]}
            visible == {k \in below : \A j \in up[k] \ up[f] : Covers(dies[j], pc)}
            shown == {k \in below : \A j \in up[k] \ up[f] :
                                      Covers(dies[j], pc) \/ dies[j].tag = "inlined"}
        IN functions # {} =>
             /\ {dies[k].name : k \in visible} \subseteq {dies[k].name : k \in Answer}
             /\ question.units = 1 /\ shown # {} => Answer \subseteq shown

\* How a type is laid out: volatile and restrict do not matter, a pointer is a
\* pointer whatever it points to.  The code does not read a const value itself.
Layout(base, quals) ==
    LET plain == SelectSeq(quals, LAMBDA q : q \notin {"volatile", "restrict"})
        last == plain[Len(plain)]
        pointer == \E k \in DOMAIN plain :
                     plain[k] = "pointer" /\ \A j \in k + 1 .. Len(plain) : plain[j] = "const"
    IN CASE plain = <<>> -> Layouts[base]
         [] pointer      -> [size |-> 8, lanes |-> <<0>>]
         [] OTHER        -> [size |-> 0, lanes |-> <<>>]

\* What a location says of a variable whose layout is known.
InMemory(frame, addr, layout) ==
    IF addr .. addr + layout.size - 1 \subseteq frame.readable
    THEN Value("memory", addr, layout.size, layout.lanes) ELSE Unavailable
InRegister(frame, reg, layout) ==
    IF reg \in DOMAIN frame.regs /\ (Len(layout.lanes) > 1 => frame.regs[reg].bytes >= layout.size)
    THEN Value("register", reg, layout.size, layout.lanes) ELSE Unavailable
Meaning(q, layout) ==
    LET base == IF q.frame.fp = 0 THEN q.frame.sp ELSE q.frame.fp
    IN CASE q.op = "fbreg" -> InMemory(q.frame, Word(base + q.number), layout)
         [] q.op = "breg" /\ q.reg \notin DOMAIN q.frame.regs -> Unavailable
         [] q.op = "breg" /\ q.reg \in DOMAIN q.frame.regs /\ ~q.stack_value ->
                InMemory(q.frame, Word(q.frame.regs[q.reg].value + q.number), layout)
         [] q.op = "reg"  -> InRegister(q.frame, q.reg, layout)
         [] q.op = "regx" -> InRegister(q.frame, q.number, layout)
         [] q.op \in {"consts", "constu"} -> Value("number", Signed(Word(q.number)), 0, <<0>>)
         [] OTHER -> Answer

\* A value is what its location says, in whatever number of bytes the location
\* encodes its numbers, for offsets of both signs up to the width of a word: the
\* bytes and the elements of the variable's type, or nothing.
ValueMeansLocation ==
    Answered("location") =>
        LET layout == Layout(question.base, question.quals)
        IN layout.size > 0 => Answer = Meaning(question, layout)

\* A work-item that is listed can be selected by the global id it is listed with,
\* and is then the same item: the same thread, group and local id.  It takes
\* registers that can be read, a local id within the local size, a global id that
\* fits a word, groups of one row (list_stopped_work_items() knows no local y, so
\* in other ranges only the items of row 0 keep their id), and to be the first
\* thread listed in its group or, as row 0 stands for any row (match_wg()), the
\* first in its column of groups if it is in row 0.
ListedIsSelected ==
    Answered("stop") =>
        LET launch == question.launch
            lx == IF launch.known THEN launch.local_size.x ELSE AssumedLocal
            readable(wi) == question.threads[wi.thread].readable
            fits(wi) == /\ wi.local_id.x < lx
                        /\ wi.group_id.x * lx + wi.local_id.x < 2 ^ SizeBits
            one_row(wi) == ~launch.known \/ launch.local_size.y <= 1 \/ wi.group_id.y = 0
            first(wi) ==
                \A pair \in Answer :
                  LET other == pair.listed IN
                    readable(other) /\ other.thread < wi.thread /\ other.group_id.x = wi.group_id.x
                      => wi.group_id.y # 0 /\ other.group_id.y # wi.group_id.y
        IN \A pair \in Answer :
             LET wi == pair.listed IN
               readable(wi) /\ fits(wi) /\ one_row(wi) /\ first(wi) => pair.selected = {wi}

=============================================================================
