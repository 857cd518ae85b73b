------------------------------ MODULE MCLookups ------------------------------
(***************************************************************************)
(* Small instances of Lookups for TLC: the questions.                      *)
(***************************************************************************)
EXTENDS Lookups, TLC

MCNumber == ("0" :> 0) @@ ("17" :> 17)
MCUnknown == {"-x", "--"}

SeqsUpTo(S, n) == UNION {[1 .. k -> S] : k \in 0 .. n}

\* Options with values that are also spelled like options, in all pairs.
OptionChoices ==
    {<<"-b">>, <<"--dry-run">>, <<"--track-wg">>, <<"--dap">>, <<"-h">>, <<"--backend", "oclgrind">>}
        \cup {<<o, v>> : o \in {"-o", "-O", "--print", ""}, v \in {"run", "-b", "--", ""}}
        \cup {<<o, v>> : o \in {"--break-at", "--port"}, v \in {"0", "17"}}
MCCommandLines ==
    {[kind |-> "arguments",
      line |-> [options |-> o, dashes |-> d, host |-> h, host_args |-> a]] :
       o \in SeqsUpTo(OptionChoices, 2), d \in BOOLEAN, h \in {None, "app"},
       a \in {<<>>, <<"-b">>, <<"--", "--port">>, <<"", "x">>}}

\* Three rows of two files, in the order of addresses or with two at one, the
\* first line of a file asked for or any later one.
Paths == {<<"lib", "a", "cl">>, <<"main", "c">>}
Row(address, line, file, end) == [address |-> address, line |-> line, file |-> file, end |-> end]
MCBreakpoints ==
    {[kind |-> "breakpoint", loc |-> [line |-> l, file |-> f],
      rows |-> [k \in 1 .. 3 |-> Row(at[k], lines[k], files[k], FALSE)]
                 \o <<Row(at[3] + 1, lines[3], files[3], TRUE)>>] :
       l \in 1 .. 4, f \in {<<>>, <<"a", "cl">>, <<"b", "cl">>, <<"main", "c">>},
       at \in {<<1, 2, 3>>, <<1, 1, 2>>}, lines \in [1 .. 3 -> 1 .. 3], files \in [1 .. 3 -> Paths]}

\* A function with blocks, inlined calls and variables below it, built one DIE
\* at a time below the last one or one of those around it; after it another
\* function, in the same unit or in one of its own.
Die(tag, parent, name, lo, hi, unit) ==
    [tag |-> tag, parent |-> parent, name |-> name, lo |-> lo, hi |-> hi, unit |-> unit]
Open(dies) == {k \in Around(dies)[Len(dies)] \cup {Len(dies)} : dies[k].tag # "variable"}
Halves(die) == {<<die.lo, die.lo + (die.hi - die.lo) \div 2>>,
                <<die.lo + (die.hi - die.lo) \div 2, die.hi>>}
Below(dies, p) ==
    {Die("variable", p, n, 0, 0, dies[p].unit) : n \in {"a", "b"}}
        \cup {Die(t, p, "", r[1], r[2], dies[p].unit) : t \in {"block", "inlined"},
                                                        r \in Halves(dies[p])}
Grown(trees) == UNION {{Append(t, d) : d \in UNION {Below(t, p) : p \in Open(t)}} : t \in trees}
Function(n, unit) == Die("subprogram", NoDie, "", 8 * n, 8 * n + 8, unit)
One == {<<Function(1, 1)>>}
With(t, unit) == Append(t, Function(2, unit))
Two(unit) ==
    Grown(Grown({With(t, unit) : t \in Grown(One)}))
        \cup Grown(Grown(Grown({With(<<Function(1, 1), Die("variable", 1, "a", 0, 0, 1)>>, unit)})))
OneUnit == Grown(Grown(One)) \cup Grown(Grown(Grown(Grown(One))))
MCScopes ==
    {[kind |-> "scope", dies |-> t, units |-> 1, pc |-> pc] : t \in OneUnit, pc \in {9, 14}}
        \cup UNION {{[kind |-> "scope", dies |-> t, units |-> u, pc |-> pc] :
                         t \in Two(u), pc \in {9, 17, 22}} : u \in 1 .. 2}

\* Words of 7 bits in LEB128 bytes of 3, as 64 = 9 * 7 + 1: numbers of both
\* signs, in the least number of bytes and in more.
MCLayouts ==
    (<<"int">> :> [size |-> 4, lanes |-> <<0>>])
        @@ (<<"float">> :> [size |-> 4, lanes |-> <<0>>])
        @@ (<<"float", "3">> :> [size |-> 16, lanes |-> <<0, 4, 8>>])
        @@ (<<"uchar", "4">> :> [size |-> 4, lanes |-> <<0, 1, 2, 3>>])
Frames ==
    {[fp |-> fp, sp |-> 20, readable |-> 16 .. 80,
      regs |-> (0 :> [value |-> 70, bytes |-> 8]) @@ (5 :> [value |-> 3, bytes |-> 16])] :
       fp \in {0, 60}}
Fits(n, bytes) == n \in -(2 ^ (Payload * bytes - 1)) .. 2 ^ (Payload * bytes - 1) - 1
Location(frame, op, reg, n, bytes, stack_value, base, quals) ==
    [kind |-> "location", frame |-> frame, op |-> op, reg |-> reg, number |-> n, bytes |-> bytes,
     stack_value |-> stack_value, length |-> 0, base |-> base, quals |-> quals]
SignedOperands == {p \in (-64 .. 63) \X (1 .. 3) : Fits(p[1], p[2])}
Quals == {<<>>, <<"volatile">>, <<"pointer">>, <<"const", "pointer", "restrict">>, <<"const">>}
MCLocations ==
    {Location(f, op, reg, p[1], p[2], FALSE, b, <<>>) :
       f \in Frames, op \in {"fbreg", "breg", "consts"}, reg \in {0, 7}, p \in SignedOperands,
       b \in DOMAIN MCLayouts}
      \cup {Location(f, op, reg, n, bytes, FALSE, b, q) :
              f \in Frames, op \in {"reg", "regx", "constu"}, reg \in {0, 5, 7}, n \in {0, 5, 7},
              bytes \in 1 .. 3, b \in DOMAIN MCLayouts, q \in Quals}
      \cup {Location(f, "constu", 0, n, 3, FALSE, <<"int">>, <<>>) : f \in Frames, n \in 0 .. 127}
      \cup {Location(f, "fbreg", 0, -4, 2, FALSE, b, q) :
              f \in Frames, b \in DOMAIN MCLayouts, q \in Quals}

\* Two threads, in groups of a range of up to three dimensions, with the launch
\* inferred or not, and a tracker that lags behind.
Frame(stopped, readable, group, l, g, r10, rsi) ==
    [stopped |-> stopped, readable |-> readable, group |-> group, local_var |-> l,
     global_var |-> g, r10 |-> r10, rsi |-> rsi]
Groups == {Triple(0, 0, 0), Triple(1, 0, 0), Triple(1, 2, 0), Triple(2, 0, 1), Triple(2, 0, 5),
           Triple(63, 0, 0)}
ThreadFrames ==
    {Frame(TRUE, readable, group, l, {}, 9, 1) :
       readable \in BOOLEAN, group \in Groups, l \in {{}, {3}, {5}}}
      \cup {Frame(stopped, TRUE, group, {}, g, r, 2) :
              stopped \in BOOLEAN, group \in Groups, g \in {{}, {6}}, r \in {0, 9}}
Launches ==
    {NotInferred} \cup {[known |-> TRUE, local_size |-> Triple(lx, ly, 1)] :
                          lx \in {1, 3}, ly \in 0 .. 2}
MCStops ==
    {[kind |-> "stop", threads |-> <<a, b>>, launch |-> launch, tracker |-> tracker] :
       a \in ThreadFrames, b \in ThreadFrames, launch \in Launches,
       tracker \in {<<>>, <<Triple(4, 0, 0), Triple(0, 0, 0)>>}}

=============================================================================
