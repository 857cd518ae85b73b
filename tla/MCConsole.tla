------------------------------ MODULE MCConsole ------------------------------
(***************************************************************************)
(* Small instances of Console for TLC.                                     *)
(***************************************************************************)
EXTENDS Console, TLC

Kernel == <<"prog", "cl">>
Main == <<"main", "c">>

\* Two lines of the kernel with code, two of the host program, one of which has
\* an address that the kernel's module has too.
Row(address, line, file, end) == [address |-> address, line |-> line, file |-> file, end |-> end]
MCRows ==
    ("kernel" :> <<Row(1, 5, Kernel, FALSE), Row(2, 7, Kernel, FALSE), Row(3, 7, Kernel, TRUE)>>)
        @@ ("host" :> <<Row(2, 3, Main, FALSE), Row(6, 9, Main, FALSE), Row(7, 9, Main, TRUE)>>)
MCMapped == 1 .. 3

MCNumber == ("0" :> 0) @@ ("1" :> 1) @@ ("2" :> 2) @@ ("4" :> 4)
At(file, line) == [file |-> file, line |-> line]
MCLocationOf ==
    ("5" :> At(<<>>, 5)) @@ ("6" :> At(<<>>, 6)) @@ ("k.cl:7" :> At(<<"k", "cl">>, 7))
        @@ ("main.c:3" :> At(Main, 3)) @@ ("main.c:99" :> At(Main, 99))

\* "n" is a variable of both; "i" of the kernel's second line only, where "n" is
\* known by its location; "p" comes from pocl's name for it.
MCNames == {"n", "i", "p"}
MCScope == ("host" :> {"n"}) @@ ("kernel" :> {"n", "i", "p"})
KernelGives == <<{"n"}, {"i"}>>
MCGives ==
    [p \in Places |-> CASE p \in {<<"kernel", 1>>, <<"kernel", 2>>} -> KernelGives[p[2]]
                        [] p[1] = "host" -> {"n"} [] OTHER -> {}]
MCLocated == [p \in Places |-> IF p = <<"kernel", 2>> THEN {"n"} ELSE {}]
MCAliased == [p \in Places |-> IF p = <<"kernel", 1>> THEN {"p"} ELSE {}]

MCWords ==
    ("ocl b 6" :> <<"ocl", "b", "6">>) @@ ("ocl break k.cl:7" :> <<"ocl", "break", "k.cl:7">>)
        @@ ("ocl b main.c:3" :> <<"ocl", "b", "main.c:3">>)
        @@ ("run" :> <<"run">>) @@ ("r x" :> <<"r", "x">>) @@ ("c" :> <<"c">>)
        @@ ("ocl vars" :> <<"ocl", "vars">>) @@ ("quit" :> <<"quit">>)
        @@ ("process launch" :> <<"process", "launch">>) @@ ("ocl" :> <<"ocl">>)
MCSourced == ("f" :> <<"run">>) @@ ("g" :> <<"target", "create", "app">>)

\* A batch, a breakpoint before there is a target, files of commands, a program
\* that does not exist, and a user alone.
MCCommandLines ==
    {<<"app">>, <<"-O", "ocl b 6", "nosuch">>,
     <<"-b", "-o", "ocl b main.c:3", "-o", "ocl break k.cl:7", "-o", "run", "-o", "ocl vars", "-o",
       "c", "-o", "quit", "-o", "ocl vars", "app", "x">>,
     <<"-O", "ocl b 6", "-o", "process launch", "app">>,
     <<"-O", "ocl break k.cl:7", "-s", "f", "app">>,
     <<"-S", "g", "-o", "ocl b 6", "-o", "r x">>}
MCTyped ==
    {<<"ocl", "b", "5">>, <<"ocl", "b", "main.c:3">>, <<"ocl", "b", "main.c:99">>,
     <<"ocl", "break", "delete">>, <<"ocl", "b", "del", "1">>, <<"ocl", "b", "list">>,
     <<"ocl", "p", "n">>, <<"ocl", "print">>, <<"ocl", "x">>,
     <<"ocl", "select", "list">>, <<"ocl", "wi", "select", "4">>, <<"ocl", "wi", "0">>, <<"ocl", "wi", "x">>,
     <<"r">>, <<"c", "1">>}

\* A look at the variables of the host program.
LookLines == {<<"-o", "ocl b main.c:3", "-o", "ocl b 6", "app">>}
LookTyped == {<<"run">>, <<"ocl", "v">>, <<"continue">>}

=============================================================================
