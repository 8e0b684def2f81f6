-------------------------------- MODULE MCVm --------------------------------
(* The programs and operands of the NeoVM in the model checker's run.        *)
EXTENDS NeoVm, TLC

startOf(code, stack, heap) ==
    [code |-> code, stack |-> stack, heap |-> heap, disableHasKey |-> FALSE, allowEOF |-> FALSE]

\* -8..7 fit the short integer, the rest up to 63 are long ones; then values that are
\* too long or no integers.
operands == {Small(n) : n \in {-8, -7, -3, -1, 0, 1, 2, 3, 7}} \cup {Big(n) : n \in {-63, -32, -9, 8, 31, 63}}
            \cup {Bool(TRUE), Bytes(<<>>), Bytes(<<3, 1>>), Bytes(<<3, 3, 3, 0>>), Bytes(<<0, 0, 0, 1>>), <<"array", 1>>}
oneArray == << <<"array", <<Small(1)>>, TRUE>> >>
integerStarts ==
    {startOf(<<op>>, <<a, b>>, oneArray) : op \in BinaryOps \cup {"LT", "NUMEQUAL"}, a \in operands, b \in operands}
    \cup {startOf(<<op>>, <<a>>, oneArray) : op \in UnaryOps, a \in operands}

\* Stacks of up to three values, among them an array, nested structs and a map.
someHeap ==
    << <<"array", <<Small(1), <<"struct", 2>> >>, TRUE>>, <<"struct", <<Small(0), <<"struct", 3>> >>, TRUE>>,
       <<"struct", <<>>, FALSE>>,
       <<"map", (<<1>> :> <<Small(1), <<"array", 1>> >> @@ <<>> :> <<Small(0), Small(2)>>), TRUE>>,
       <<"struct", <<Small(0), <<"struct", 6>> >>, TRUE>>, <<"struct", <<>>, FALSE>> >>
someValues == {Small(0), Small(1), Bytes(<<1, 2>>), <<"array", 1>>, <<"struct", 2>>, <<"map", 4>>}
someStacks ==
    {<<>>} \cup {<<a>> : a \in someValues} \cup {<<a, b>> : a, b \in someValues \cup {<<"struct", 5>>}}
    \cup {<<a, b, c>> : a \in someValues, b \in {Small(0), Small(1), Bytes(<<1, 2>>)},
                        c \in {Small(1), <<"struct", 2>>, <<"map", 4>>}}
otherStarts ==
    {startOf(<<op>>, s, someHeap) :
       op \in StackOps \cup SpliceOps \cup CompareOps \cup ArrayOps \cup HashOps \cup {"VERIFY", "JMPIF", "THROWIFNOT"},
       s \in someStacks}

codes ==
  { \* calls and jumps
    <<"CALL", 1, 1, "PUSH1", "RET", "PUSH2", "RET">>, <<"PUSH1", "CALL", 3, 3>>, <<"CALL", 3>>, <<"CALL">>,
    <<"PUSH3", "DCALL", "RET", "PUSH1", "RET">>, <<"PUSH3", "DCALL">>, <<"PUSHM1", "DCALL">>, <<"PUSH0", "DCALL">>,
    <<"PUSH1", "JMPIF", 0, 1, "THROW", "NOP">>, <<"PUSH0", "JMPIF", 0, 1, "THROW", "NOP">>,
    <<"PUSH1", "JMPIFNOT", 0, 1, "THROWIFNOT", "PUSH2", "JMP", 0, 2>>, <<"JMP", 1, 3>>,
    \* stacks and pushed bytes
    <<"PUSH1", "DUP", "DUP", "DUP", "DUP", "DUP">>,
    <<"PUSH2", "TOALTSTACK", "DUPFROMALTSTACK", "FROMALTSTACK", "ROT">>,
    <<"PUSHBYTES2", 1, 2, "PUSHDATA1", 2, 3, 3, "CAT", "PUSHDATA2", 1, 0, 1, "CAT">>,
    <<"PUSHDATA1">>, <<"PUSHDATA1", 0>>, <<"PUSHBYTES3", 1, 2>>, <<"PUSHDATA4", 2, 0, 0, 0, 1>>, <<"PUSHBYTES1">>,
    \* compound values
    <<"PUSH3", "NEWSTRUCT", "DUP", "PUSH1", "NEWSTRUCT", "APPEND">>, <<"PUSHM1", "NEWARRAY">>, <<"PUSHM1", "PACK">>,
    <<"PUSH2", "NEWSTRUCT", "DUP", "DUP", "APPEND", "DUP", "PUSH0", "PICKITEM">>,
    <<"PUSH1", "NEWSTRUCT", "DUP", "DUP", "APPEND", "DUP", "DUP", "APPEND", "DUP", "DUP", "APPEND">>,
    <<"NEWMAP", "DUP", "PUSH1", "PUSH2", "SETITEM", "DUP", "PUSH0", "PUSH3", "SETITEM", "DUP", "KEYS", "SWAP", "VALUES">>,
    <<"NEWMAP", "DUP", "PUSH1", "PUSH2", "SETITEM", "DUP", "PUSH1", "REMOVE", "PUSH1", "HASKEY">>,
    <<"PUSH2", "NEWARRAY", "DUP", "PUSH1", "PUSH3", "SETITEM", "DUP", "REVERSE", "DUP", "PUSH1", "REMOVE", "UNPACK">>,
    <<"SYSTEM">>, <<"PUSH1", "NEWSTRUCT", "PUSH1", "NEWSTRUCT", "EQUAL">>, <<"PUSH0", "NEWSTRUCT", "DUP", "REVERSE">> }
programStarts ==
    {[startOf(c, <<>>, <<>>) EXCEPT !.disableHasKey = d, !.allowEOF = e] : c \in codes, d \in BOOLEAN, e \in BOOLEAN}

mcStarts == integerStarts \cup otherStarts \cup programStarts
=============================================================================
