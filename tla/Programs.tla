------------------------------ MODULE Programs ------------------------------
(* The command lines of the two programs: the commands that src/src/vm/main.c
   (built with tracing) and src/src/compiler/asm/main.c declare with the macros
   of args.h, and the flags and positionals that their functions use without
   asking whether they have a value. *)
EXTENDS Args

Opt(name, sf) == [name |-> name, sf |-> sf, validator |-> "", def |-> NULL]
Use(name, sf, v, def) == [name |-> name, sf |-> sf, validator |-> v, def |-> def]
Str(def) == [def |-> def]

output == <<"o", "u", "t", "p", "u", "t">>
hideAddr == <<"h", "i", "d", "e", "-", "a", "d", "d", "r">>
Xss == <<"X", "s", "s">>
Xms == <<"X", "m", "s">>

Parser == <<Opt(<<"v", "e", "r", "s", "i", "o", "n">>, "v"), Opt(<<"h", "e", "l", "p">>, "h")>>

Command(args, positionals) == [flags |-> args, pos |-> positionals]

help == Command(<<>>, <<Str(<<>>)>>)

run == Command(<<Use(Xss, "", "cmdParseByteSize", <<"8", "k">>),
                 Use(Xms, "", "cmdParseByteSize", <<"8", "m">>),
                 Use(<<"t", "r", "a", "c", "e">>, "t", "cmdParseBitFlags", <<"DISABLED">>)>>,
               <<Str(NULL)>>)

dassem == Command(<<Opt(hideAddr, "H"), Use(output, "o", "cmdParseString", <<>>)>>,
                  <<Str(NULL)>>)

assem == Command(<<>>, <<Str(NULL)>>)

cmdDassem == [flags |-> {1}, pos |-> {1}]
cmdRun == [flags |-> {1, 2, 3}, pos |-> {1}]
cmdAssemble == [flags |-> {}, pos |-> {1}]
cmdDisAssemble == [flags |-> {1}, pos |-> {1}]

vmCmdParseDebugTraceFlags == {"DISABLED", "EXEC", "HEAP", "ALL"}

cynvm == [commands |-> [help |-> help, run |-> run, dassem |-> dassem], def |-> "run",
          bits |-> vmCmdParseDebugTraceFlags,
          reads |-> [run |-> cmdRun, dassem |-> cmdDassem]]

cynas == [commands |-> [help |-> help, assem |-> assem, dassem |-> dassem], def |-> "assem",
          bits |-> {}, reads |-> [assem |-> cmdAssemble, dassem |-> cmdDisAssemble]]
=============================================================================
