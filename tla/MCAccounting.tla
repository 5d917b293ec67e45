---------------------------- MODULE MCAccounting ----------------------------
(* Instances of Accounting for TLC. *)
EXTENDS Accounting

Gate(name, id, paths) == [name |-> name, id |-> id, paths |-> paths]
Entity(name, id) == [name |-> name, id |-> id]

\* Paths that are the same at their beginning, or at their end.
Socket == <<"Communication", "Socket">>
File == <<"Communication", "File">>
Sockets == <<"Tests", "Socket">>

\* The libraries of the repository, with some of what they have: the built in one
\* has signals and constants, ...
BuiltinLibrary ==
  [gates |-> <<>>, made |-> <<>>, signals |-> <<Entity("bool", "b"), Entity("int", "b")>>,
   constants |-> <<Entity("true", "b")>>, answer |-> "ok"]

\* ... that of lxc_bool_gates.c gates, ...
ArithmeticLibrary ==
  [gates |-> <<Gate("nand", "a", <<<<"Logic">>>>), Gate("dbg", "a", <<<<"Logic">>>>)>>,
   made |-> <<>>, signals |-> <<>>, constants |-> <<>>, answer |-> "ok"]

\* ... and liblxc_posix.c a signal, and gates that it appends to its own.
PosixLibrary ==
  [gates |-> <<>>, made |-> <<Gate("socket", "p", <<Socket>>), Gate("open", "p", <<File>>)>>,
   signals |-> <<Entity("sockaddr", "p")>>, constants |-> <<>>, answer |-> "ok"]

\* Plugins that have gates, signals and constants of the same name as another
\* library's; one of them says no when it was loaded.
SomeLibraries ==
  [builtin |-> BuiltinLibrary, arithmetic |-> ArithmeticLibrary, posix |-> PosixLibrary,
   gates |-> [gates |-> <<Gate("dbg", "g", <<Sockets>>), Gate("echo", "g", <<Sockets, Socket>>)>>,
              made |-> <<>>, signals |-> <<Entity("echo", "g")>>,
              constants |-> <<Entity("true", "g"), Entity("port", "g")>>, answer |-> "ok"],
   types |-> [gates |-> <<Gate("pack", "t", <<<<"Logic", "Socket">>>>)>>, made |-> <<>>,
              signals |-> <<Entity("frame", "t"), Entity("int", "t"), Entity("word", "t")>>,
              constants |-> <<Entity("port", "t")>>, answer |-> "ok"],
   values |-> [gates |-> <<Gate("echo", "v", <<Socket>>)>>, made |-> <<>>, signals |-> <<>>,
               constants |-> <<Entity("true", "v"), Entity("pi", "v")>>, answer |-> "refused"]]

SomeEmbedded == <<"arithmetic", "posix">>
=============================================================================
