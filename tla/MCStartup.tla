------------------------------ MODULE MCStartup ------------------------------
(* An instance of Startup for TLC. *)
EXTENDS Startup, TLC
CONSTANT MaxArgs     \* bound: arguments on a command line of any words

AnyWord == {"-p", "-mtu", "-msg", "-r", "-5", "TCP", "127.0.0.1", "::1", "7", "65543"}
Lower == [w \in AnyWord |-> IF w = "TCP" THEN "tcp" ELSE w]
Numbers == ("7" :> 7) @@ ("65543" :> 65543) @@ ("127.0.0.1" :> 127) @@ ("-5" :> -5)
Ip == ("127.0.0.1" :> <<127, 1>>) @@ ("::1" :> <<1>>)
Addr == {"127.0.0.1", "::1", "TCP"}
AnyCommandLine ==
  UNION {[1 .. n -> AnyWord] : n \in 0 .. MaxArgs}
  \cup {p \o <<a, "7", "-r", b, "7">> : p \in {<<>>, <<"-p", "TCP">>}, a \in Addr, b \in Addr}
=============================================================================
