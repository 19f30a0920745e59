------------------------------ MODULE MCDialogs ------------------------------
(***************************************************************************)
(* Dialogs for TLC.                                                        *)
(***************************************************************************)
EXTENDS Dialogs, TLC

\* An instance with a token, TLS, a rule list and paths the form has no input
\* for.
TokenDisk ==
    [k \in {"serverAddr", "auth.token", "transport.tls.certFile", "transport.poolCount",
            "transport.tls.enable", "transport.tcpMux", "transport.dialServerKeepalive",
            "proxies", "metadatas"} |->
        CASE k = "proxies" -> "r1" [] k = "transport.tls.enable" -> "on"
          [] k = "transport.tcpMux" -> "off" [] OTHER -> "x"]

(* The rules of two instances, the texts pasted, the names suggested.      *)
Item(k, n, addr, p, pair) == [kind |-> k, name |-> n, addr |-> addr, port |-> p, pairable |-> pair]
Stored(k, addr, p) == [kind |-> k, addr |-> addr, port |-> p, batch |-> 0]
TwoInstances ==
    [i \in {"a", "b"} |-> IF i = "a"
        THEN ("v" :> Stored("visitor", "own", 1)) @@ ("x" :> Stored("proxy", "own", 0))
        ELSE ("v" :> Stored("proxy", "own", 0))]
\* A pairable proxy with the visitor made of it elsewhere, and a plain visitor.
Texts ==
    [t \in {"pair", "same"} |-> IF t = "pair"
        THEN <<Item("proxy", "x", "own", 0, TRUE), Item("visitor", "y", "any", 2, FALSE)>>
        ELSE <<Item("visitor", "v", "own", 1, FALSE)>>]
Suggestions ==
    [n \in {"x", "v", "y"} |-> CASE n = "x" -> <<"x", "y", "z">>
        [] n = "v" -> <<"v", "z", "w">> [] OTHER -> <<"y", "z", "w">>]

(* A channel and a schedule.                                               *)
OneChannel == "c1" :> [kind |-> "s3", addr |-> "h1", secret |-> "k1"]
OneSchedule == "s1" :> [chan |-> "c1", on |-> TRUE]
=============================================================================
