----------------------------- MODULE MCRulesTab -----------------------------
(***************************************************************************)
(* RulesTab for TLC: the three panes in one run, without multiplying their *)
(* states.                                                                 *)
(***************************************************************************)
EXTENDS RulesTab, TLC

Rule(kind, n, type, plugin, keys) ==
    [kind |-> kind,
     body |-> [k \in keys \cup {"type"} \cup (IF plugin = "" THEN {} ELSE {"plugin.type"}) |->
                 CASE k = "type" -> [src |-> "lit", tag |-> type]
                   [] k = "plugin.type" -> [src |-> "lit", tag |-> plugin]
                   [] k = "enabled" -> [src |-> "lit", tag |-> "off"]
                   [] OTHER -> [src |-> "rule", tag |-> n]]]

\* A disabled file server, a forwarder, a paired proxy without allowUsers and
\* a visitor of the virtual network.
FourRules ==
    [A |-> Rule("proxy", "A", "tcp", "static_file",
                {"remotePort", "plugin.localPath", "plugin.httpUser", "enabled"}),
     B |-> Rule("proxy", "B", "http", "https2http",
                {"customDomains", "httpUser", "plugin.localAddr", "plugin.requestHeaders",
                 "plugin.crtPath"}),
     C |-> Rule("proxy", "C", "stcp", "", {"localIP", "localPort", "secretKey"}),
     D |-> Rule("visitor", "D", "xtcp", "virtual_net",
                {"secretKey", "serverName", "bindPort", "plugin.destinationIP", "fallbackTo"})]

(* The rules of two instances.                                             *)
TwoAndOne == [i \in {"a", "b"} |-> IF i = "a" THEN <<"r", "s">> ELSE <<"s">>]
=============================================================================
