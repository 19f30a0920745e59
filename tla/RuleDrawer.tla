----------------------------- MODULE RuleDrawer -----------------------------
(***************************************************************************)
(* The drawer of the instances page (web/src/pages/Configs.tsx) that       *)
(* creates, edits and copies one rule of frpc: a proxy or a visitor.  A    *)
(* rule is a function from the JSON keys it carries to values; the antd    *)
(* form holds one value per field whether or not the field is on screen,   *)
(* and hands over only the fields that are (Mounted).  Opening translates  *)
(* a rule into the form, submitting translates the form back.              *)
(*                                                                         *)
(* A value is [src, tag]: what the user typed carries the plugin that was  *)
(* selected while typing, what was loaded carries the rule it came from,   *)
(* so that a body can be checked for values that do not belong in it.      *)
(***************************************************************************)
EXTENDS Naturals, FiniteSets

CONSTANTS
    InitialRules,  \* the rules on disk at first: name -> stored rule
    NewName,       \* the name the user or genRuleName gives a new rule
    EditFields,    \* the text fields the user types into
    MaxEdits,      \* bound: changes the user makes, over all sessions
    MaxSessions,   \* bound: times the drawer is opened
    MaxRequests    \* bound: requests on their way at once

VARIABLES
    stored,    \* the rules of the instance: name -> rule
    session,   \* what the open drawer is for: closed, new, edit or copy
    form,      \* the antd form store
    edits,     \* changes made so far
    sessions,  \* times the drawer has been opened
    requests   \* the PUTs and POSTs on their way

vars == <<stored, session, form, edits, sessions, requests>>

Val(s, t) == [src |-> s, tag |-> t]
Unset == Val("unset", "")     \* undefined
Blank == Val("blank", "")     \* the empty string
Spaces == Val("spaces", "")   \* nothing but spaces
Lit(x) == Val("lit", x)       \* one of the code's own constants
Typed(p) == Val("typed", p)   \* typed while plugin p was selected
Truthy(v) == v \notin {Unset, Blank, Lit("off")}

ProxyTypes == {"tcp", "udp", "http", "https", "tcpmux", "stcp", "sudp", "xtcp"}
PairTypes == {"stcp", "sudp", "xtcp"}
HttpForwarders == {"http2http", "http2https", "https2http", "https2https"}
Http2Switch == {"https2http", "https2https"}
TlsPlugins == {"https2http", "https2https", "tls2raw"}
LocalAddrPlugins == HttpForwarders \cup {"tls2raw"}
AuthPlugins == {"http_proxy", "socks5", "static_file"}
Plugins == LocalAddrPlugins \cup AuthPlugins
               \cup {"unix_domain_socket", "virtual_net"}

\* The values the fields below take are only ever read through these.
KindOf(f) == f["kind"].tag
TypeOf(f) == f["type"].tag
PluginOf(f) == f["pluginName"].tag
PluginIn(body) == IF "plugin.type" \in DOMAIN body THEN body["plugin.type"].tag ELSE ""
Straight(S) == {[key |-> x, field |-> x] : x \in S}
Row(k, f) == [key |-> k, field |-> f]

(***************************************************************************)
(* A rule as frp accepts it from a file, under the name n: a known type,   *)
(* of the three that are paired if it is a visitor's, a known plugin, if   *)
(* any, the visitor's being virtual_net, and switches that are on or off.  *)
(***************************************************************************)
TypesOf(kind) == {Lit(t) : t \in IF kind = "visitor" THEN PairTypes ELSE ProxyTypes}
PluginsOf(kind) == {Lit(p) : p \in IF kind = "visitor" THEN {"virtual_net"} ELSE Plugins}
Switches == {"enabled", "useEncryption", "useCompression", "keepTunnelOpen",
             "plugin.enableHTTP2"}

IsStored(n, k, v) ==
    \/ k \in Switches /\ v \in {Lit("on"), Lit("off")}
    \/ k \notin Switches /\ v # Lit("off")
          /\ (v \in {Blank, Val("rule", n)} \/ v = Lit(v.tag))

IsRule(n, r) ==
    /\ r.kind \in {"proxy", "visitor"}
    /\ "type" \in DOMAIN r.body /\ r.body["type"] \in TypesOf(r.kind)
    /\ "plugin.type" \in DOMAIN r.body => r.body["plugin.type"] \in PluginsOf(r.kind)
    /\ r.kind = "visitor" /\ "plugin.destinationIP" \in DOMAIN r.body
          => "plugin.type" \in DOMAIN r.body
    /\ \A k \in DOMAIN r.body : IsStored(n, k, r.body[k])

ASSUME InitialRulesAssumption ==
    \A n \in DOMAIN InitialRules : IsRule(n, InitialRules[n])

ASSUME BoundsAssumption == {MaxEdits, MaxSessions, MaxRequests} \subseteq Nat

(***************************************************************************)
(* The fields, by the block of the drawer that renders them.               *)
(***************************************************************************)
PluginInputs == {"pluginLocalAddr", "pluginLocalPath", "pluginStripPrefix",
    "pluginHTTPUser", "pluginHTTPPassword", "pluginHostHeaderRewrite",
    "pluginCrtPath", "pluginKeyPath", "pluginRequestHeaders",
    "pluginEnableHTTP2"}
XtcpInputs == {"xtcpProtocol", "keepTunnelOpen", "maxRetriesAnHour",
    "minRetryInterval", "fallbackTo", "fallbackTimeoutMs"}
HttpInputs == {"locations", "hostHeaderRewrite", "httpUser", "httpPassword"}
SameName == {"localIP", "localPort", "remotePort", "customDomains",
    "subdomain", "multiplexer", "routeByHTTPUser", "secretKey", "allowUsers",
    "serverName", "serverUser", "bindAddr", "bindPort", "maxRetriesAnHour",
    "minRetryInterval", "fallbackTo", "fallbackTimeoutMs"} \cup HttpInputs
Fields == {"kind", "name", "type", "useEncryption", "useCompression",
    "pluginName", "visitorPlugin", "destinationIP"}
              \cup SameName \cup PluginInputs \cup XtcpInputs

\* The selects, that decide what is rendered, and the switches take no text.
SelectFields == {"kind", "type", "pluginName", "visitorPlugin"}
SwitchFields == {"useEncryption", "useCompression", "keepTunnelOpen", "pluginEnableHTTP2"}
ASSUME EditFieldsAssumption == EditFields \subseteq Fields \ (SelectFields \cup SwitchFields)

VisitorFields(f) ==
    {"secretKey", "serverName", "serverUser", "bindAddr", "bindPort",
     "useEncryption", "useCompression", "visitorPlugin"}
        \cup (IF f["visitorPlugin"] = Lit("virtual_net") THEN {"destinationIP"} ELSE {})
        \cup (IF TypeOf(f) = "xtcp" THEN XtcpInputs ELSE {})

TypeFields(f) ==
    CASE TypeOf(f) = "http" -> {"customDomains", "subdomain"} \cup HttpInputs
      [] TypeOf(f) = "https" -> {"customDomains", "subdomain"}
      [] TypeOf(f) = "tcpmux" -> {"multiplexer", "customDomains", "routeByHTTPUser"}
      [] TypeOf(f) \in PairTypes -> {"secretKey", "allowUsers"}
      [] OTHER -> {"remotePort"}

PluginFields(p) ==
    {"pluginName"}
        \cup (IF p \in LocalAddrPlugins THEN {"pluginLocalAddr"} ELSE {})
        \cup (IF p \in {"static_file", "unix_domain_socket"} THEN {"pluginLocalPath"} ELSE {})
        \cup (IF p \in AuthPlugins THEN {"pluginHTTPUser", "pluginHTTPPassword"} ELSE {})
        \cup (IF p = "static_file" THEN {"pluginStripPrefix"} ELSE {})
        \cup (IF p \in HttpForwarders
                THEN {"pluginHostHeaderRewrite", "pluginRequestHeaders"} ELSE {})
        \cup (IF p \in TlsPlugins THEN {"pluginCrtPath", "pluginKeyPath"} ELSE {})
        \cup (IF p \in Http2Switch THEN {"pluginEnableHTTP2"} ELSE {})

\* What onFinish receives: antd leaves the fields that are not rendered out.
Mounted(f) ==
    {"kind", "name", "type"} \cup
    (IF KindOf(f) = "visitor" THEN VisitorFields(f)
     ELSE {"localIP", "localPort", "useEncryption", "useCompression"}
              \cup TypeFields(f) \cup PluginFields(PluginOf(f)))

\* The fields with a "required" rule among those rendered.
Required(f) ==
    ({"name", "type", "secretKey", "serverName", "bindPort", "destinationIP",
      "remotePort", "pluginLocalAddr", "pluginLocalPath"} \cap Mounted(f))
        \cup (IF KindOf(f) = "proxy" /\ PluginOf(f) = "" THEN {"localPort"} ELSE {})
        \cup (IF KindOf(f) = "proxy" /\ TypeOf(f) = "tcpmux" THEN {"customDomains"} ELSE {})

\* A field with an initialValue takes it when it is rendered while undefined.
WithInitial(f) ==
    LET initial == [x \in {"multiplexer", "xtcpProtocol"} |->
                       IF x = "multiplexer" THEN Lit("httpconnect") ELSE Lit("quic")]
    IN [x \in Fields |-> IF x \in DOMAIN initial /\ x \in Mounted(f) /\ f[x] = Unset
                           THEN initial[x] ELSE f[x]]

(***************************************************************************)
(* openProxyDrawer: a stored rule into the form, or an empty form.         *)
(***************************************************************************)
EmptyForm == [x \in Fields |-> Unset]

NewForm(prev, kind) ==
    [EmptyForm EXCEPT !["kind"] = Lit(kind),
                      !["type"] = Lit(IF kind = "visitor" THEN "stcp" ELSE "tcp"),
                      !["localIP"] = Lit("0.0.0.0"), !["bindAddr"] = Lit("0.0.0.0"),
                      !["xtcpProtocol"] = Lit("quic"), !["allowUsers"] = Lit("*")]

FormOf(rule, name) ==
    LET get(k) == IF k \in DOMAIN rule.body THEN rule.body[k] ELSE Unset
        or(v, default) == IF Truthy(v) THEN v ELSE default
        pl == get("plugin.type").tag
        visitor == rule.kind = "visitor"
    IN [x \in Fields |->
        CASE x = "kind" -> Lit(rule.kind)
          [] x = "name" -> Lit(name)
          [] x = "type" -> get("type")
          [] x \in {"localIP", "bindAddr", "customDomains", "locations", "allowUsers"} ->
                or(get(x), Blank)
          [] x = "pluginName" -> get("plugin.type")
          [] x = "pluginLocalAddr" -> get("plugin.localAddr")
          [] x = "pluginLocalPath" ->
                get(IF pl = "unix_domain_socket" THEN "plugin.unixPath" ELSE "plugin.localPath")
          [] x = "pluginStripPrefix" -> get("plugin.stripPrefix")
          [] x = "pluginHTTPUser" ->
                get(IF pl = "socks5" THEN "plugin.username" ELSE "plugin.httpUser")
          [] x = "pluginHTTPPassword" ->
                get(IF pl = "socks5" THEN "plugin.password" ELSE "plugin.httpPassword")
          [] x = "pluginHostHeaderRewrite" -> get("plugin.hostHeaderRewrite")
          [] x = "pluginRequestHeaders" -> get("plugin.requestHeaders")
          [] x = "pluginCrtPath" -> get("plugin.crtPath")
          [] x = "pluginKeyPath" -> get("plugin.keyPath")
          [] x = "pluginEnableHTTP2" ->
                IF get("plugin.enableHTTP2") = Unset THEN Lit("on") ELSE get("plugin.enableHTTP2")
          [] x \in {"useEncryption", "useCompression"} ->
                or(get(x), Lit("off"))
          [] x = "xtcpProtocol" -> or(get("protocol"), Lit("quic"))
          [] x = "keepTunnelOpen" -> or(get(x), Lit("off"))
          [] x = "visitorPlugin" -> IF visitor THEN get("plugin.type") ELSE Unset
          [] x = "destinationIP" -> IF visitor THEN get("plugin.destinationIP") ELSE Unset
          [] OTHER -> get(x)]

(***************************************************************************)
(* handleSaveProxy: the rendered values into the body of the request.      *)
(* Rows that are always sent keep an empty string (JSON only drops what is *)
(* undefined), the others are sent when their value is truthy.             *)
(***************************************************************************)
Trim(v) == IF v = Spaces THEN Blank ELSE v

\* Mutant: the secret is sent only when the user has typed it.
AlwaysRowsNoSecret(v) ==
    IF KindOf(v) = "visitor" THEN Straight({"type", "serverName", "bindPort"})
    ELSE Straight({"type", "localPort"})
           \cup (IF TypeOf(v) \in {"tcp", "udp"} THEN Straight({"remotePort"}) ELSE {})

AlwaysRows(v) ==
    IF KindOf(v) = "visitor"
    THEN Straight({"type", "secretKey", "serverName", "bindPort"})
    ELSE Straight({"type", "localPort"})
           \cup (IF TypeOf(v) \in {"tcp", "udp"} THEN Straight({"remotePort"}) ELSE {})
           \cup (IF TypeOf(v) \in PairTypes THEN Straight({"secretKey"}) ELSE {})

PluginRows(p) ==
    (IF p \in LocalAddrPlugins THEN {Row("plugin.localAddr", "pluginLocalAddr")} ELSE {})
    \cup (IF p = "static_file" THEN {Row("plugin.localPath", "pluginLocalPath"),
                                     Row("plugin.stripPrefix", "pluginStripPrefix")} ELSE {})
    \cup (IF p = "unix_domain_socket" THEN {Row("plugin.unixPath", "pluginLocalPath")} ELSE {})
    \cup (IF p = "socks5" THEN {Row("plugin.username", "pluginHTTPUser"),
                                Row("plugin.password", "pluginHTTPPassword")} ELSE {})
    \cup (IF p \in {"http_proxy", "static_file"}
            THEN {Row("plugin.httpUser", "pluginHTTPUser"),
                  Row("plugin.httpPassword", "pluginHTTPPassword")} ELSE {})
    \cup (IF p \in HttpForwarders
            THEN {Row("plugin.hostHeaderRewrite", "pluginHostHeaderRewrite"),
                  Row("plugin.requestHeaders", "pluginRequestHeaders")} ELSE {})
    \cup (IF p \in TlsPlugins THEN {Row("plugin.crtPath", "pluginCrtPath"),
                                    Row("plugin.keyPath", "pluginKeyPath")} ELSE {})

TruthyRows(v) ==
    IF KindOf(v) = "visitor"
    THEN Straight({"bindAddr", "serverUser"})
           \cup (IF TypeOf(v) = "xtcp"
                   THEN Straight(XtcpInputs \ {"xtcpProtocol"}) \cup {Row("protocol", "xtcpProtocol")}
                   ELSE {})
           \cup (IF Truthy(v["visitorPlugin"])
                   THEN {Row("plugin.type", "visitorPlugin"),
                         Row("plugin.destinationIP", "destinationIP")} ELSE {})
    ELSE Straight({"localIP"})
           \cup (IF TypeOf(v) = "tcpmux" THEN Straight({"customDomains", "routeByHTTPUser"}) ELSE {})
           \cup (IF TypeOf(v) \in {"http", "https"}
                   THEN Straight({"customDomains", "subdomain"} \cup HttpInputs) ELSE {})
           \cup (IF Truthy(v["pluginName"])
                   THEN {Row("plugin.type", "pluginName")} \cup PluginRows(PluginOf(v)) ELSE {})

\* The keys whose value the code computes rather than copies.
Computed(v) ==
    LET switched == {x \in {"useEncryption", "useCompression"} : v[x] # Unset}
        proxy == KindOf(v) = "proxy"
    IN  [x \in (IF switched # {} THEN {"useEncryption", "useCompression"} ELSE {})
                 \cup (IF proxy /\ TypeOf(v) = "tcpmux" THEN {"multiplexer"} ELSE {})
                 \cup (IF proxy /\ TypeOf(v) \in PairTypes THEN {"allowUsers"} ELSE {})
                 \cup (IF proxy /\ PluginOf(v) \in Http2Switch THEN {"plugin.enableHTTP2"} ELSE {})
          |-> CASE x \in {"useEncryption", "useCompression"} ->
                     IF Truthy(v[x]) THEN Lit("on") ELSE Lit("off")
                [] x = "multiplexer" ->
                     IF Truthy(v[x]) THEN v[x] ELSE Lit("httpconnect")
                [] x = "allowUsers" -> IF Truthy(v[x]) THEN v[x] ELSE Lit("*")
                [] OTHER -> IF v["pluginEnableHTTP2"] # Lit("off") THEN Lit("on") ELSE Lit("off")]

BodyOf(f) ==
    LET v == [x \in Fields |-> IF x \in Mounted(f) THEN Trim(f[x]) ELSE Unset]
        sent == {r \in AlwaysRows(v) : v[r.field] # Unset}
                  \cup {r \in TruthyRows(v) : Truthy(v[r.field])}
        keys == {r.key : r \in sent}
        c == Computed(v)
    IN [k \in keys \cup DOMAIN c |->
            IF k \in DOMAIN c THEN c[k]
            ELSE v[(CHOOSE r \in sent : r.key = k).field]]

(***************************************************************************)
(* The actions: the drawer's buttons and inputs, and the answers.          *)
(***************************************************************************)
NoBody == [k \in {} |-> Unset]
Closed == [mode |-> "closed", rule |-> "", was |-> NoBody, touched |-> FALSE]

Init == /\ stored = InitialRules
        /\ session = Closed
        /\ form = EmptyForm
        /\ edits = 0
        /\ sessions = 0
        /\ requests = {}

\* Mutant: the fields the rule lacks keep what the drawer showed before.
OpenNoReset(mode, rule, was, f) ==
    /\ session.mode = "closed" /\ sessions < MaxSessions
    /\ sessions' = sessions + 1
    /\ session' = [mode |-> mode, rule |-> rule, was |-> was, touched |-> FALSE]
    /\ form' = WithInitial([x \in Fields |-> IF f[x] = Unset THEN form[x] ELSE f[x]])
    /\ UNCHANGED <<stored, edits, requests>>

Open(mode, rule, was, f) ==
    /\ session.mode = "closed" /\ sessions < MaxSessions
    /\ sessions' = sessions + 1
    /\ session' = [mode |-> mode, rule |-> rule, was |-> was, touched |-> FALSE]
    /\ form' = WithInitial(f)
    /\ UNCHANGED <<stored, edits, requests>>

OpenNew(kind) == Open("new", "", NoBody, NewForm(form, kind))
OpenEdit(n) == n \in DOMAIN stored /\ Open("edit", n, stored[n].body, FormOf(stored[n], n))
OpenCopy(n) == n \in DOMAIN stored /\ Open("copy", n, stored[n].body, FormOf(stored[n], NewName))

Close == /\ session.mode # "closed"
         /\ session' = Closed
         /\ UNCHANGED <<stored, form, edits, sessions, requests>>

Edit(f) == /\ session.mode # "closed" /\ edits < MaxEdits
           /\ form' = WithInitial(f)
           /\ edits' = edits + 1
           /\ session' = [session EXCEPT !.touched = TRUE]
           /\ UNCHANGED <<stored, sessions, requests>>

\* Mutant: the type stays what it was.
ChooseKindOnly(k) ==
    /\ session.mode # "edit" /\ KindOf(form) # k
    /\ Edit([form EXCEPT !["kind"] = Lit(k)])

\* The radio is disabled while a rule is edited; visitors take three types.
ChooseKind(k) ==
    /\ session.mode # "edit" /\ KindOf(form) # k
    /\ Edit([form EXCEPT !["kind"] = Lit(k),
                         !["type"] = IF k = "visitor" /\ TypeOf(form) \notin PairTypes
                                       THEN Lit("stcp") ELSE @])

ChooseType(t) ==
    /\ t \in (IF KindOf(form) = "visitor" THEN PairTypes ELSE ProxyTypes)
    /\ t # TypeOf(form)
    /\ Edit([form EXCEPT !["type"] = Lit(t)])

\* Another plugin, or none: what was entered for the last one is cleared.
ChoosePlugin(p) ==
    /\ "pluginName" \in Mounted(form) /\ p # PluginOf(form)
    /\ Edit([x \in Fields |->
               CASE x = "pluginName" -> IF p = "" THEN Unset ELSE Lit(p)
                 [] x = "pluginEnableHTTP2" -> IF p \in Http2Switch THEN Lit("on") ELSE Unset
                 [] x \in PluginInputs -> Unset
                 [] OTHER -> form[x]])

ChooseVisitorPlugin ==
    /\ "visitorPlugin" \in Mounted(form)
    /\ \/ /\ ~Truthy(form["visitorPlugin"])
          /\ Edit([form EXCEPT !["visitorPlugin"] = Lit("virtual_net"),
                               !["bindPort"] = Lit("-1")])
       \/ /\ Truthy(form["visitorPlugin"])
          /\ Edit([form EXCEPT !["visitorPlugin"] = Unset])

Type(x, v) ==
    /\ x \in Mounted(form) /\ form[x] # v
    /\ x = "name" => session.mode # "edit"
    /\ Edit([form EXCEPT ![x] = v])

Toggle(x) ==
    /\ x \in Mounted(form)
    /\ Edit([form EXCEPT ![x] = IF Truthy(@) THEN Lit("off") ELSE Lit("on")])

\* The user answers every "required" message at once.
FillRequired ==
    /\ \E x \in Required(form) : form[x] \in {Unset, Blank}
    /\ Edit([x \in Fields |->
               IF x \in Required(form) /\ form[x] \in {Unset, Blank}
                 THEN IF x = "name" THEN Lit(NewName) ELSE Typed(PluginOf(form))
                 ELSE form[x]])

\* antd runs the rules, then onFinish; the button stays enabled meanwhile.
Submit ==
    /\ session.mode # "closed"
    /\ Cardinality(requests) < MaxRequests
    /\ \A x \in Required(form) : form[x] \notin {Unset, Blank}
    /\ LET target == IF session.mode = "edit" THEN session.rule ELSE Trim(form["name"]).tag
       IN requests' = requests \cup
            {[mode |-> session.mode, rule |-> session.rule, was |-> session.was, target |-> target,
              kind |-> KindOf(form), body |-> BodyOf(form), untouched |-> ~session.touched]}
    /\ UNCHANGED <<stored, session, form, edits, sessions>>

\* On disk a value belongs to its rule, whoever typed it.
OnDisk(r) == [k \in DOMAIN r.body |->
    IF r.body[k].src \in {"rule", "typed"} THEN Val("rule", r.target) ELSE r.body[k]]

\* PUT replaces the rule of that name, POST refuses a name that is taken.
Accepted(r) ==
    IF r.mode = "edit" THEN r.target \in DOMAIN stored /\ stored[r.target].kind = r.kind
    ELSE r.target \notin DOMAIN stored

Answer(r) ==
    /\ r \in requests
    /\ requests' = requests \ {r}
    /\ \/ /\ Accepted(r)
          /\ stored' = [n \in DOMAIN stored \cup {r.target} |->
                          IF n = r.target THEN [kind |-> r.kind, body |-> OnDisk(r)] ELSE stored[n]]
          /\ session' = Closed
       \/ UNCHANGED <<stored, session>>   \* refused, or lost on the way
    /\ UNCHANGED <<form, edits, sessions>>

UserEdit ==
    \/ \E k \in {"proxy", "visitor"} : ChooseKind(k)
    \/ \E t \in ProxyTypes : ChooseType(t)
    \/ \E p \in Plugins \cup {""} : ChoosePlugin(p)
    \/ ChooseVisitorPlugin
    \/ \E x \in EditFields, v \in {Blank, Spaces, Typed(PluginOf(form))} : Type(x, v)
    \/ \E x \in SwitchFields : Toggle(x)
    \/ FillRequired

Next ==
    \/ \E k \in {"proxy", "visitor"} : OpenNew(k)
    \/ \E n \in DOMAIN stored : OpenEdit(n) \/ OpenCopy(n)
    \/ Close
    \/ UserEdit
    \/ Submit
    \/ \E r \in requests : Answer(r)

Spec == Init /\ [][Next]_vars

(***************************************************************************)
(* Properties.                                                             *)
(***************************************************************************)
\* What frp's v1 types hold: the keys of each type and of each plugin.
PluginKeys(p) ==
    (CASE p \in HttpForwarders -> {"plugin.localAddr", "plugin.hostHeaderRewrite",
                                   "plugin.requestHeaders"}
       [] p = "tls2raw" -> {"plugin.localAddr"}
       [] p = "static_file" -> {"plugin.localPath", "plugin.stripPrefix",
                                "plugin.httpUser", "plugin.httpPassword"}
       [] p = "http_proxy" -> {"plugin.httpUser", "plugin.httpPassword"}
       [] p = "socks5" -> {"plugin.username", "plugin.password"}
       [] p = "unix_domain_socket" -> {"plugin.unixPath"}
       [] OTHER -> {})
    \cup (IF p \in TlsPlugins THEN {"plugin.crtPath", "plugin.keyPath"} ELSE {})
    \cup (IF p \in Http2Switch THEN {"plugin.enableHTTP2"} ELSE {})

TypeKeys(t) ==
    CASE t \in {"tcp", "udp"} -> {"remotePort"}
      [] t = "http" -> {"customDomains", "subdomain"} \cup HttpInputs
      [] t = "https" -> {"customDomains", "subdomain"}
      [] t = "tcpmux" -> {"customDomains", "multiplexer", "routeByHTTPUser"}
      [] OTHER -> {"secretKey", "allowUsers"}

VisitorKeys(t) ==
    {"secretKey", "serverName", "serverUser", "bindAddr", "bindPort",
     "plugin.type", "plugin.destinationIP"}
        \cup (IF t = "xtcp" THEN {"protocol"} \cup (XtcpInputs \ {"xtcpProtocol"}) ELSE {})

Schema(kind, t, p) ==
    {"type", "useEncryption", "useCompression"} \cup
    (IF kind = "visitor" THEN VisitorKeys(t)
     ELSE {"localIP", "localPort", "plugin.type"} \cup TypeKeys(t) \cup PluginKeys(p))

TypeOK ==
    /\ DOMAIN session = {"mode", "rule", "was", "touched"}
    /\ session.mode \in {"closed", "new", "edit", "copy"}
    /\ DOMAIN form = Fields
    /\ \A x \in Fields : DOMAIN form[x] = {"src", "tag"}
    /\ edits \in 0..MaxEdits /\ sessions \in 0..MaxSessions
    /\ \A n \in DOMAIN stored : stored[n].kind \in {"proxy", "visitor"}

\* Whatever was chosen in whatever order, the body of a request carries only
\* keys that the type it names and the plugin it names have, and a visitor
\* has one of the three paired types: frp drops a key of another plugin
\* without a word, and the rule then runs without it.
BodyFitsSchema ==
    \A r \in requests :
        LET t == r.body["type"].tag
        IN /\ DOMAIN r.body \subseteq Schema(r.kind, t, PluginIn(r.body))
           /\ r.kind = "visitor" => t \in PairTypes

\* A body holds values of the rule its session was opened on, of the user's
\* typing and of the code's defaults, never of a rule the drawer showed
\* before; and the keys of a plugin hold nothing that was entered for another
\* one, though two plugins share an input and the form outlives the drawer.
BodyIsOfSession ==
    \A r \in requests : \A k \in DOMAIN r.body :
        LET v == r.body[k]
            ofPlugin == k \in PluginKeys(PluginIn(r.body))
        IN /\ v.src = "rule" => v.tag = r.rule /\ (ofPlugin => k \in DOMAIN r.was)
           /\ v.src = "typed" /\ ofPlugin => v.tag = PluginIn(r.body)

\* Opening a rule to edit it and saving it as it is changes nothing the drawer
\* can show: an absent key and its default are the same rule.  allowUsers is
\* left out: the drawer fills it with "*" when the rule has none.
Default(k) ==
    CASE k \in {"useEncryption", "useCompression", "keepTunnelOpen"} -> Lit("off")
      [] k = "plugin.enableHTTP2" -> Lit("on")
      [] k = "protocol" -> Lit("quic")
      [] k = "multiplexer" -> Lit("httpconnect")
      [] OTHER -> Unset

Meaning(b, k) == IF k \in DOMAIN b /\ b[k] # Blank THEN b[k] ELSE Default(k)

UntouchedIsKept ==
    \A r \in requests : r.mode = "edit" /\ r.untouched =>
        \A k \in Schema(r.kind, r.was["type"].tag, PluginIn(r.was)) \ {"allowUsers"} :
            Meaning(r.body, k) = Meaning(r.was, k)

\* The drawer's own rule for a paired type, "a secure proxy must have a
\* secretKey": the body has one that is not empty.
SecretIsSet ==
    \A r \in requests : r.body["type"].tag \in PairTypes =>
        "secretKey" \in DOMAIN r.body /\ r.body["secretKey"] # Blank

\* Editing a rule leaves its switch alone: one that is disabled stays so.
EditKeepsSwitch ==
    [][\A n \in DOMAIN stored :
          "enabled" \in DOMAIN stored[n].body => "enabled" \in DOMAIN stored'[n].body]_stored

(***************************************************************************)
(* Strengthenings.                                                         *)
(***************************************************************************)
\* The selects hold what they offer.
Selects(f) ==
    /\ f["kind"] \in {Lit("proxy"), Lit("visitor")}
    /\ f["type"] \in TypesOf(KindOf(f))
    /\ f["pluginName"] \in {Unset} \cup {Lit(p) : p \in Plugins}
    /\ f["visitorPlugin"] \in {Unset, Lit("virtual_net")}

\* A field holds nothing, what the user typed, what the rule held, or what the
\* code writes; a switch is on, off or unset, and nothing else is off.
IsInput(n, x, v) ==
    /\ v \in {Unset, Blank, Spaces, Val("rule", n)} \/ v = Typed(v.tag) \/ v = Lit(v.tag)
    /\ x \in SwitchFields => v \in {Unset, Lit("on"), Lit("off")}
    /\ x \notin SwitchFields \cup {"name"} => v # Lit("off")

\* The inputs of the selected plugin hold what was typed for it, or what the
\* rule holds under their key.
PluginInputsOwn(f, was) ==
    \A r \in PluginRows(PluginOf(f)) :
        /\ f[r.field].src = "typed" => f[r.field].tag = PluginOf(f)
        /\ f[r.field].src = "rule" => r.key \in DOMAIN was

FormFits(f, n, was) ==
    /\ Selects(f)
    /\ \A x \in Fields : IsInput(n, x, f[x])
    /\ PluginInputsOwn(f, was)

\* A rule that is edited is as it was on disk, and so is the form until the
\* user touches it.
EditedRule == [kind |-> KindOf(form), body |-> session.was]
EditFits ==
    /\ IsRule(session.rule, EditedRule)
    /\ ~session.touched => form = WithInitial(FormOf(EditedRule, session.rule))

\* What is stored, shown and sent is a rule that frp accepts.
Fits ==
    /\ \A n \in DOMAIN stored : IsRule(n, stored[n])
    /\ session.mode # "closed" => FormFits(form, session.rule, session.was)
    /\ session.mode = "edit" => EditFits
    /\ \A r \in requests : IsRule(r.target, [kind |-> r.kind, body |-> OnDisk(r)])

=============================================================================
