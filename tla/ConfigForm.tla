----------------------------- MODULE ConfigForm -----------------------------
(***************************************************************************)
(* The "visual" tab of the instances page (web/src/pages/Configs.tsx):     *)
(* loadVisualConfig reads the configuration of an instance into an antd    *)
(* form, handleSaveVisualConfig writes a whole configuration back, built   *)
(* from the rendered fields and from what was last loaded.  A              *)
(* configuration is a function from the JSON paths it carries to values;   *)
(* meanwhile another writer (the rules tab, the TOML tab, another browser) *)
(* may change the part of it the form does not show.                       *)
(***************************************************************************)
EXTENDS Naturals, FiniteSets

CONSTANTS
    InitialDisk,  \* the configuration on disk at first: path -> value
    EditFields,   \* the text fields the user types into
    MaxEdits,     \* bound: changes the user makes
    MaxWrites,    \* bound: changes another writer makes
    MaxRequests   \* bound: requests on their way at once

VARIABLES
    disk,      \* the configuration the daemon holds
    detail,    \* detailConfig: the last one loaded, with or without the form
    form,      \* the antd form store
    filled,    \* the configuration the form was last filled from
    touched,   \* fields the user changed since the form was filled
    requests,  \* loads and saves on their way
    edits,     \* changes made by the user
    writes     \* changes made by the other writer

vars == <<disk, detail, form, filled, touched, requests, edits, writes>>

Unset == "unset"
Blank == "blank"
Truthy(v) == v \notin {Unset, Blank, "off", "zero"}
Get(c, k) == IF k \in DOMAIN c THEN c[k] ELSE Unset
Or(v, default) == IF Truthy(v) THEN v ELSE default
Given(v, default) == IF v = Unset THEN default ELSE v   \* ??

(***************************************************************************)
(* The fields: [path, field, default], the default being what the form     *)
(* shows for a path that is absent.                                        *)
(***************************************************************************)
Row(p, f, d) == [path |-> p, field |-> f, default |-> d]

OidcRows == {Row("auth.oidc.clientId", "oidcClientId", Blank),
    Row("auth.oidc.clientSecret", "oidcClientSecret", Blank),
    Row("auth.oidc.audience", "oidcAudience", Blank),
    Row("auth.oidc.scope", "oidcScope", Blank),
    Row("auth.oidc.tokenEndpointUrl", "oidcTokenEndpoint", Blank)}
CertRows == {Row("transport.tls.certFile", "tlsCertFile", Blank),
    Row("transport.tls.keyFile", "tlsKeyFile", Blank),
    Row("transport.tls.trustedCaFile", "tlsTrustedCaFile", Blank),
    Row("transport.tls.serverName", "tlsServerName", Blank)}
TextRows == {Row("frpmgr.name", "name", Blank), Row("user", "user", Blank),
    Row("serverAddr", "serverAddr", Blank), Row("serverPort", "serverPort", "7000"),
    Row("natHoleStunServer", "natHoleStunServer", Blank),
    Row("auth.method", "authMethod", "token"), Row("auth.token", "authToken", Blank),
    Row("log.level", "logLevel", "info"), Row("log.maxDays", "logMaxDays", "3"),
    Row("webServer.addr", "adminAddr", Blank), Row("webServer.port", "adminPort", Unset),
    Row("webServer.user", "adminUser", Blank), Row("webServer.password", "adminPwd", Blank),
    Row("webServer.assetsDir", "assetsDir", Blank),
    Row("transport.protocol", "protocol", "tcp"),
    Row("transport.dialServerTimeout", "dialServerTimeout", Unset),
    Row("transport.dialServerKeepAlive", "dialServerKeepAlive", Unset),
    Row("transport.poolCount", "poolCount", Unset),
    Row("transport.heartbeatInterval", "heartbeatInterval", Unset),
    Row("transport.heartbeatTimeout", "heartbeatTimeout", Unset),
    Row("virtualNet.address", "virtualNetAddress", Blank)} \cup OidcRows \cup CertRows
SwitchRows == {Row("loginFailExit", "loginFailExit", "off"),
    Row("webServer.pprofEnable", "pprofEnable", "off"),
    Row("transport.tcpMux", "tcpMux", "on"), Row("transport.tls.enable", "tlsEnable", "off"),
    Row("transport.tls.disableCustomTLSFirstByte", "disableCustomTLSFirstByte", "off")}
Rows == TextRows \cup SwitchRows
Fields == {r.field : r \in Rows} \cup {"autoStart", "virtualNetEnabled"}
RowOf == [f \in {r.field : r \in Rows} |-> CHOOSE r \in Rows : r.field = f]
RowAt == [p \in {r.path : r \in Rows} |-> CHOOSE r \in Rows : r.path = p]
Switches == {r.field : r \in SwitchRows}

\* Mutant: || in place of ??, which turns an explicit false into the default.
FormOfOr(c) ==
    [f \in Fields |->
        CASE f = "autoStart" -> IF Get(c, "frpmgr.manualStart") = "on" THEN "off" ELSE "on"
          [] f = "virtualNetEnabled" -> Or(Get(c, "featureGates.VirtualNet"), "off")
          [] OTHER -> Or(Get(c, RowOf[f].path), RowOf[f].default)]

\* loadVisualConfig: what the form shows for a configuration.
FormOf(c) ==
    [f \in Fields |->
        CASE f = "autoStart" -> IF Get(c, "frpmgr.manualStart") = "on" THEN "off" ELSE "on"
          [] f = "virtualNetEnabled" ->
                IF Get(c, "featureGates.VirtualNet") = "on" THEN "on" ELSE "off"
          [] f \in Switches -> Given(Get(c, RowOf[f].path), RowOf[f].default)
          [] OTHER -> Or(Get(c, RowOf[f].path), RowOf[f].default)]

(***************************************************************************)
(* The fields on screen, tab by tab (every inner tab is rendered at once), *)
(* and what onFinish requires.  dialServerKeepAlive has no input.          *)
(***************************************************************************)
AuthFields(f) ==
    {"authMethod"}
        \cup (IF f["authMethod"] = "token" THEN {"authToken"} ELSE {})
        \cup (IF f["authMethod"] = "oidc" THEN {r.field : r \in OidcRows} ELSE {})
\* Mutant: the certificates stay on screen without TLS.
TransportFieldsAll(f) ==
    {"protocol", "dialServerTimeout", "heartbeatInterval", "heartbeatTimeout", "poolCount",
     "tcpMux", "loginFailExit", "tlsEnable", "disableCustomTLSFirstByte"}
        \cup {r.field : r \in CertRows}

TransportFields(f) ==
    {"protocol", "dialServerTimeout", "heartbeatInterval", "heartbeatTimeout", "poolCount",
     "tcpMux", "loginFailExit", "tlsEnable", "disableCustomTLSFirstByte"}
        \cup (IF Truthy(f["tlsEnable"]) THEN {r.field : r \in CertRows} ELSE {})
VnetFields(f) ==
    {"virtualNetEnabled"}
        \cup (IF Truthy(f["virtualNetEnabled"]) THEN {"virtualNetAddress"} ELSE {})
Mounted(f) ==
    {"name", "user", "serverAddr", "serverPort", "autoStart", "natHoleStunServer",
     "logLevel", "logMaxDays", "adminAddr", "adminPort", "adminUser", "adminPwd",
     "assetsDir", "pprofEnable"}
        \cup AuthFields(f) \cup TransportFields(f) \cup VnetFields(f)
Required(f) ==
    {"serverAddr", "serverPort", "authToken", "virtualNetAddress"} \cap Mounted(f)

(***************************************************************************)
(* handleSaveVisualConfig: the configuration it sends.                     *)
(***************************************************************************)
FormPaths == {r.path : r \in Rows}
    \cup {"featureGates.VirtualNet", "featureGates.other", "frpmgr.manualStart"}
\* Inside auth, log, webServer and transport only what the form builds is sent.
RebuiltPaths == {"auth.additionalScopes", "auth.tokenSource", "auth.oidc.clientID",
    "auth.oidc.tokenEndpointURL", "auth.oidc.additionalEndpointParams",
    "auth.oidc.trustedCaFile", "auth.oidc.insecureSkipVerify", "auth.oidc.proxyURL",
    "log.to", "webServer.tls", "transport.dialServerKeepalive",
    "transport.connectServerLocalIP", "transport.proxyURL",
    "transport.tcpMuxKeepaliveInterval", "transport.quic"}
\* The parts beside them, which the save takes over from what was loaded.
KeptPaths == {"clientID", "dnsServer", "start", "udpPacketSize", "metadatas",
    "includes", "store", "proxies", "visitors", "frpmgr.autoDelete"}

Payload(d, f) ==
    LET shown == Mounted(f)
        v == [x \in Fields |-> IF x \in shown THEN f[x] ELSE Unset]
        vnet == Truthy(v["virtualNetEnabled"])
        taken == {k \in DOMAIN d : \/ k \notin FormPaths \cup RebuiltPaths
                                   \/ k = "featureGates.other" /\ vnet}
        gate == IF vnet THEN {"featureGates.VirtualNet"} ELSE {}
        switches == {r.path : r \in SwitchRows}
        texts == {r.path : r \in {t \in TextRows : Truthy(v[t.field])}} \cup {"log.maxDays"}
    IN [k \in taken \cup gate \cup switches \cup texts \cup {"frpmgr.manualStart"} |->
            CASE k = "frpmgr.manualStart" -> IF Truthy(v["autoStart"]) THEN "off" ELSE "on"
              [] k \in gate -> "on"
              [] k \in taken -> d[k]
              [] k \in switches -> Given(v[RowAt[k].field], RowAt[k].default)
              [] k \in texts -> Or(v[RowAt[k].field], RowAt[k].default)]

\* The daemon decodes three paths that the page spells in its own way, case
\* aside as Go does, and stores them in frp's spelling, which the page does not
\* read (docs/API.zh-CN.md:989-990).
PageSpelling == {"auth.oidc.clientId", "auth.oidc.tokenEndpointUrl", "transport.dialServerKeepAlive"}
FrpSpelling(p) ==
    CASE p = "auth.oidc.clientId" -> "auth.oidc.clientID"
      [] p = "auth.oidc.tokenEndpointUrl" -> "auth.oidc.tokenEndpointURL"
      [] p = "transport.dialServerKeepAlive" -> "transport.dialServerKeepalive"
      [] OTHER -> p
Decoded(c) == [k \in {FrpSpelling(p) : p \in DOMAIN c} |->
                  c[CHOOSE p \in DOMAIN c : FrpSpelling(p) = k]]

(***************************************************************************)
(* A configuration as frp accepts it: paths it has, a method of login it   *)
(* knows, switches that are on or off.                                     *)
(***************************************************************************)
SwitchPaths == {r.path : r \in SwitchRows} \cup {"featureGates.VirtualNet", "frpmgr.manualStart"}

IsConfig(c) ==
    /\ DOMAIN c \subseteq (FormPaths \cup RebuiltPaths \cup KeptPaths) \ PageSpelling
    /\ "auth.method" \in DOMAIN c => c["auth.method"] \in {"token", "oidc"}
    /\ \A p \in SwitchPaths \cap DOMAIN c : c[p] \in {"on", "off"}

ASSUME InitialDiskAssumption == IsConfig(InitialDisk)
ASSUME BoundsAssumption == {MaxEdits, MaxWrites, MaxRequests} \subseteq Nat
\* The method of login is chosen, not typed.
ASSUME EditFieldsAssumption ==
    EditFields \subseteq {r.field : r \in TextRows} \ {"authMethod"}

(***************************************************************************)
(* The actions.                                                            *)
(***************************************************************************)
\* A request: what it carries, and for a save the configuration whose kept
\* parts it took over, the one the form was filled from, and whether the form
\* was left as filled (ghosts).
Nothing == [k \in {} |-> Unset]
Ask(op) == [op |-> op, config |-> Nothing, was |-> Nothing, from |-> Nothing, clean |-> FALSE]
Load == Ask("load")   \* loadVisualConfig
Look == Ask("look")   \* loadProxies, which takes the configuration along

Init == /\ disk = InitialDisk
        /\ detail = Nothing
        /\ form = [f \in Fields |-> CASE f = "autoStart" -> "on"   \* the initialValues
                                     [] f \in {"loginFailExit", "virtualNetEnabled"} -> "off"
                                     [] OTHER -> Unset]
        /\ filled = Nothing
        /\ touched = {}
        /\ requests = {Load}
        /\ edits = 0 /\ writes = 0

Send(S) == /\ Cardinality(requests \cup S) <= MaxRequests
           /\ requests' = requests \cup S

\* The daemon reads the configuration ...
ServeLoad(r) ==
    /\ r \in requests /\ r.op \in {"load", "look"}
    /\ requests' = (requests \ {r})
          \cup {[r EXCEPT !.op = IF @ = "load" THEN "loaded" ELSE "looked", !.config = disk]}
    /\ UNCHANGED <<disk, detail, form, filled, touched, edits, writes>>

\* ... and the page takes the answer: the envelope is kept and the form is
\* filled, whatever the user has typed meanwhile.
Loaded(r) ==
    /\ r \in requests /\ r.op = "loaded"
    /\ requests' = requests \ {r}
    /\ detail' = r.config
    /\ form' = FormOf(r.config)
    /\ filled' = r.config
    /\ touched' = {}
    /\ UNCHANGED <<disk, edits, writes>>

\* The rules tab keeps the envelope too, and leaves the form as it is.
Looked(r) ==
    /\ r \in requests /\ r.op = "looked"
    /\ requests' = requests \ {r}
    /\ detail' = r.config
    /\ UNCHANGED <<disk, form, filled, touched, edits, writes>>

\* The user comes back to the tab, from another or from the rules tab, whose
\* load may still be on its way.
OpenTab == /\ Send({Load}) \/ Send({Look, Load})
           /\ UNCHANGED <<disk, detail, form, filled, touched, edits, writes>>

Type(f, v) ==
    /\ edits < MaxEdits /\ form[f] # v /\ f \in Mounted(form)
    /\ form' = [form EXCEPT ![f] = v]
    /\ touched' = touched \cup {f}
    /\ edits' = edits + 1
    /\ UNCHANGED <<disk, detail, filled, requests, writes>>

Save ==
    /\ \A f \in Required(form) : form[f] \notin {Unset, Blank}
    /\ Send({[op |-> "save", config |-> Payload(detail, form), was |-> detail,
              from |-> filled, clean |-> touched = {}]})
    /\ UNCHANGED <<disk, detail, form, filled, touched, edits, writes>>

\* A PUT that is refused changes nothing; one that succeeds reloads the form.
Saved(r) ==
    /\ r \in requests /\ r.op = "save"
    /\ \/ /\ disk' = Decoded(r.config)
          /\ requests' = (requests \ {r}) \cup {Load}
       \/ /\ requests' = requests \ {r}
          /\ UNCHANGED disk
    /\ UNCHANGED <<detail, form, filled, touched, edits, writes>>

\* Another writer: the rules of the instance change.
OtherWrite ==
    /\ writes < MaxWrites
    /\ disk' = [disk EXCEPT !["proxies"] = IF @ = "r1" THEN "r2" ELSE "r1"]
    /\ writes' = writes + 1
    /\ UNCHANGED <<detail, form, filled, touched, requests, edits>>

Next ==
    \/ \E r \in requests : ServeLoad(r) \/ Loaded(r) \/ Looked(r) \/ Saved(r)
    \/ OpenTab
    \/ \E f \in EditFields, v \in {Blank, "y"} : Type(f, v)
    \/ \E m \in {"token", "oidc", Blank} : Type("authMethod", m)
    \/ \E f \in {"tlsEnable", "virtualNetEnabled", "autoStart", "tcpMux", "loginFailExit"} :
          \E v \in {"on", "off"} : Type(f, v)
    \/ Save
    \/ OtherWrite

Spec == Init /\ [][Next]_vars

(***************************************************************************)
(* Properties.                                                             *)
(***************************************************************************)
TypeOK ==
    /\ DOMAIN form = Fields /\ touched \subseteq Fields
    /\ \A r \in requests : /\ DOMAIN r = {"op", "config", "was", "from", "clean"}
                           /\ r.op \in {"load", "look", "loaded", "looked", "save"}
    /\ edits \in 0..MaxEdits /\ writes \in 0..MaxWrites

\* The meaning of a path: a blank or absent one is what frp defaults it to.
Meaning(c, p) ==
    IF p \in {"frpmgr.manualStart", "featureGates.VirtualNet"} THEN Or(Get(c, p), "off")
    ELSE IF RowAt[p] \in SwitchRows
    THEN Given(Get(c, p), RowAt[p].default)
    ELSE Or(Get(c, p), RowAt[p].default)

Hidden(c) ==   \* what the form puts away with the switch above it
    (IF Meaning(c, "auth.method") = "oidc" THEN {"auth.token"} ELSE {r.path : r \in OidcRows})
        \cup (IF Meaning(c, "transport.tls.enable") = "on" THEN {} ELSE {r.path : r \in CertRows})
        \cup (IF Meaning(c, "featureGates.VirtualNet") = "on" THEN {} ELSE {"virtualNet.address"})

\* A form that is saved as it was filled sends, for every path it shows, what the
\* configuration it was filled from meant, and takes over as it was loaded last,
\* by either tab, what lies outside the parts it builds (KeptPaths) and, with
\* the virtual net on, the other feature gates.  Inside auth, log, webServer and
\* transport it keeps nothing beside its own fields, and without the virtual net
\* no gate: those paths this property leaves out, and RestSurvives is about them.
UntouchedSaveKeeps ==
    \A r \in requests : r.op = "save" /\ r.clean =>
        /\ \A p \in FormPaths \ ({"featureGates.other"} \cup Hidden(r.from)) :
                Meaning(r.config, p) = Meaning(r.from, p)
        /\ \A p \in KeptPaths : Get(r.config, p) = Get(r.was, p)
        /\ Meaning(r.from, "featureGates.VirtualNet") = "on" =>
                Get(r.config, "featureGates.other") = Get(r.was, "featureGates.other")

\* What is stored is what one method of login and one state of each switch
\* leave: no token beside OIDC, no certificate without TLS, no virtual address
\* without the gate, in whatever order the user went through the switches.
StoredIsCoherent ==
    \A r \in requests : r.op = "save" => Hidden(r.config) \cap DOMAIN r.config = {}

\* A save does not undo what another writer stored since the form was filled.
NoLostUpdate ==
    [][disk'["proxies"] # disk["proxies"] => writes' = writes + 1]_vars

\* What the code does not do: a save leaves alone what the form has no input
\* for.  The page spreads the parts it does not build, and builds auth, log,
\* webServer and transport anew, so that a log file, a proxy URL or a keep-alive
\* of the configuration is gone after a save that touched nothing.
RestSurvives ==
    [][\A k \in RebuiltPaths : k \in DOMAIN disk => k \in DOMAIN disk']_disk

(***************************************************************************)
(* Strengthenings.                                                         *)
(***************************************************************************)
\* The switches and the method of login hold what they offer.
Offered(f) ==
    /\ f["authMethod"] \in {"token", "oidc", Blank, Unset}
    /\ \A x \in Switches \cup {"autoStart", "virtualNetEnabled"} : f[x] \in {"on", "off", Unset}

\* What is stored, loaded and saved is a configuration that frp accepts, and
\* until the user touches it the form is the one made of what was loaded, or
\* has not been filled.
Fits ==
    /\ IsConfig(disk) /\ IsConfig(detail) /\ IsConfig(filled)
    /\ \A r \in requests : IF r.op = "save" THEN IsConfig(Decoded(r.config)) ELSE IsConfig(r.config)
    /\ Offered(form)
    /\ touched = {} => form = FormOf(filled) \/ form["serverAddr"] = Unset

=============================================================================
