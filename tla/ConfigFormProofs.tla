-------------------------- MODULE ConfigFormProofs --------------------------
EXTENDS ConfigForm, TLAPS

LEMMA RowParts == \A p, f, d : /\ Row(p, f, d).path = p
                               /\ Row(p, f, d).field = f
                               /\ Row(p, f, d).default = d
BY DEF Row

\* A row is determined by its path, and by its field.
LEMMA Columns ==
    ASSUME NEW r \in Rows, NEW s \in Rows
    PROVE  /\ r.path = s.path => r = s
           /\ r.field = s.field => r = s
BY DEF Rows, TextRows, SwitchRows, OidcRows, CertRows, Row

LEMMA RowIs ==
    ASSUME NEW r \in Rows
    PROVE  RowAt[r.path] = r /\ RowOf[r.field] = r
<1>1. RowAt[r.path] = CHOOSE s \in Rows : s.path = r.path
  BY DEF RowAt
<1>2. RowOf[r.field] = CHOOSE s \in Rows : s.field = r.field
  BY DEF RowOf
<1>. QED
  BY <1>1, <1>2, Columns

\* What the table says of each row.
LEMMA RowFacts ==
    ASSUME NEW r \in Rows
    PROVE  /\ r.field \in Fields
           /\ r.field \notin {"autoStart", "virtualNetEnabled"}
           /\ r.path \in FormPaths
           /\ r.path \notin {"featureGates.VirtualNet", "featureGates.other", "frpmgr.manualStart"}
<1>1. r.field \notin {"autoStart", "virtualNetEnabled"}
  BY DEF Rows, TextRows, SwitchRows, OidcRows, CertRows, Row
<1>2. r.path \notin {"featureGates.VirtualNet", "featureGates.other", "frpmgr.manualStart"}
  BY DEF Rows, TextRows, SwitchRows, OidcRows, CertRows, Row
<1>. QED
  BY <1>1, <1>2 DEF Fields, FormPaths

LEMMA TextIsNoSwitch ==
    ASSUME NEW r \in TextRows
    PROVE  r \in Rows /\ r \notin SwitchRows
BY DEF Rows, TextRows, SwitchRows, OidcRows, CertRows, Row

LEMMA SwitchIsRow == SwitchRows \subseteq Rows
BY DEF Rows

LEMMA SwitchFieldIsOfSwitch == \A r \in Rows : r.field \in Switches => r \in SwitchRows
BY Columns, SwitchIsRow DEF Switches

LEMMA SwitchPathIsOfSwitch ==
    \A r \in Rows : r.path \in {s.path : s \in SwitchRows} => r \in SwitchRows
BY Columns, SwitchIsRow

\* What the form shows for a row of the table.
LEMMA FormOfRow ==
    ASSUME NEW c, NEW r \in Rows
    PROVE  FormOf(c)[r.field] = IF r \in SwitchRows
                                 THEN Given(Get(c, r.path), r.default)
                                 ELSE Or(Get(c, r.path), r.default)
<1>1. RowOf[r.field] = r /\ r.field \in Fields /\ r.field \notin {"autoStart", "virtualNetEnabled"}
  BY RowIs, RowFacts
<1>2. r \in SwitchRows <=> r.field \in Switches
  BY SwitchFieldIsOfSwitch DEF Switches
<1>. QED
  BY <1>1, <1>2 DEF FormOf

LEMMA FormOfSwitches ==
    ASSUME NEW c
    PROVE  /\ FormOf(c)["autoStart"] = IF Get(c, "frpmgr.manualStart") = "on" THEN "off" ELSE "on"
           /\ FormOf(c)["virtualNetEnabled"] =
                 IF Get(c, "featureGates.VirtualNet") = "on" THEN "on" ELSE "off"
           /\ DOMAIN FormOf(c) = Fields
<1>1. {"autoStart", "virtualNetEnabled"} \subseteq Fields
  BY DEF Fields
<1>2. "autoStart" \notin Switches /\ "virtualNetEnabled" \notin Switches
  BY RowFacts, SwitchIsRow DEF Switches
<1>. QED
  BY <1>1, <1>2 DEF FormOf

\* What onFinish is handed over, field by field.
Handed(f) == [x \in Fields |-> IF x \in Mounted(f) THEN f[x] ELSE Unset]

LEMMA PayloadSwitches ==
    ASSUME NEW d, NEW f
    PROVE  /\ "frpmgr.manualStart" \in DOMAIN Payload(d, f)
           /\ Payload(d, f)["frpmgr.manualStart"] =
                 IF Truthy(Handed(f)["autoStart"]) THEN "off" ELSE "on"
           /\ "featureGates.VirtualNet" \in DOMAIN Payload(d, f)
                 <=> Truthy(Handed(f)["virtualNetEnabled"])
           /\ "featureGates.VirtualNet" \in DOMAIN Payload(d, f)
                 => Payload(d, f)["featureGates.VirtualNet"] = "on"
<1>1. "featureGates.VirtualNet" \in FormPaths /\ "frpmgr.manualStart" \in FormPaths
  BY DEF FormPaths
<1>2. \A r \in Rows : r.path \notin {"featureGates.VirtualNet", "frpmgr.manualStart"}
  BY RowFacts
<1>3. SwitchRows \subseteq Rows /\ TextRows \subseteq Rows
  BY DEF Rows
<1>. QED
  BY <1>1, <1>2, <1>3 DEF Payload, Handed

LEMMA PayloadKeeps ==
    ASSUME NEW d, NEW f, NEW p \in DOMAIN d \ (FormPaths \cup RebuiltPaths)
    PROVE  p \in DOMAIN Payload(d, f) /\ Payload(d, f)[p] = d[p]
<1>1. "featureGates.VirtualNet" \in FormPaths /\ "frpmgr.manualStart" \in FormPaths
  BY DEF FormPaths
<1>2. \A r \in Rows : r.path \in FormPaths
  BY DEF FormPaths
<1>3. SwitchRows \subseteq Rows /\ TextRows \subseteq Rows
  BY DEF Rows
<1>4. "log.maxDays" \in FormPaths
  <2>1. Row("log.maxDays", "logMaxDays", "3") \in Rows
    BY DEF Rows, TextRows
  <2>. QED
    BY <2>1, <1>2, RowParts
<1>5. /\ p \notin {r.path : r \in SwitchRows} /\ p # "log.maxDays"
      /\ p \notin {"frpmgr.manualStart", "featureGates.VirtualNet"}
      /\ \A t \in TextRows : p # t.path
  BY <1>1, <1>2, <1>3, <1>4
<1>6. p \in DOMAIN Payload(d, f)
  BY DEF Payload
<1>. QED
  BY <1>5, <1>6, Zenon DEF Payload

LEMMA PayloadDomain ==
    ASSUME NEW d, NEW f
    PROVE  DOMAIN Payload(d, f) \subseteq FormPaths \cup (DOMAIN d \ RebuiltPaths)
<1>1. "featureGates.VirtualNet" \in FormPaths /\ "frpmgr.manualStart" \in FormPaths
        /\ "featureGates.other" \in FormPaths
  BY DEF FormPaths
<1>2. \A r \in Rows : r.path \in FormPaths
  BY DEF FormPaths
<1>3. SwitchRows \subseteq Rows /\ TextRows \subseteq Rows
  BY DEF Rows
<1>4. "log.maxDays" \in FormPaths
  <2>1. Row("log.maxDays", "logMaxDays", "3") \in Rows
    BY DEF Rows, TextRows
  <2>. QED
    BY <2>1, <1>2, RowParts
<1>. QED
  BY <1>1, <1>2, <1>3, <1>4 DEF Payload

LEMMA PayloadSwitchRow ==
    ASSUME NEW d, NEW f, NEW r \in SwitchRows
    PROVE  /\ r.path \in DOMAIN Payload(d, f)
           /\ Payload(d, f)[r.path] = Given(Handed(f)[r.field], r.default)
<1>1. r \in Rows /\ RowAt[r.path] = r /\ r.path \in FormPaths
        /\ r.path \notin {"featureGates.VirtualNet", "featureGates.other", "frpmgr.manualStart"}
  BY RowIs, RowFacts, SwitchIsRow
<1>2. r.path \in {s.path : s \in SwitchRows} /\ r.path \in DOMAIN Payload(d, f)
  BY DEF Payload
<1>3. \A t \in TextRows : t.path # r.path
  BY Columns, TextIsNoSwitch, <1>1
<1>4. Row("log.maxDays", "logMaxDays", "3") \in TextRows
  BY DEF TextRows
<1>5. r.path # "log.maxDays"
  BY <1>3, <1>4, RowParts
<1>. QED
  BY <1>1, <1>2, <1>3, <1>5 DEF Payload, Handed

LEMMA PayloadTextRow ==
    ASSUME NEW d, NEW f, NEW r \in TextRows
    PROVE  /\ r.path \in DOMAIN Payload(d, f)
                 <=> Truthy(Handed(f)[r.field]) \/ r.path = "log.maxDays"
           /\ r.path \in DOMAIN Payload(d, f)
                 => Payload(d, f)[r.path] = Or(Handed(f)[r.field], r.default)
<1>1. r \in Rows /\ RowAt[r.path] = r /\ r.path \in FormPaths
        /\ r.path \notin {"featureGates.VirtualNet", "featureGates.other", "frpmgr.manualStart"}
  BY RowIs, RowFacts, TextIsNoSwitch
<1>2. r.path \notin {s.path : s \in SwitchRows}
  BY SwitchPathIsOfSwitch, TextIsNoSwitch, <1>1
<1>3. \A t \in TextRows : t.path = r.path => t = r
  BY Columns, TextIsNoSwitch
<1>. QED
  BY <1>1, <1>2, <1>3 DEF Payload, Handed

-----------------------------------------------------------------------------
\* Which fields are on screen: all but those put away with a switch, and
\* dialServerKeepAlive, which has no input.
LEMMA MountedFields ==
    ASSUME NEW f
    PROVE  /\ "authToken" \in Mounted(f) <=> f["authMethod"] = "token"
           /\ "virtualNetAddress" \in Mounted(f) <=> Truthy(f["virtualNetEnabled"])
           /\ "dialServerKeepAlive" \notin Mounted(f)
           /\ {"autoStart", "virtualNetEnabled", "authMethod", "tlsEnable"} \subseteq Mounted(f)
<1>1. \A r \in OidcRows \cup CertRows :
         r.field \notin {"authToken", "virtualNetAddress", "dialServerKeepAlive"}
  BY DEF OidcRows, CertRows, Row
<1>. QED
  BY <1>1 DEF Mounted, AuthFields, TransportFields, VnetFields

LEMMA MountedOidc ==
    ASSUME NEW f
    PROVE  \A r \in OidcRows : r.field \in Mounted(f) <=> f["authMethod"] = "oidc"
<1>1. \A r \in OidcRows : r.field \in {"oidcClientId", "oidcClientSecret", "oidcAudience", "oidcScope",
                                     "oidcTokenEndpoint"}
  BY DEF OidcRows, Row
<1>2. \A r \in CertRows : r.field \in {"tlsCertFile", "tlsKeyFile", "tlsTrustedCaFile", "tlsServerName"}
  BY DEF CertRows, Row
<1>. QED
  BY <1>1, <1>2 DEF Mounted, AuthFields, TransportFields, VnetFields

LEMMA MountedCert ==
    ASSUME NEW f
    PROVE  \A r \in CertRows : r.field \in Mounted(f) <=> Truthy(f["tlsEnable"])
<1>1. \A r \in OidcRows : r.field \in {"oidcClientId", "oidcClientSecret", "oidcAudience", "oidcScope",
                                     "oidcTokenEndpoint"}
  BY DEF OidcRows, Row
<1>2. \A r \in CertRows : r.field \in {"tlsCertFile", "tlsKeyFile", "tlsTrustedCaFile", "tlsServerName"}
  BY DEF CertRows, Row
<1>. QED
  BY <1>1, <1>2 DEF Mounted, AuthFields, TransportFields, VnetFields

LEMMA MountedRest ==
    ASSUME NEW f, NEW r \in Rows \ (OidcRows \cup CertRows),
           r.field \notin {"authToken", "virtualNetAddress", "dialServerKeepAlive"}
    PROVE  r.field \in Mounted(f)
<1>. DEFINE Always ==
    {"name", "user", "serverAddr", "serverPort", "natHoleStunServer",
     "logLevel", "logMaxDays", "adminAddr", "adminPort", "adminUser", "adminPwd",
     "assetsDir", "pprofEnable", "authMethod",
     "protocol", "dialServerTimeout", "heartbeatInterval", "heartbeatTimeout", "poolCount",
     "tcpMux", "loginFailExit", "tlsEnable", "disableCustomTLSFirstByte"}
<1>1. r.field \in Always
  BY DEF Rows, TextRows, SwitchRows, Row
<1>2. Always \subseteq Mounted(f)
  BY DEF Mounted, AuthFields, TransportFields
<1>. QED
  BY <1>1, <1>2

LEMMA MountedIsField == \A f : Mounted(f) \subseteq Fields
<1>. SUFFICES ASSUME NEW f, NEW x \in Mounted(f) PROVE x \in Fields
  OBVIOUS
<1>1. \A r \in OidcRows \cup CertRows : r.field \in Fields
  BY RowFacts DEF Rows, TextRows
<1>2. x \in {"name", "user", "serverAddr", "serverPort", "natHoleStunServer", "authMethod", "authToken",
            "logLevel", "logMaxDays", "adminAddr", "adminPort", "adminUser", "adminPwd", "assetsDir"}
        => x \in Fields
  <2>1. ASSUME NEW p, NEW d, Row(p, x, d) \in Rows
        PROVE  x \in Fields
    BY <2>1, RowParts, RowFacts
  <2>. QED
    BY <2>1 DEF Rows, TextRows
<1>3. x \in {"protocol", "dialServerTimeout", "heartbeatInterval", "heartbeatTimeout", "poolCount",
            "virtualNetAddress"}
        => x \in Fields
  <2>1. ASSUME NEW p, NEW d, Row(p, x, d) \in Rows
        PROVE  x \in Fields
    BY <2>1, RowParts, RowFacts
  <2>. QED
    BY <2>1 DEF Rows, TextRows
<1>4. x \in {"tcpMux", "loginFailExit", "tlsEnable", "disableCustomTLSFirstByte", "pprofEnable"}
        => x \in Fields
  <2>1. ASSUME NEW p, NEW d, Row(p, x, d) \in Rows
        PROVE  x \in Fields
    BY <2>1, RowParts, RowFacts
  <2>. QED
    BY <2>1 DEF Rows, SwitchRows
<1>5. {"autoStart", "virtualNetEnabled"} \subseteq Fields
  BY DEF Fields
<1>. QED
  BY <1>1, <1>2, <1>3, <1>4, <1>5 DEF Mounted, AuthFields, TransportFields, VnetFields

\* The rows that the switches are read from, and those they put away.
LEMMA KeyRows ==
    /\ Row("auth.method", "authMethod", "token") \in TextRows
    /\ Row("auth.token", "authToken", Blank) \in TextRows
    /\ Row("virtualNet.address", "virtualNetAddress", Blank) \in TextRows
    /\ Row("transport.dialServerKeepAlive", "dialServerKeepAlive", Unset) \in TextRows
    /\ Row("transport.tls.enable", "tlsEnable", "off") \in SwitchRows
    /\ OidcRows \subseteq TextRows /\ CertRows \subseteq TextRows
BY DEF TextRows, SwitchRows

\* A path means what the form would show for it.
LEMMA MeaningOfRow ==
    ASSUME NEW c, NEW r \in Rows
    PROVE  Meaning(c, r.path) = FormOf(c)[r.field]
BY RowIs, RowFacts, FormOfRow DEF Meaning

\* What a save leaves of the paths that the switches put away: nothing.
LEMMA PayloadCoherent ==
    ASSUME NEW d, NEW f, Offered(f)
    PROVE  Hidden(Payload(d, f)) \cap DOMAIN Payload(d, f) = {}
<1>. DEFINE P == Payload(d, f)
<1>0. /\ f["authMethod"] \in {"token", "oidc", Blank, Unset}
      /\ f["tlsEnable"] \in {"on", "off", Unset}
      /\ f["virtualNetEnabled"] \in {"on", "off", Unset}
  <2>1. "tlsEnable" \in Switches
    BY KeyRows, RowParts DEF Switches
  <2>. QED
    BY <2>1 DEF Offered
<1>1. /\ \A r \in Rows : Handed(f)[r.field] = IF r.field \in Mounted(f) THEN f[r.field] ELSE Unset
      /\ Handed(f)["virtualNetEnabled"] = f["virtualNetEnabled"]
  <2>1. "virtualNetEnabled" \in Fields
    BY DEF Fields
  <2>. QED
    BY <2>1, RowFacts, MountedFields DEF Handed
<1>2. \A r \in TextRows : r \in Rows /\ r \notin SwitchRows
  BY TextIsNoSwitch
<1>3. \A r \in TextRows : r.field \notin Mounted(f) /\ r.path # "log.maxDays" => r.path \notin DOMAIN P
  BY <1>1, <1>2, PayloadTextRow DEF Truthy
<1>4. Meaning(P, "auth.method") = "oidc" <=> f["authMethod"] = "oidc"
  <2>. DEFINE r == Row("auth.method", "authMethod", "token")
  <2>1. r \in TextRows /\ r.path = "auth.method" /\ r.field = "authMethod" /\ r.default = "token"
    BY KeyRows, RowParts
  <2>. HIDE DEF r
  <2>2. Handed(f)["authMethod"] = f["authMethod"]
    BY <1>1, <1>2, <2>1, MountedFields
  <2>3. /\ "auth.method" \in DOMAIN P <=> Truthy(f["authMethod"])
        /\ "auth.method" \in DOMAIN P => P["auth.method"] = Or(f["authMethod"], "token")
    BY <2>1, <2>2, PayloadTextRow
  <2>4. Meaning(P, "auth.method") = Or(Get(P, "auth.method"), "token")
    BY <2>1, <1>2, RowIs DEF Meaning
  <2>. QED
    BY <2>3, <2>4, <1>0 DEF Or, Given, Get, Truthy, Unset, Blank
<1>5. Meaning(P, "transport.tls.enable") = "on" <=> Truthy(f["tlsEnable"])
  <2>. DEFINE r == Row("transport.tls.enable", "tlsEnable", "off")
  <2>1. r \in SwitchRows /\ r.path = "transport.tls.enable" /\ r.field = "tlsEnable" /\ r.default = "off"
    BY KeyRows, RowParts
  <2>. HIDE DEF r
  <2>2. Handed(f)["tlsEnable"] = f["tlsEnable"]
    BY <1>1, SwitchIsRow, <2>1, MountedFields
  <2>3. "transport.tls.enable" \in DOMAIN P /\ P["transport.tls.enable"] = Or(f["tlsEnable"], "off")
    BY <1>0, <2>1, <2>2, PayloadSwitchRow DEF Or, Given, Truthy, Unset, Blank
  <2>4. Meaning(P, "transport.tls.enable")
           = Given(Get(P, "transport.tls.enable"), "off")
    BY <2>1, SwitchIsRow, RowIs DEF Meaning
  <2>. QED
    BY <2>3, <2>4, <1>0 DEF Or, Given, Get, Truthy, Unset, Blank
<1>6. Meaning(P, "featureGates.VirtualNet") = "on" <=> Truthy(f["virtualNetEnabled"])
  BY <1>1, PayloadSwitches DEF Meaning, Or, Given, Get, Truthy, Unset, Blank
<1>7. \A r \in OidcRows \cup CertRows : r.path # "log.maxDays"
  BY DEF OidcRows, CertRows, Row
<1>8. f["authMethod"] # "oidc" => \A r \in OidcRows : r.path \notin DOMAIN P
  BY <1>3, <1>7, KeyRows, MountedOidc
<1>9. ~Truthy(f["tlsEnable"]) => \A r \in CertRows : r.path \notin DOMAIN P
  BY <1>3, <1>7, KeyRows, MountedCert
<1>10. f["authMethod"] # "token" => "auth.token" \notin DOMAIN P
  BY <1>3, KeyRows, RowParts, MountedFields
<1>11. ~Truthy(f["virtualNetEnabled"]) => "virtualNet.address" \notin DOMAIN P
  BY <1>3, KeyRows, RowParts, MountedFields
<1>. HIDE DEF P
<1>12. Hidden(P) \cap DOMAIN P = {}
  BY <1>4, <1>5, <1>6, <1>8, <1>9, <1>10, <1>11 DEF Hidden
<1>. QED
  BY <1>12 DEF P

-----------------------------------------------------------------------------
LEMMA SwitchDefaults == \A r \in SwitchRows : r.default \in {"on", "off"} /\ r.path \in SwitchPaths
BY DEF SwitchRows, SwitchPaths, Row

\* The form of a configuration that frp accepts holds what it offers.
LEMMA FormOfOffered ==
    ASSUME NEW c, IsConfig(c)
    PROVE  Offered(FormOf(c))
<1>1. FormOf(c)["authMethod"] \in {"token", "oidc"}
  <2>. DEFINE r == Row("auth.method", "authMethod", "token")
  <2>1. r \in TextRows /\ r.path = "auth.method" /\ r.field = "authMethod" /\ r.default = "token"
    BY KeyRows, RowParts
  <2>. HIDE DEF r
  <2>2. FormOf(c)["authMethod"] = Or(Get(c, "auth.method"), "token")
    BY <2>1, TextIsNoSwitch, FormOfRow
  <2>. QED
    BY <2>2 DEF IsConfig, Or, Given, Get, Truthy, Unset, Blank
<1>2. ASSUME NEW r \in SwitchRows
      PROVE  FormOf(c)[r.field] \in {"on", "off"}
  <2>1. FormOf(c)[r.field] = Given(Get(c, r.path), r.default)
    BY SwitchIsRow, FormOfRow
  <2>2. r.path \in DOMAIN c => c[r.path] \in {"on", "off"}
    BY SwitchDefaults DEF IsConfig
  <2>. QED
    BY <2>1, <2>2, SwitchDefaults DEF Get, Given
<1>3. \A x \in Switches : FormOf(c)[x] \in {"on", "off"}
  BY <1>2 DEF Switches
<1>4. FormOf(c)["autoStart"] \in {"on", "off"} /\ FormOf(c)["virtualNetEnabled"] \in {"on", "off"}
  BY FormOfSwitches
<1>. QED
  BY <1>1, <1>3, <1>4 DEF Offered

\* A path of a switch that is always sent means what it meant.
LEMMA SwitchRowKept ==
    ASSUME NEW c, IsConfig(c), NEW d, NEW r \in SwitchRows
    PROVE  Meaning(Payload(d, FormOf(c)), r.path) = Meaning(c, r.path)
<1>. DEFINE f == FormOf(c)
            P == Payload(d, f)
<1>1. r \in Rows /\ RowAt[r.path] = r
        /\ r.path \notin {"featureGates.VirtualNet", "frpmgr.manualStart"}
  BY SwitchIsRow, RowIs, RowFacts
<1>2. r.field \in Mounted(f)
  <2>1. /\ r \notin OidcRows \cup CertRows
        /\ r.field \notin {"authToken", "virtualNetAddress", "dialServerKeepAlive"}
    <3>1. r.field \in {"loginFailExit", "pprofEnable", "tcpMux", "tlsEnable", "disableCustomTLSFirstByte"}
      BY DEF SwitchRows, Row
    <3>. QED
      BY <3>1, KeyRows, TextIsNoSwitch
  <2>. QED
    BY <1>1, <2>1, MountedRest
<1>3. f[r.field] = Given(Get(c, r.path), r.default)
  BY <1>1, FormOfRow
<1>4. f[r.field] \in {"on", "off"}
  <2>1. r.path \in DOMAIN c => c[r.path] \in {"on", "off"}
    BY SwitchDefaults DEF IsConfig
  <2>. QED
    BY <1>3, <2>1, SwitchDefaults DEF Get, Given
<1>5. Handed(f)[r.field] = f[r.field]
  BY <1>1, <1>2, RowFacts DEF Handed
<1>6. r.path \in DOMAIN P /\ P[r.path] = f[r.field]
  BY <1>4, <1>5, PayloadSwitchRow DEF Unset, Given
<1>. HIDE DEF P, f
<1>7. P[r.path] = f[r.field] /\ Get(P, r.path) = f[r.field] /\ f[r.field] # Unset
  BY <1>4, <1>6 DEF Get, Unset
<1>8. Meaning(P, r.path) = f[r.field]
  BY <1>1, <1>7 DEF Meaning, Given
<1>9. Meaning(c, r.path) = f[r.field]
  BY <1>1, <1>3 DEF Meaning
<1>. QED
  BY <1>8, <1>9 DEF P, f

\* So does a path of a text, unless a switch has put it away.
LEMMA TextRowKept ==
    ASSUME NEW c, IsConfig(c), NEW d, NEW r \in TextRows, r.path \notin Hidden(c)
    PROVE  Meaning(Payload(d, FormOf(c)), r.path) = Meaning(c, r.path)
<1>. DEFINE f == FormOf(c)
            P == Payload(d, f)
<1>1. r \in Rows /\ r \notin SwitchRows /\ RowAt[r.path] = r
        /\ r.path \notin {"featureGates.VirtualNet", "frpmgr.manualStart"}
  BY TextIsNoSwitch, RowIs, RowFacts
<1>2. f[r.field] = Or(Get(c, r.path), r.default)
  BY <1>1, FormOfRow
<1>3. Meaning(c, r.path) = Or(Get(c, r.path), r.default)
  BY <1>1 DEF Meaning
<1>4. Meaning(P, r.path) = Or(Get(P, r.path), r.default)
  BY <1>1 DEF Meaning
<1>5. /\ r.path \in DOMAIN P <=> Truthy(Handed(f)[r.field]) \/ r.path = "log.maxDays"
      /\ r.path \in DOMAIN P => P[r.path] = Or(Handed(f)[r.field], r.default)
  BY PayloadTextRow
<1>6. CASE r.field \in Mounted(f)
  <2>1. Handed(f)[r.field] = Or(Get(c, r.path), r.default)
    BY <1>1, <1>2, <1>6, RowFacts DEF Handed
  <2>2. r.path = "log.maxDays" => Truthy(r.default)
    <3>1. Row("log.maxDays", "logMaxDays", "3") \in Rows
      BY DEF Rows, TextRows
    <3>2. r.path = "log.maxDays" => r.default = "3"
      BY <1>1, <3>1, Columns, RowParts
    <3>. QED
      BY <3>2 DEF Truthy, Unset, Blank
  <2>3. r.default \in {Unset, Blank} \/ Truthy(r.default)
    BY DEF TextRows, OidcRows, CertRows, Row, Truthy, Unset, Blank
  <2>. HIDE DEF P, f
  <2>4. Meaning(P, r.path) = Meaning(c, r.path)
    BY <1>3, <1>4, <1>5, <2>1, <2>2, <2>3 DEF Or, Get, Truthy
  <2>. QED
    BY <2>4 DEF P, f
<1>7. CASE r.field \notin Mounted(f)
  <2>1. Handed(f)[r.field] = Unset
    BY <1>1, <1>7, RowFacts DEF Handed
  <2>2. r.field = "dialServerKeepAlive"
    <3>1. f["authMethod"] = Meaning(c, "auth.method") /\ f["authMethod"] \in {"token", "oidc"}
      <4>. DEFINE m == Row("auth.method", "authMethod", "token")
      <4>1. m \in TextRows /\ m.path = "auth.method" /\ m.field = "authMethod" /\ m.default = "token"
        BY KeyRows, RowParts
      <4>. HIDE DEF m
      <4>2. f["authMethod"] = Or(Get(c, "auth.method"), "token")
        BY <4>1, TextIsNoSwitch, FormOfRow
      <4>3. f["authMethod"] \in {"token", "oidc"}
        BY <4>2 DEF IsConfig, Or, Given, Get, Truthy, Unset, Blank
      <4>. QED
        BY <4>1, <4>3, TextIsNoSwitch, MeaningOfRow
    <3>2. f["tlsEnable"] = Meaning(c, "transport.tls.enable")
      BY KeyRows, RowParts, SwitchIsRow, MeaningOfRow
    <3>3. Truthy(f["virtualNetEnabled"]) <=> Meaning(c, "featureGates.VirtualNet") = "on"
      BY FormOfSwitches DEF Meaning, Or, Given, Get, Truthy, Unset, Blank
    <3>4. Truthy(f["tlsEnable"]) <=> f["tlsEnable"] = "on"
      <4>1. f["tlsEnable"] \in {"on", "off", Unset}
        BY FormOfOffered, KeyRows, RowParts DEF Offered, Switches
      <4>. QED
        BY <4>1 DEF Truthy, Unset, Blank
    <3>5. r \notin OidcRows
      BY <1>7, <3>1, MountedOidc DEF Hidden
    <3>6. r \notin CertRows
      BY <1>7, <3>2, <3>4, MountedCert DEF Hidden
    <3>7. r.field # "authToken"
      <4>1. r.field = "authToken" => r.path = "auth.token"
        BY <1>1, KeyRows, RowParts, Columns, TextIsNoSwitch
      <4>. QED
        BY <1>7, <3>1, <4>1, MountedFields DEF Hidden
    <3>8. r.field # "virtualNetAddress"
      <4>1. r.field = "virtualNetAddress" => r.path = "virtualNet.address"
        BY <1>1, KeyRows, RowParts, Columns, TextIsNoSwitch
      <4>. QED
        BY <1>7, <3>3, <4>1, MountedFields DEF Hidden
    <3>. QED
      BY <1>1, <1>7, <3>5, <3>6, <3>7, <3>8, MountedRest
  <2>3. r.path = "transport.dialServerKeepAlive"
    BY <2>2, <1>1, KeyRows, RowParts, Columns, TextIsNoSwitch
  <2>4. r.path \notin DOMAIN c
    BY <2>3 DEF IsConfig, PageSpelling
  <2>. HIDE DEF P, f
  <2>5. Meaning(P, r.path) = Meaning(c, r.path)
    BY <1>3, <1>4, <1>5, <2>1, <2>3, <2>4 DEF Or, Get, Truthy
  <2>. QED
    BY <2>5 DEF P, f
<1>. QED
  BY <1>6, <1>7

\* What lies outside the parts that the form builds is what was loaded.
LEMMA KeptIsKept ==
    ASSUME NEW d, NEW f, NEW p \in KeptPaths
    PROVE  Get(Payload(d, f), p) = Get(d, p)
<1>1. p \notin FormPaths \cup RebuiltPaths
  <2>1. p \notin {r.path : r \in TextRows}
    BY DEF KeptPaths, TextRows, OidcRows, CertRows, Row
  <2>2. p \notin {r.path : r \in SwitchRows}
    BY DEF KeptPaths, SwitchRows, Row
  <2>3. p \notin RebuiltPaths
           /\ p \notin {"featureGates.VirtualNet", "featureGates.other", "frpmgr.manualStart"}
    BY DEF KeptPaths, RebuiltPaths
  <2>. QED
    BY <2>1, <2>2, <2>3 DEF FormPaths, Rows
<1>2. p \in DOMAIN d => p \in DOMAIN Payload(d, f) /\ Payload(d, f)[p] = d[p]
  BY <1>1, PayloadKeeps
<1>3. p \notin DOMAIN d => p \notin DOMAIN Payload(d, f)
  BY <1>1, PayloadDomain
<1>. QED
  BY <1>2, <1>3 DEF Get

\* With the virtual net on, the other feature gates are those that were loaded.
LEMMA GatesKept ==
    ASSUME NEW c, NEW d, Meaning(c, "featureGates.VirtualNet") = "on"
    PROVE  Get(Payload(d, FormOf(c)), "featureGates.other") = Get(d, "featureGates.other")
<1>. DEFINE f == FormOf(c)
            o == "featureGates.other"
<1>1. f["virtualNetEnabled"] = "on"
  BY FormOfSwitches DEF Meaning, Get, Or, Unset
<1>2. Truthy(Handed(f)["virtualNetEnabled"])
  BY <1>1, MountedFields DEF Handed, Fields, Truthy, Unset, Blank
<1>3. \A r \in Rows : r.path # o
  BY RowFacts
<1>4. SwitchRows \subseteq Rows /\ TextRows \subseteq Rows
  BY DEF Rows
<1>5. Row("log.maxDays", "logMaxDays", "3") \in Rows
  BY DEF Rows, TextRows
<1>6. o # "log.maxDays"
  BY <1>3, <1>5, RowParts
<1>. HIDE DEF f
<1>7. o \in DOMAIN d => o \in DOMAIN Payload(d, f) /\ Payload(d, f)[o] = d[o]
  BY <1>2, <1>3, <1>4, <1>6 DEF Payload, Handed
<1>8. o \notin DOMAIN d => o \notin DOMAIN Payload(d, f)
  BY <1>3, <1>4, <1>6 DEF Payload
<1>. QED
  BY <1>7, <1>8 DEF Get, f

\* Saving what was loaded keeps every path the form shows.
LEMMA RoundTrip ==
    ASSUME NEW c, IsConfig(c), NEW d
    PROVE  \A p \in FormPaths \ ({"featureGates.other"} \cup Hidden(c)) :
              Meaning(Payload(d, FormOf(c)), p) = Meaning(c, p)
<1>. DEFINE f == FormOf(c)
            P == Payload(d, f)
<1>2. Meaning(P, "frpmgr.manualStart") = Meaning(c, "frpmgr.manualStart")
  <2>1. Handed(f)["autoStart"] = f["autoStart"]
    BY MountedFields DEF Handed, Fields
  <2>2. "frpmgr.manualStart" \in DOMAIN c => c["frpmgr.manualStart"] \in {"on", "off"}
    BY DEF IsConfig, SwitchPaths
  <2>3. Get(P, "frpmgr.manualStart") = IF Truthy(f["autoStart"]) THEN "off" ELSE "on"
    BY <2>1, PayloadSwitches DEF Get
  <2>4. f["autoStart"] = IF Get(c, "frpmgr.manualStart") = "on" THEN "off" ELSE "on"
    BY FormOfSwitches
  <2>. HIDE DEF P, f
  <2>. QED
    BY <2>2, <2>3, <2>4 DEF Meaning, Or, Given, Get, Truthy, Unset, Blank
<1>3. Meaning(P, "featureGates.VirtualNet") = Meaning(c, "featureGates.VirtualNet")
  <2>1. Handed(f)["virtualNetEnabled"] = f["virtualNetEnabled"]
    BY MountedFields DEF Handed, Fields
  <2>2. "featureGates.VirtualNet" \in DOMAIN c => c["featureGates.VirtualNet"] \in {"on", "off"}
    BY DEF IsConfig, SwitchPaths
  <2>3. Get(P, "featureGates.VirtualNet") = IF Truthy(f["virtualNetEnabled"]) THEN "on" ELSE Unset
    BY <2>1, PayloadSwitches DEF Get
  <2>4. f["virtualNetEnabled"] = IF Get(c, "featureGates.VirtualNet") = "on" THEN "on" ELSE "off"
    BY FormOfSwitches
  <2>. HIDE DEF P, f
  <2>. QED
    BY <2>2, <2>3, <2>4 DEF Meaning, Or, Given, Get, Truthy, Unset, Blank
<1>4. \A r \in Rows : r.path \notin Hidden(c) => Meaning(P, r.path) = Meaning(c, r.path)
  BY SwitchRowKept, TextRowKept DEF Rows
<1>. HIDE DEF P, f
<1>5. \A p \in FormPaths \ ({"featureGates.other"} \cup Hidden(c)) : Meaning(P, p) = Meaning(c, p)
  BY <1>2, <1>3, <1>4 DEF FormPaths
<1>. QED
  BY <1>5 DEF P, f

\* What a save sends, as the daemon decodes it, is a configuration again.
LEMMA DecodedFits ==
    ASSUME NEW d, IsConfig(d), NEW f, Offered(f)
    PROVE  IsConfig(Decoded(Payload(d, f)))
<1>. DEFINE P == Payload(d, f)
            C == Decoded(P)
<1>1. DOMAIN P \subseteq FormPaths \cup KeptPaths
  BY PayloadDomain DEF IsConfig
<1>2. \A p : /\ p \notin PageSpelling => FrpSpelling(p) = p
             /\ p \in PageSpelling => FrpSpelling(p) \in RebuiltPaths
             /\ FrpSpelling(p) \notin PageSpelling
  BY DEF FrpSpelling, PageSpelling, RebuiltPaths
<1>3. DOMAIN C = {FrpSpelling(p) : p \in DOMAIN P}
  BY DEF Decoded
<1>4. DOMAIN C \subseteq (FormPaths \cup RebuiltPaths \cup KeptPaths) \ PageSpelling
  BY <1>1, <1>2, <1>3
<1>5. ASSUME NEW k \in DOMAIN C, k \notin RebuiltPaths
      PROVE  k \in DOMAIN P /\ C[k] = P[k]
  <2>1. \A p \in DOMAIN P : FrpSpelling(p) = k <=> p = k
    BY <1>2, <1>3, <1>5
  <2>2. k \in DOMAIN P
    BY <1>3, <2>1
  <2>3. C[k] = P[CHOOSE p \in DOMAIN P : FrpSpelling(p) = k]
    BY DEF Decoded
  <2>. QED
    BY <2>1, <2>2, <2>3
<1>6. \A r \in Rows : Handed(f)[r.field] \in {f[r.field], Unset}
  BY RowFacts DEF Handed
<1>7. "auth.method" \in DOMAIN P => P["auth.method"] \in {"token", "oidc"}
  <2>1. Handed(f)["authMethod"] \in {"token", "oidc", Blank, Unset}
    BY <1>6, KeyRows, RowParts, TextIsNoSwitch DEF Offered
  <2>2. /\ "auth.method" \in DOMAIN P => P["auth.method"] = Or(Handed(f)["authMethod"], "token")
    BY KeyRows, RowParts, PayloadTextRow
  <2>. QED
    BY <2>1, <2>2 DEF Or, Given, Truthy, Unset, Blank
<1>8. ASSUME NEW r \in SwitchRows
      PROVE  P[r.path] \in {"on", "off"}
  <2>1. f[r.field] \in {"on", "off", Unset}
    BY DEF Offered, Switches
  <2>2. P[r.path] = Given(Handed(f)[r.field], r.default)
    BY PayloadSwitchRow
  <2>. QED
    BY <1>6, SwitchIsRow, SwitchDefaults, <2>1, <2>2 DEF Given
<1>9. \A p \in SwitchPaths \cap DOMAIN P : P[p] \in {"on", "off"}
  BY <1>8, PayloadSwitches DEF SwitchPaths
<1>10. SwitchPaths \cap RebuiltPaths = {} /\ "auth.method" \notin RebuiltPaths
  BY DEF SwitchPaths, SwitchRows, Row, RebuiltPaths
<1>. HIDE DEF P, C
<1>11. IsConfig(C)
  BY <1>4, <1>5, <1>7, <1>9, <1>10 DEF IsConfig
<1>. QED
  BY <1>11 DEF C, P

-----------------------------------------------------------------------------
\* The invariant: what each request must satisfy, and the rest of the state.
RequestFits(r) ==
    /\ DOMAIN r = {"op", "config", "was", "from", "clean"}
    /\ r.op \in {"load", "look", "loaded", "looked", "save"}
    /\ IF r.op = "save" THEN IsConfig(Decoded(r.config)) ELSE IsConfig(r.config)
    /\ r.op = "save" /\ r.clean =>
          /\ \A p \in FormPaths \ ({"featureGates.other"} \cup Hidden(r.from)) :
                  Meaning(r.config, p) = Meaning(r.from, p)
          /\ \A p \in KeptPaths : Get(r.config, p) = Get(r.was, p)
          /\ Meaning(r.from, "featureGates.VirtualNet") = "on" =>
                  Get(r.config, "featureGates.other") = Get(r.was, "featureGates.other")
    /\ r.op = "save" => Hidden(r.config) \cap DOMAIN r.config = {}

FormHolds ==
    /\ DOMAIN form = Fields /\ touched \subseteq Fields
    /\ Offered(form)
    /\ touched = {} => form = FormOf(filled) \/ form["serverAddr"] = Unset

IInv ==
    /\ IsConfig(disk) /\ IsConfig(detail) /\ IsConfig(filled)
    /\ FormHolds
    /\ \A r \in requests : RequestFits(r)
    /\ edits \in 0..MaxEdits /\ writes \in 0..MaxWrites

LEMMA IInvIs == IInv => TypeOK /\ Fits /\ UntouchedSaveKeeps /\ StoredIsCoherent
<1>1. IInv => TypeOK
  BY DEF IInv, FormHolds, RequestFits, TypeOK
<1>2. IInv => Fits
  BY DEF IInv, FormHolds, RequestFits, Fits
<1>3. IInv => UntouchedSaveKeeps
  BY DEF IInv, RequestFits, UntouchedSaveKeeps
<1>4. IInv => StoredIsCoherent
  BY DEF IInv, RequestFits, StoredIsCoherent
<1>. QED
  BY <1>1, <1>2, <1>3, <1>4

LEMMA NothingFits == IsConfig(Nothing) /\ RequestFits(Load) /\ RequestFits(Look)
<1>1. IsConfig(Nothing)
  BY DEF IsConfig, Nothing
<1>. QED
  BY <1>1 DEF RequestFits, Load, Look, Ask

LEMMA InitHolds == Init => IInv
<1>. SUFFICES ASSUME Init PROVE IInv
  OBVIOUS
<1>1. IsConfig(disk) /\ IsConfig(detail) /\ IsConfig(filled)
  BY InitialDiskAssumption, NothingFits DEF Init
<1>2. FormHolds
  <2>1. Switches \cup {"autoStart", "virtualNetEnabled", "authMethod"} \subseteq Fields
    BY RowFacts, SwitchIsRow, KeyRows, RowParts, TextIsNoSwitch DEF Switches, Fields
  <2>2. "serverAddr" \in Fields
    BY MountedIsField DEF Mounted
  <2>3. \A x \in Fields : form[x] = IF x = "autoStart" THEN "on"
                                   ELSE IF x \in {"loginFailExit", "virtualNetEnabled"} THEN "off"
                                   ELSE Unset
    BY DEF Init
  <2>4. Offered(form)
    BY <2>1, <2>3 DEF Offered
  <2>5. DOMAIN form = Fields /\ touched \subseteq Fields
    BY DEF Init
  <2>. QED
    BY <2>2, <2>3, <2>4, <2>5 DEF FormHolds
<1>3. \A r \in requests : RequestFits(r)
  BY NothingFits DEF Init
<1>4. edits \in 0..MaxEdits /\ writes \in 0..MaxWrites
  BY BoundsAssumption DEF Init
<1>. QED
  BY <1>1, <1>2, <1>3, <1>4 DEF IInv

\* A field that takes text is none that the form offers choices for.
LEMMA EditKeepsOffered ==
    ASSUME Offered(form), DOMAIN form = Fields, NEW x \in EditFields, NEW v
    PROVE  Offered([form EXCEPT ![x] = v])
<1>1. PICK r \in TextRows : r.field = x /\ x # "authMethod"
  BY EditFieldsAssumption
<1>2. x \notin Switches \cup {"autoStart", "virtualNetEnabled"}
  BY <1>1, TextIsNoSwitch, RowFacts, SwitchFieldIsOfSwitch
<1>. QED
  BY <1>1, <1>2 DEF Offered

LEMMA TypeKeeps ==
    ASSUME IInv, NEW x, NEW v, Type(x, v), Offered([form EXCEPT ![x] = v])
    PROVE  IInv'
<1>. USE DEF Type
<1>1. x \in Fields
  BY MountedIsField
<1>2. FormHolds'
  BY <1>1 DEF IInv, FormHolds, Offered
<1>3. (edits \in 0..MaxEdits /\ writes \in 0..MaxWrites)'
  BY BoundsAssumption DEF IInv
<1>4. (\A r \in requests : RequestFits(r))'
  BY DEF IInv, RequestFits
<1>5. (IsConfig(disk) /\ IsConfig(detail) /\ IsConfig(filled))'
  BY DEF IInv, IsConfig
<1>. QED
  BY <1>2, <1>3, <1>4, <1>5 DEF IInv

\* What is chosen is what the field offers.
LEMMA ChoiceKeepsOffered ==
    ASSUME Offered(form), DOMAIN form = Fields
    PROVE  /\ \A m \in {"token", "oidc", Blank} : Offered([form EXCEPT !["authMethod"] = m])
           /\ \A x \in Fields \ {"authMethod"}, v \in {"on", "off"} : Offered([form EXCEPT ![x] = v])
<1>1. "authMethod" \notin Switches \cup {"autoStart", "virtualNetEnabled"}
  BY KeyRows, RowParts, TextIsNoSwitch, SwitchFieldIsOfSwitch
<1>. QED
  BY <1>1 DEF Offered

LEMMA ServeLoadKeeps == ASSUME IInv, NEW r \in requests, ServeLoad(r) PROVE IInv'
<1>. USE DEF ServeLoad
<1>. DEFINE q == [r EXCEPT !.op = IF @ = "load" THEN "loaded" ELSE "looked", !.config = disk]
<1>1. RequestFits(q)
  <2>1. DOMAIN q = DOMAIN r /\ q.op \in {"loaded", "looked"} /\ q.config = disk
    BY DEF IInv, RequestFits
  <2>. HIDE DEF q
  <2>. QED
    BY <2>1 DEF IInv, RequestFits
<1>2. requests' = (requests \ {r}) \cup {q}
  OBVIOUS
<1>. HIDE DEF q
<1>3. (\A x \in requests : RequestFits(x))'
  BY <1>1, <1>2 DEF IInv, RequestFits
<1>. QED
  BY <1>3 DEF IInv, FormHolds, Offered, IsConfig

LEMMA LoadedKeeps == ASSUME IInv, NEW r \in requests, Loaded(r) PROVE IInv'
<1>. USE DEF Loaded
<1>1. IsConfig(r.config)
  BY DEF IInv, RequestFits
<1>2. FormHolds'
  BY <1>1, FormOfOffered, FormOfSwitches DEF FormHolds, Offered
<1>3. (\A q \in requests : RequestFits(q))'
  BY DEF IInv, RequestFits
<1>. QED
  BY <1>1, <1>2, <1>3 DEF IInv, IsConfig

LEMMA LookedKeeps == ASSUME IInv, NEW r \in requests, Looked(r) PROVE IInv'
<1>. USE DEF Looked
<1>1. IsConfig(r.config)
  BY DEF IInv, RequestFits
<1>2. (\A q \in requests : RequestFits(q))'
  BY DEF IInv, RequestFits
<1>. QED
  BY <1>1, <1>2 DEF IInv, FormHolds, Offered, IsConfig

LEMMA SaveKeeps == ASSUME IInv, Save PROVE IInv'
<1>. DEFINE r == [op |-> "save", config |-> Payload(detail, form), was |-> detail,
                  from |-> filled, clean |-> touched = {}]
<1>. USE DEF Save, Send
<1>1. IsConfig(detail) /\ IsConfig(filled) /\ Offered(form)
  BY DEF IInv, FormHolds
<1>2. IsConfig(Decoded(Payload(detail, form)))
  BY <1>1, DecodedFits
<1>3. Hidden(Payload(detail, form)) \cap DOMAIN Payload(detail, form) = {}
  BY <1>1, PayloadCoherent
<1>4. touched = {} => Payload(detail, form) = Payload(detail, FormOf(filled))
  <2>1. "serverAddr" \in Required(form)
    BY DEF Required, Mounted
  <2>. QED
    BY <2>1 DEF IInv, FormHolds
<1>5. ASSUME r.clean
      PROVE  /\ \A p \in FormPaths \ ({"featureGates.other"} \cup Hidden(r.from)) :
                    Meaning(r.config, p) = Meaning(r.from, p)
             /\ \A p \in KeptPaths : Get(r.config, p) = Get(r.was, p)
             /\ Meaning(r.from, "featureGates.VirtualNet") = "on" =>
                     Get(r.config, "featureGates.other") = Get(r.was, "featureGates.other")
  <2>1. touched = {}
    BY <1>5
  <2>2. Payload(detail, form) = Payload(detail, FormOf(filled))
    BY <1>4, <2>1
  <2>3. r.config = Payload(detail, form) /\ r.was = detail /\ r.from = filled
    OBVIOUS
  <2>. HIDE DEF r
  <2>4. \A p \in FormPaths \ ({"featureGates.other"} \cup Hidden(filled)) :
           Meaning(Payload(detail, FormOf(filled)), p) = Meaning(filled, p)
    BY <1>1, RoundTrip
  <2>5. \A p \in KeptPaths : Get(Payload(detail, form), p) = Get(detail, p)
    BY KeptIsKept
  <2>6. Meaning(filled, "featureGates.VirtualNet") = "on" =>
           Get(Payload(detail, FormOf(filled)), "featureGates.other")
              = Get(detail, "featureGates.other")
    BY GatesKept
  <2>. QED
    BY <2>2, <2>3, <2>4, <2>5, <2>6
<1>6. RequestFits(r)
  <2>1. r.op = "save" /\ r.config = Payload(detail, form) /\ r.was = detail /\ r.from = filled
          /\ DOMAIN r = {"op", "config", "was", "from", "clean"}
    OBVIOUS
  <2>. HIDE DEF r
  <2>. QED
    BY <1>2, <1>3, <1>5, <2>1 DEF RequestFits
<1>7. requests' = requests \cup {r}
  OBVIOUS
<1>. HIDE DEF r
<1>8. (\A q \in requests : RequestFits(q))'
  BY <1>6, <1>7 DEF IInv, RequestFits
<1>. QED
  BY <1>8 DEF IInv, FormHolds, Offered, IsConfig

LEMMA SavedKeeps == ASSUME IInv, NEW r \in requests, Saved(r) PROVE IInv'
<1>. USE DEF Saved
<1>1. IsConfig(Decoded(r.config))
  BY DEF IInv, RequestFits
<1>2. IsConfig(disk)'
  BY <1>1 DEF IInv, IsConfig
<1>3. (\A q \in requests : RequestFits(q))'
  BY NothingFits DEF IInv, RequestFits
<1>. QED
  BY <1>2, <1>3 DEF IInv, FormHolds, Offered, IsConfig

LEMMA OtherWriteKeeps == ASSUME IInv, OtherWrite PROVE IInv'
<1>. USE DEF OtherWrite
<1>1. "proxies" \notin SwitchPaths /\ "proxies" # "auth.method"
  BY DEF SwitchPaths, SwitchRows, Row
<1>2. /\ DOMAIN disk' = DOMAIN disk
      /\ \A p \in DOMAIN disk \ {"proxies"} : disk'[p] = disk[p]
  OBVIOUS
<1>3. IsConfig(disk')
  BY <1>1, <1>2 DEF IInv, IsConfig
<1>4. writes' \in 0..MaxWrites
  BY BoundsAssumption DEF IInv
<1>5. (\A q \in requests : RequestFits(q))'
  BY DEF IInv, RequestFits
<1>. QED
  BY <1>3, <1>4, <1>5 DEF IInv, FormHolds, Offered, IsConfig

LEMMA StepHolds == IInv /\ [Next]_vars => IInv'
<1>. SUFFICES ASSUME IInv, [Next]_vars PROVE IInv'
  OBVIOUS
<1>1. ASSUME NEW r \in requests, ServeLoad(r) \/ Loaded(r) \/ Looked(r) \/ Saved(r)
      PROVE  IInv'
  BY <1>1, ServeLoadKeeps, LoadedKeeps, LookedKeeps, SavedKeeps
<1>2. CASE OpenTab
  <2>1. (\A q \in requests : RequestFits(q))'
    BY <1>2, NothingFits DEF OpenTab, Send, IInv, RequestFits
  <2>. QED
    BY <1>2, <2>1 DEF OpenTab, IInv, FormHolds, Offered, IsConfig
<1>3. ASSUME NEW x \in EditFields, NEW v \in {Blank, "y"}, Type(x, v)
      PROVE  IInv'
  BY <1>3, EditKeepsOffered, TypeKeeps DEF IInv, FormHolds
<1>4. ASSUME NEW m \in {"token", "oidc", Blank}, Type("authMethod", m)
      PROVE  IInv'
  BY <1>4, ChoiceKeepsOffered, TypeKeeps DEF IInv, FormHolds
<1>5. ASSUME NEW x \in {"tlsEnable", "virtualNetEnabled", "autoStart", "tcpMux", "loginFailExit"},
             NEW v \in {"on", "off"}, Type(x, v)
      PROVE  IInv'
  <2>1. x \in Fields \ {"authMethod"}
    BY <1>5, MountedIsField DEF Type
  <2>. QED
    BY <1>5, <2>1, ChoiceKeepsOffered, TypeKeeps DEF IInv, FormHolds
<1>6. CASE Save
  BY <1>6, SaveKeeps
<1>7. CASE OtherWrite
  BY <1>7, OtherWriteKeeps
<1>8. CASE UNCHANGED vars
  BY <1>8 DEF vars, IInv, FormHolds, Offered, IsConfig, RequestFits
<1>. QED
  BY <1>1, <1>2, <1>3, <1>4, <1>5, <1>6, <1>7, <1>8 DEF Next

\* The inductive invariant: disk, detail and requests hold configurations frp
\* accepts, the form what it offers, each save what the theorems below say.
THEOREM Invariant == Spec => []IInv
BY InitHolds, StepHolds, PTL DEF Spec

-----------------------------------------------------------------------------
\* The page's variables keep their types, and disk, detail and form hold what
\* their definitions say, after any number of edits, saves and other writes.
THEOREM TypeCorrect == Spec => []TypeOK
<1>1. IInv => TypeOK
  BY IInvIs
<1>. QED
  BY <1>1, Invariant, PTL

\* A form that is saved as loadVisualConfig filled it means, on every path it
\* shows, what was loaded, and keeps every part outside auth, log, webServer,
\* transport and the feature gates, for every configuration that frp accepts,
\* whatever was typed and saved before and in whatever order loads and saves are
\* answered.
THEOREM UntouchedSaveIsKept == Spec => []UntouchedSaveKeeps
<1>1. IInv => UntouchedSaveKeeps
  BY IInvIs
<1>. QED
  BY <1>1, Invariant, PTL

\* handleSaveVisualConfig leaves nothing behind of what a switch puts away.
THEOREM SavedIsCoherent == Spec => []StoredIsCoherent
<1>1. IInv => StoredIsCoherent
  BY IInvIs
<1>. QED
  BY <1>1, Invariant, PTL

\* What is on disk stays a configuration that frp accepts.
THEOREM DiskFits == Spec => []Fits
<1>1. IInv => Fits
  BY IInvIs
<1>. QED
  BY <1>1, Invariant, PTL
=============================================================================
