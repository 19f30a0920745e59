-------------------------- MODULE RuleDrawerProofs --------------------------
EXTENDS RuleDrawer, TLAPS

LEMMA StraightRows == \A S : \A r \in Straight(S) : r.key \in S /\ r.field = r.key
BY DEF Straight

LEMMA RowParts == \A k, f : Row(k, f).key = k /\ Row(k, f).field = f
BY DEF Row

LEMMA ValParts == \A s, t : Val(s, t).src = s /\ Val(s, t).tag = t
BY DEF Val

LEMMA LitIsSet == \A t : Lit(t) # Unset
<1>1. \A t : Lit(t).src = "lit"
  BY ValParts DEF Lit
<1>2. Unset.src = "unset"
  BY ValParts DEF Unset
<1>. QED
  BY <1>1, <1>2

\* The rows of a visitor are keys of its type.
LEMMA VisitorRowsFit ==
    ASSUME NEW v, KindOf(v) = "visitor", NEW p
    PROVE  \A r \in AlwaysRows(v) \cup TruthyRows(v) :
              /\ r.key \in Schema("visitor", TypeOf(v), p)
              /\ r.key = "type" => r.field = "type"
              /\ r.key = "plugin.type" => r.field = "visitorPlugin"
<1>1. \A r \in AlwaysRows(v) : r.key \in {"type", "secretKey", "serverName", "bindPort"} /\ r.field = r.key
  BY StraightRows DEF AlwaysRows
<1>2. ASSUME NEW r \in TruthyRows(v)
      PROVE  \/ r.key \in {"bindAddr", "serverUser"}
             \/ TypeOf(v) = "xtcp" /\ r.key \in XtcpInputs \ {"xtcpProtocol"}
             \/ TypeOf(v) = "xtcp" /\ r.key = "protocol"
             \/ r.key = "plugin.type" /\ r.field = "visitorPlugin"
             \/ r.key = "plugin.destinationIP"
  BY StraightRows, RowParts DEF TruthyRows
<1>. QED
  BY <1>1, <1>2 DEF Schema, VisitorKeys, XtcpInputs

\* The rows of a proxy are keys of its type and its plugin.
LEMMA PluginRowsFit ==
    ASSUME NEW p, p \in Plugins
    PROVE  \A r \in PluginRows(p) : r.key \in PluginKeys(p) /\ r.key \notin {"type", "plugin.type"}
<1>. SUFFICES ASSUME NEW r \in PluginRows(p)
              PROVE  r.key \in PluginKeys(p) /\ r.key \notin {"type", "plugin.type"}
  OBVIOUS
<1>1. \/ p \in LocalAddrPlugins /\ r.key = "plugin.localAddr"
      \/ p = "static_file" /\ r.key \in {"plugin.localPath", "plugin.stripPrefix"}
      \/ p = "unix_domain_socket" /\ r.key = "plugin.unixPath"
      \/ p = "socks5" /\ r.key \in {"plugin.username", "plugin.password"}
      \/ p \in {"http_proxy", "static_file"} /\ r.key \in {"plugin.httpUser", "plugin.httpPassword"}
      \/ p \in HttpForwarders /\ r.key \in {"plugin.hostHeaderRewrite", "plugin.requestHeaders"}
      \/ p \in TlsPlugins /\ r.key \in {"plugin.crtPath", "plugin.keyPath"}
  BY RowParts DEF PluginRows
<1>. QED
  BY <1>1 DEF PluginKeys, LocalAddrPlugins, HttpForwarders, TlsPlugins, Plugins, AuthPlugins

\* A select holds nothing, or what the code wrote there.
LEMMA SelectParts ==
    ASSUME NEW f, Selects(f)
    PROVE  /\ KindOf(f) \in {"proxy", "visitor"} /\ f["kind"] = Lit(KindOf(f))
           /\ TypeOf(f) \in ProxyTypes /\ f["type"] = Lit(TypeOf(f))
           /\ KindOf(f) = "visitor" => TypeOf(f) \in PairTypes
           /\ \A x \in {"pluginName", "visitorPlugin"} :
                 /\ Truthy(f[x]) => f[x].tag \in Plugins /\ f[x] = Lit(f[x].tag)
                 /\ ~Truthy(f[x]) => f[x] = Unset /\ f[x].tag = ""
<1>1. /\ KindOf(f) \in {"proxy", "visitor"} /\ f["kind"] = Lit(KindOf(f))
  BY DEF Selects, KindOf, Lit, Val
<1>2. /\ f["type"] = Lit(TypeOf(f)) /\ TypeOf(f) \in ProxyTypes
      /\ KindOf(f) = "visitor" => TypeOf(f) \in PairTypes
  BY <1>1 DEF Selects, TypesOf, TypeOf, Lit, Val, PairTypes, ProxyTypes
<1>3. \A p \in Plugins : Truthy(Lit(p)) /\ Lit(p).tag = p
  BY DEF Truthy, Lit, Val, Unset, Blank, Plugins, LocalAddrPlugins, AuthPlugins, HttpForwarders
<1>4. ~Truthy(Unset) /\ Unset.tag = ""
  BY DEF Truthy, Unset, Val
<1>5. "virtual_net" \in Plugins
  BY DEF Plugins
<1>6. \A x \in {"pluginName", "visitorPlugin"} : f[x] = Unset \/ \E p \in Plugins : f[x] = Lit(p)
  BY <1>5 DEF Selects
<1>. QED
  BY <1>1, <1>2, <1>3, <1>4, <1>6

\* What onFinish hands over, and the rows of it that are sent.
Rendered(f) == [x \in Fields |-> IF x \in Mounted(f) THEN Trim(f[x]) ELSE Unset]
SentRows(f) ==
    {r \in AlwaysRows(Rendered(f)) : Rendered(f)[r.field] # Unset}
        \cup {r \in TruthyRows(Rendered(f)) : Truthy(Rendered(f)[r.field])}

\* A key of a body is computed, or sent by a row.
LEMMA BodyParts ==
    ASSUME NEW f
    PROVE  /\ DOMAIN BodyOf(f) = {r.key : r \in SentRows(f)} \cup DOMAIN Computed(Rendered(f))
           /\ \A k \in DOMAIN Computed(Rendered(f)) : BodyOf(f)[k] = Computed(Rendered(f))[k]
           /\ \A k \in DOMAIN BodyOf(f) \ DOMAIN Computed(Rendered(f)) :
                 \E r \in SentRows(f) : r.key = k /\ BodyOf(f)[k] = Rendered(f)[r.field]
<1>. DEFINE v == Rendered(f)
            c == Computed(v)
            keys == {r.key : r \in SentRows(f)}
            from(k) == CHOOSE r \in SentRows(f) : r.key = k
<1>1. BodyOf(f) = [k \in keys \cup DOMAIN c |-> IF k \in DOMAIN c THEN c[k] ELSE v[from(k).field]]
  BY DEF BodyOf, SentRows, Rendered
<1>2. \A k \in keys : from(k) \in SentRows(f) /\ from(k).key = k
  OBVIOUS
<1>. HIDE DEF v, c, keys, from
<1>3. /\ DOMAIN BodyOf(f) = keys \cup DOMAIN c
      /\ \A k \in DOMAIN c : BodyOf(f)[k] = c[k]
      /\ \A k \in keys \ DOMAIN c : BodyOf(f)[k] = v[from(k).field]
  BY <1>1
<1>. QED
  BY <1>2, <1>3 DEF v, c, keys

LEMMA ComputedKeys ==
    ASSUME NEW v
    PROVE  \A k \in DOMAIN Computed(v) :
              \/ k \in {"useEncryption", "useCompression"}
              \/ KindOf(v) = "proxy" /\ TypeOf(v) = "tcpmux" /\ k = "multiplexer"
              \/ KindOf(v) = "proxy" /\ TypeOf(v) \in PairTypes /\ k = "allowUsers"
              \/ KindOf(v) = "proxy" /\ PluginOf(v) \in Http2Switch /\ k = "plugin.enableHTTP2"
BY DEF Computed

\* The selects are rendered, but for those of the other kind.
LEMMA RenderedSelects ==
    ASSUME NEW f, Selects(f)
    PROVE  /\ KindOf(Rendered(f)) = KindOf(f) /\ TypeOf(Rendered(f)) = TypeOf(f)
           /\ KindOf(f) = "proxy" => Rendered(f)["pluginName"] = f["pluginName"]
           /\ KindOf(f) = "visitor" => Rendered(f)["visitorPlugin"] = f["visitorPlugin"]
           /\ Rendered(f)["type"] = f["type"]
<1>1. \A t : Trim(Lit(t)) = Lit(t)
  BY DEF Trim, Lit, Val, Spaces
<1>2. Trim(Unset) = Unset
  BY DEF Trim, Unset, Val, Spaces
<1>3. {"kind", "type", "pluginName", "visitorPlugin"} \subseteq Fields
  BY DEF Fields
<1>4. /\ "kind" \in Mounted(f) /\ "type" \in Mounted(f)
      /\ KindOf(f) = "proxy" => "pluginName" \in Mounted(f)
      /\ KindOf(f) = "visitor" => "visitorPlugin" \in Mounted(f)
  BY DEF Mounted, VisitorFields, PluginFields
<1>5. \A x \in {"pluginName", "visitorPlugin"} : Trim(f[x]) = f[x]
  BY <1>1, <1>2 DEF Selects
<1>6. f["kind"] = Lit(KindOf(f)) /\ f["type"] = Lit(TypeOf(f))
  BY SelectParts
<1>7. Trim(f["kind"]) = f["kind"] /\ Trim(f["type"]) = f["type"]
  BY <1>1, <1>6
<1>. QED
  BY <1>3, <1>4, <1>5, <1>7 DEF Rendered, KindOf, TypeOf

\* The inputs of an http proxy are not rendered for an https one.
LEMMA HttpRowsFit ==
    ASSUME NEW f, KindOf(f) = "proxy", TypeOf(f) \in {"http", "https"},
           NEW r \in Straight({"customDomains", "subdomain"} \cup HttpInputs),
           Truthy(Rendered(f)[r.field])
    PROVE  r.key \in TypeKeys(TypeOf(f))
<1>1. r.field = r.key /\ r.key \in {"customDomains", "subdomain"} \cup HttpInputs
  BY StraightRows
<1>2. r.field \in Fields
  BY <1>1 DEF Fields, SameName
<1>3. r.field \in Mounted(f)
  <2>1. ~Truthy(Unset)
    BY DEF Truthy
  <2>. QED
    BY <1>2, <2>1 DEF Rendered
<1>4. CASE TypeOf(f) = "http"
  BY <1>1, <1>4 DEF TypeKeys
<1>5. CASE TypeOf(f) = "https"
  <2>1. r.field \in TypeFields(f) \cup PluginFields(PluginOf(f))
    BY <1>1, <1>3 DEF Mounted, HttpInputs
  <2>2. r.field \notin PluginFields(PluginOf(f))
    BY <1>1 DEF PluginFields, HttpInputs
  <2>3. TypeFields(f) = {"customDomains", "subdomain"}
    BY <1>5 DEF TypeFields, PairTypes
  <2>. QED
    BY <1>1, <1>5, <2>1, <2>2, <2>3 DEF TypeKeys
<1>. QED
  BY <1>4, <1>5

\* A body fits, whatever form it was made of: its type is the selected one, its
\* plugin the selected one or none, and its keys are theirs.
LEMMA BodyFits ==
    ASSUME NEW f, Selects(f)
    PROVE  LET b == BodyOf(f)
               x == IF KindOf(f) = "visitor" THEN "visitorPlugin" ELSE "pluginName"
           IN  /\ "type" \in DOMAIN b /\ b["type"] = f["type"]
               /\ "plugin.type" \in DOMAIN b <=> Truthy(f[x])
               /\ "plugin.type" \in DOMAIN b => b["plugin.type"] = f[x]
               /\ DOMAIN b \subseteq Schema(KindOf(f), TypeOf(f), PluginIn(b))
<1>. DEFINE b == BodyOf(f)
            v == Rendered(f)
            x == IF KindOf(f) = "visitor" THEN "visitorPlugin" ELSE "pluginName"
<1>0. /\ KindOf(v) = KindOf(f) /\ TypeOf(v) = TypeOf(f) /\ v["type"] = f["type"]
      /\ v[x] = f[x] /\ KindOf(f) \in {"proxy", "visitor"}
      /\ KindOf(f) = "proxy" => PluginOf(v) = PluginOf(f)
  BY RenderedSelects, SelectParts DEF PluginOf
<1>1. /\ DOMAIN b = {r.key : r \in SentRows(f)} \cup DOMAIN Computed(v)
      /\ \A k \in DOMAIN b \ DOMAIN Computed(v) :
            \E r \in SentRows(f) : r.key = k /\ b[k] = v[r.field]
  BY BodyParts
<1>2. "type" \notin DOMAIN Computed(v) /\ "plugin.type" \notin DOMAIN Computed(v)
  BY ComputedKeys
<1>3. \A r \in SentRows(f) : r \in AlwaysRows(v) \cup TruthyRows(v)
  BY DEF SentRows
<1>4. \E r \in SentRows(f) : r.key = "type"
  <2>1. Straight({"type"}) \subseteq AlwaysRows(v)
    BY DEF AlwaysRows, Straight
  <2>2. f["type"] # Unset
    <3>1. f["type"] = Lit(TypeOf(f))
      BY SelectParts
    <3>. QED
      BY <3>1, LitIsSet
  <2>3. PICK r \in Straight({"type"}) : r.key = "type" /\ r.field = "type"
    <3>1. [key |-> "type", field |-> "type"] \in Straight({"type"})
      BY DEF Straight
    <3>. QED
      BY <3>1
  <2>. QED
    BY <1>0, <2>1, <2>2, <2>3 DEF SentRows
<1>5. Truthy(f[x]) => \E r \in SentRows(f) : r.key = "plugin.type"
  <2>. SUFFICES ASSUME Truthy(f[x]) PROVE Row("plugin.type", x) \in SentRows(f)
    BY RowParts
  <2>1. Row("plugin.type", x) \in TruthyRows(v)
    BY <1>0 DEF TruthyRows
  <2>. QED
    BY <1>0, <2>1, RowParts DEF SentRows
<1>6. /\ \A r \in SentRows(f) : r.key = "type" => r.field = "type"
      /\ \A r \in SentRows(f) : r.key = "plugin.type" => r.field = x /\ Truthy(f[x])
  <2>1. CASE KindOf(f) = "visitor"
    <3>1. \A r \in AlwaysRows(v) \cup TruthyRows(v) :
             /\ r.key = "type" => r.field = "type"
             /\ r.key = "plugin.type" => r.field = "visitorPlugin"
      BY <1>0, <2>1, VisitorRowsFit
    <3>2. \A r \in AlwaysRows(v) : r.key # "plugin.type"
      BY <1>0, <2>1, StraightRows DEF AlwaysRows
    <3>. QED
      BY <1>0, <2>1, <3>1, <3>2 DEF SentRows
  <2>2. CASE KindOf(f) = "proxy"
    <3>1. \A r \in AlwaysRows(v) : r.field = r.key /\ r.key # "plugin.type"
      BY <1>0, <2>2, StraightRows DEF AlwaysRows
    <3>2. ASSUME NEW r \in TruthyRows(v), Truthy(v["pluginName"])
          PROVE  r.key # "type" /\ (r.key = "plugin.type" => r.field = "pluginName")
      <4>1. PluginOf(v) \in Plugins
        BY <1>0, <2>2, <3>2, SelectParts DEF PluginOf
      <4>2. \A q \in PluginRows(PluginOf(v)) : q.key \notin {"type", "plugin.type"}
        BY <4>1, PluginRowsFit
      <4>3. \/ \E S : r \in Straight(S) /\ "type" \notin S /\ "plugin.type" \notin S
            \/ r = Row("plugin.type", "pluginName")
            \/ r \in PluginRows(PluginOf(v))
        BY <1>0, <2>2, <3>2 DEF TruthyRows, HttpInputs
      <4>. QED
        BY <4>2, <4>3, StraightRows, RowParts
    <3>3. ASSUME NEW r \in TruthyRows(v), ~Truthy(v["pluginName"])
          PROVE  r.key \notin {"type", "plugin.type"}
      BY <1>0, <2>2, <3>3, StraightRows DEF TruthyRows, HttpInputs
    <3>. QED
      BY <1>0, <2>2, <3>1, <3>2, <3>3 DEF SentRows
  <2>. QED
    BY <1>0, <2>1, <2>2
<1>7. "type" \in DOMAIN b /\ b["type"] = f["type"]
  BY <1>0, <1>1, <1>2, <1>4, <1>6
<1>8. /\ "plugin.type" \in DOMAIN b <=> Truthy(f[x])
      /\ "plugin.type" \in DOMAIN b => b["plugin.type"] = f[x]
  BY <1>0, <1>1, <1>2, <1>5, <1>6
<1>9. PluginIn(b) = IF Truthy(f[x]) THEN f[x].tag ELSE ""
  BY <1>8 DEF PluginIn
<1>10. \A r \in SentRows(f) : r.key \in Schema(KindOf(f), TypeOf(f), PluginIn(b))
  <2>1. CASE KindOf(f) = "visitor"
    BY <1>0, <1>3, <2>1, VisitorRowsFit
  <2>2. CASE KindOf(f) = "proxy"
    <3>1. ASSUME NEW r \in AlwaysRows(v)
          PROVE  r.key \in {"type", "localPort"} \cup TypeKeys(TypeOf(f))
      BY <1>0, <2>2, <3>1, StraightRows DEF AlwaysRows, TypeKeys, PairTypes
    <3>2. ASSUME NEW r \in TruthyRows(v), ~Truthy(v["pluginName"]), Truthy(v[r.field])
          PROVE  r.key \in {"localIP"} \cup TypeKeys(TypeOf(f))
      <4>1. \/ r \in Straight({"localIP"})
            \/ TypeOf(v) = "tcpmux" /\ r \in Straight({"customDomains", "routeByHTTPUser"})
            \/ TypeOf(v) \in {"http", "https"} /\ r \in Straight({"customDomains", "subdomain"} \cup HttpInputs)
        BY <1>0, <2>2, <3>2 DEF TruthyRows
      <4>. QED
        <5>1. CASE r \in Straight({"localIP"})
          BY <5>1, StraightRows
        <5>2. CASE TypeOf(v) = "tcpmux" /\ r \in Straight({"customDomains", "routeByHTTPUser"})
          BY <1>0, <5>2, StraightRows DEF TypeKeys
        <5>3. CASE TypeOf(v) \in {"http", "https"} /\ r \in Straight({"customDomains", "subdomain"} \cup HttpInputs)
          BY <1>0, <2>2, <3>2, <5>3, HttpRowsFit
        <5>. QED
          BY <4>1, <5>1, <5>2, <5>3
    <3>3. ASSUME NEW r \in TruthyRows(v), Truthy(v["pluginName"]), Truthy(v[r.field])
          PROVE  r.key \in {"localIP", "plugin.type"} \cup TypeKeys(TypeOf(f)) \cup PluginKeys(PluginIn(b))
      <4>1. PluginIn(b) = PluginOf(v) /\ PluginOf(v) \in Plugins
        BY <1>0, <1>9, <2>2, <3>3, SelectParts DEF PluginOf
      <4>2. \A q \in PluginRows(PluginOf(v)) : q.key \in PluginKeys(PluginIn(b))
        BY <4>1, PluginRowsFit
      <4>3. \/ r \in Straight({"localIP"})
            \/ TypeOf(v) = "tcpmux" /\ r \in Straight({"customDomains", "routeByHTTPUser"})
            \/ TypeOf(v) \in {"http", "https"} /\ r \in Straight({"customDomains", "subdomain"} \cup HttpInputs)
            \/ r = Row("plugin.type", "pluginName")
            \/ r \in PluginRows(PluginOf(v))
        BY <1>0, <2>2, <3>3 DEF TruthyRows
      <4>. QED
        <5>1. CASE r \in Straight({"localIP"})
          BY <5>1, StraightRows
        <5>2. CASE TypeOf(v) = "tcpmux" /\ r \in Straight({"customDomains", "routeByHTTPUser"})
          BY <1>0, <5>2, StraightRows DEF TypeKeys
        <5>3. CASE TypeOf(v) \in {"http", "https"} /\ r \in Straight({"customDomains", "subdomain"} \cup HttpInputs)
          BY <1>0, <2>2, <3>3, <5>3, HttpRowsFit
        <5>4. CASE r = Row("plugin.type", "pluginName") \/ r \in PluginRows(PluginOf(v))
          BY <4>2, <5>4, RowParts
        <5>. QED
          BY <4>3, <5>1, <5>2, <5>3, <5>4
    <3>4. \A r \in SentRows(f) : r \in AlwaysRows(v) \/ (r \in TruthyRows(v) /\ Truthy(v[r.field]))
      BY DEF SentRows
    <3>. QED
      BY <3>4, <2>2, <3>1, <3>2, <3>3 DEF Schema
  <2>. QED
    BY <1>0, <2>1, <2>2
<1>11. \A k \in DOMAIN Computed(v) : k \in Schema(KindOf(f), TypeOf(f), PluginIn(b))
  <2>1. PluginOf(f) \in Http2Switch /\ KindOf(f) = "proxy" => PluginIn(b) = PluginOf(f)
    BY <1>9, SelectParts DEF PluginOf, Http2Switch
  <2>. QED
    BY <1>0, <2>1, ComputedKeys DEF Schema, TypeKeys, PluginKeys, PairTypes
<1>. QED
  BY <1>1, <1>7, <1>8, <1>10, <1>11

(***************************************************************************)
(* The rows, and the values that they send.                                *)
(***************************************************************************)
PluginRowKeys ==
    {"plugin.localAddr", "plugin.localPath", "plugin.stripPrefix", "plugin.unixPath",
     "plugin.username", "plugin.password", "plugin.httpUser", "plugin.httpPassword",
     "plugin.hostHeaderRewrite", "plugin.requestHeaders", "plugin.crtPath", "plugin.keyPath"}

LEMMA PluginRowParts ==
    ASSUME NEW p
    PROVE  \A r \in PluginRows(p) :
              r.key \in PluginRowKeys /\ r.field \in PluginInputs \ {"pluginEnableHTTP2"}
<1>. SUFFICES ASSUME NEW r \in PluginRows(p)
              PROVE  r.key \in PluginRowKeys /\ r.field \in PluginInputs \ {"pluginEnableHTTP2"}
  OBVIOUS
<1>1. \/ r = Row("plugin.localAddr", "pluginLocalAddr")
      \/ r = Row("plugin.localPath", "pluginLocalPath")
      \/ r = Row("plugin.stripPrefix", "pluginStripPrefix")
      \/ r = Row("plugin.unixPath", "pluginLocalPath")
      \/ r = Row("plugin.username", "pluginHTTPUser")
      \/ r = Row("plugin.password", "pluginHTTPPassword")
      \/ r = Row("plugin.httpUser", "pluginHTTPUser")
      \/ r = Row("plugin.httpPassword", "pluginHTTPPassword")
      \/ r = Row("plugin.hostHeaderRewrite", "pluginHostHeaderRewrite")
      \/ r = Row("plugin.requestHeaders", "pluginRequestHeaders")
      \/ r = Row("plugin.crtPath", "pluginCrtPath")
      \/ r = Row("plugin.keyPath", "pluginKeyPath")
  BY DEF PluginRows
<1>. QED
  BY <1>1, RowParts DEF PluginRowKeys, PluginInputs

AlwaysKeys == {"type", "secretKey", "serverName", "bindPort", "localPort", "remotePort"}
TruthyKeys == {"bindAddr", "serverUser", "localIP", "customDomains", "routeByHTTPUser",
               "subdomain"} \cup HttpInputs \cup (XtcpInputs \ {"xtcpProtocol"})

\* A row copies a field under its own name, but for the rows of the plugins and
\* the protocol.
LEMMA RowShapes ==
    ASSUME NEW v
    PROVE  /\ \A r \in AlwaysRows(v) : r.field = r.key /\ r.key \in AlwaysKeys
           /\ \A r \in TruthyRows(v) :
                 \/ r.field = r.key /\ r.key \in TruthyKeys
                 \/ r.key = "protocol" /\ r.field = "xtcpProtocol"
                 \/ r.key = "plugin.type" /\ r.field \in {"pluginName", "visitorPlugin"}
                 \/ r.key = "plugin.destinationIP" /\ r.field = "destinationIP"
                 \/ KindOf(v) # "visitor" /\ Truthy(v["pluginName"]) /\ r \in PluginRows(PluginOf(v))
<1>1. ASSUME NEW r \in AlwaysRows(v)
      PROVE  r.field = r.key /\ r.key \in AlwaysKeys
  BY <1>1, StraightRows DEF AlwaysRows, AlwaysKeys
<1>2. ASSUME NEW r \in TruthyRows(v)
      PROVE  \/ \E S \in SUBSET TruthyKeys : r \in Straight(S)
             \/ r = Row("protocol", "xtcpProtocol")
             \/ r \in {Row("plugin.type", "visitorPlugin"), Row("plugin.type", "pluginName")}
             \/ r = Row("plugin.destinationIP", "destinationIP")
             \/ KindOf(v) # "visitor" /\ Truthy(v["pluginName"]) /\ r \in PluginRows(PluginOf(v))
  <2>1. \A S \in {{"bindAddr", "serverUser"}, XtcpInputs \ {"xtcpProtocol"}, {"localIP"},
                   {"customDomains", "routeByHTTPUser"},
                   {"customDomains", "subdomain"} \cup HttpInputs} : S \in SUBSET TruthyKeys
    BY DEF TruthyKeys
  <2>2. CASE KindOf(v) = "visitor"
    <3>1. \/ r \in Straight({"bindAddr", "serverUser"})
          \/ r \in Straight(XtcpInputs \ {"xtcpProtocol"})
          \/ r = Row("protocol", "xtcpProtocol")
          \/ r = Row("plugin.type", "visitorPlugin")
          \/ r = Row("plugin.destinationIP", "destinationIP")
      BY <2>2 DEF TruthyRows
    <3>. QED
      BY <2>1, <3>1
  <2>3. CASE KindOf(v) # "visitor"
    <3>1. \/ r \in Straight({"localIP"})
          \/ r \in Straight({"customDomains", "routeByHTTPUser"})
          \/ r \in Straight({"customDomains", "subdomain"} \cup HttpInputs)
          \/ r = Row("plugin.type", "pluginName")
          \/ Truthy(v["pluginName"]) /\ r \in PluginRows(PluginOf(v))
      BY <2>3 DEF TruthyRows
    <3>. QED
      BY <2>1, <2>3, <3>1
  <2>. QED
    BY <2>2, <2>3
<1>. QED
  BY <1>1, <1>2, StraightRows, RowParts

LEMMA RowFields ==
    ASSUME NEW v, NEW r \in AlwaysRows(v) \cup TruthyRows(v)
    PROVE  /\ r.field \in Fields /\ r.field # "name"
           /\ r.key \notin {"enabled", "useEncryption", "useCompression", "plugin.enableHTTP2"}
           /\ r.field \in SwitchFields <=> r.key \in Switches
<1>1. CASE r \in AlwaysRows(v)
  <2>1. r.field = r.key /\ r.key \in AlwaysKeys
    BY <1>1, RowShapes
  <2>. QED
    BY <2>1 DEF AlwaysKeys, Fields, SameName, SwitchFields, Switches
<1>2. CASE r \in TruthyRows(v)
  <2>1. CASE r.field = r.key /\ r.key \in TruthyKeys
    <3>1. r.key \in {"bindAddr", "serverUser", "localIP", "customDomains", "routeByHTTPUser",
                     "subdomain", "locations", "hostHeaderRewrite", "httpUser", "httpPassword",
                     "keepTunnelOpen", "maxRetriesAnHour", "minRetryInterval", "fallbackTo",
                     "fallbackTimeoutMs"}
      BY <2>1 DEF TruthyKeys, HttpInputs, XtcpInputs
    <3>2. r.field \in Fields
      BY <2>1, <3>1 DEF Fields, SameName, HttpInputs, XtcpInputs
    <3>. QED
      BY <2>1, <3>1, <3>2 DEF SwitchFields, Switches
  <2>2. CASE \/ r.key = "protocol" /\ r.field = "xtcpProtocol"
             \/ r.key = "plugin.type" /\ r.field \in {"pluginName", "visitorPlugin"}
             \/ r.key = "plugin.destinationIP" /\ r.field = "destinationIP"
    BY <2>2 DEF Fields, XtcpInputs, SwitchFields, Switches
  <2>3. CASE r \in PluginRows(PluginOf(v))
    <3>1. r.key \in PluginRowKeys /\ r.field \in PluginInputs \ {"pluginEnableHTTP2"}
      BY <2>3, PluginRowParts
    <3>2. r.field \in Fields
      BY <3>1 DEF Fields
    <3>. QED
      BY <3>1, <3>2 DEF PluginRowKeys, PluginInputs, SwitchFields, Switches
  <2>. QED
    BY <1>2, <2>1, <2>2, <2>3, RowShapes
<1>. QED
  BY <1>1, <1>2

LEMMA InputKinds ==
    /\ Unset.src = "unset" /\ Blank.src = "blank" /\ Spaces.src = "spaces"
    /\ \A t : Lit(t).src = "lit" /\ Typed(t).src = "typed" /\ Lit(t).tag = t /\ Typed(t).tag = t
    /\ \A n : Val("rule", n).src = "rule" /\ Val("rule", n).tag = n
BY ValParts DEF Unset, Blank, Spaces, Lit, Typed

LEMMA LitIsInput ==
    ASSUME NEW n, NEW x, x \notin SwitchFields, NEW t, t # "off"
    PROVE  IsInput(n, x, Lit(t))
<1>1. Lit(t).tag = t /\ Lit(t) # Lit("off")
  BY InputKinds
<1>. QED
  BY <1>1 DEF IsInput

LEMMA TrimKeeps ==
    ASSUME NEW n, NEW x, NEW v, IsInput(n, x, v)
    PROVE  IsInput(n, x, Trim(v)) /\ Trim(v) # Spaces /\ (v # Spaces => Trim(v) = v)
<1>1. Blank # Spaces /\ Blank # Lit("off") /\ Spaces # Unset
      /\ Spaces # Lit("on") /\ Spaces # Lit("off")
  BY InputKinds
<1>. QED
  BY <1>1 DEF IsInput, Trim

\* Off is not sent, and what is sent is not missing.
LEMMA BodyValues ==
    ASSUME NEW f, NEW n, Selects(f), \A x \in Fields : IsInput(n, x, f[x])
    PROVE  \A k \in DOMAIN BodyOf(f) :
              LET w == BodyOf(f)[k]
              IN  /\ k \in Switches => w \in {Lit("on"), Lit("off")}
                  /\ k \notin Switches =>
                        /\ w # Lit("off")
                        /\ w \in {Blank, Val("rule", n)} \/ w = Typed(w.tag) \/ w = Lit(w.tag)
<1>. DEFINE v == Rendered(f)
<1>1. \A x \in Fields : v[x] = Unset \/ (IsInput(n, x, v[x]) /\ v[x] # Spaces)
  BY TrimKeeps DEF Rendered
<1>2. ASSUME NEW k \in DOMAIN Computed(v)
      PROVE  /\ k \in Switches => Computed(v)[k] \in {Lit("on"), Lit("off")}
             /\ k \notin Switches => k \in {"multiplexer", "allowUsers"} /\
                   (Computed(v)[k] \in {Lit("httpconnect"), Lit("*")}
                      \/ (Computed(v)[k] = v[k] /\ Truthy(v[k])))
  <2>1. k \in {"useEncryption", "useCompression", "multiplexer", "allowUsers", "plugin.enableHTTP2"}
    BY <1>2, ComputedKeys
  <2>. HIDE DEF v
  <2>2. CASE k \in {"useEncryption", "useCompression"}
    BY <1>2, <2>2 DEF Computed, Switches
  <2>3. CASE k = "multiplexer"
    BY <1>2, <2>3 DEF Computed, Switches
  <2>4. CASE k = "allowUsers"
    BY <1>2, <2>4 DEF Computed, Switches
  <2>5. CASE k = "plugin.enableHTTP2"
    BY <1>2, <2>5 DEF Computed, Switches
  <2>. QED
    BY <2>1, <2>2, <2>3, <2>4, <2>5
<1>3. ASSUME NEW r \in SentRows(f)
      PROVE  /\ r.field \in Fields \ {"name"} /\ v[r.field] # Unset
             /\ r.field \in SwitchFields <=> r.key \in Switches
             /\ r.key \in Switches => Truthy(v[r.field])
  <2>1. r \in AlwaysRows(v) \cup TruthyRows(v) /\ v[r.field] # Unset
    BY <1>3 DEF SentRows, Truthy
  <2>2. r \in AlwaysRows(v) => r.key \notin Switches
    BY RowShapes DEF AlwaysKeys, Switches
  <2>. QED
    BY <1>3, <2>1, <2>2, RowFields DEF SentRows
<1>. SUFFICES ASSUME NEW k \in DOMAIN BodyOf(f), NEW w, w = BodyOf(f)[k]
              PROVE  /\ k \in Switches => w \in {Lit("on"), Lit("off")}
                     /\ k \notin Switches =>
                           /\ w # Lit("off")
                           /\ w \in {Blank, Val("rule", n)} \/ w = Typed(w.tag) \/ w = Lit(w.tag)
  OBVIOUS
<1>4. CASE k \in DOMAIN Computed(v)
  <2>1. w = Computed(v)[k]
    BY <1>4, BodyParts
  <2>2. CASE k \in Switches
    BY <1>2, <1>4, <2>1, <2>2
  <2>3. CASE k \notin Switches /\ w \in {Lit("httpconnect"), Lit("*")}
    <3>1. w = Lit(w.tag) /\ w.tag # "off"
      BY <2>3, InputKinds
    <3>. QED
      BY <2>3, <3>1, InputKinds
  <2>4. CASE k \notin Switches /\ k \in {"multiplexer", "allowUsers"} /\ w = v[k] /\ Truthy(v[k])
    <3>1. k \in Fields
      BY <2>4 DEF Fields, SameName
    <3>. QED
      BY <1>1, <2>4, <3>1 DEF IsInput, Truthy
  <2>. QED
    BY <1>2, <1>4, <2>1, <2>2, <2>3, <2>4
<1>5. CASE k \notin DOMAIN Computed(v)
  <2>0. \E r \in SentRows(f) : r.key = k /\ BodyOf(f)[k] = Rendered(f)[r.field]
    BY <1>5, BodyParts
  <2>1. PICK r \in SentRows(f) : r.key = k /\ w = v[r.field]
    BY <2>0
  <2>2. IsInput(n, r.field, w) /\ w # Spaces /\ w # Unset
    BY <1>1, <1>3, <2>1
  <2>3. CASE k \in Switches
    BY <1>3, <2>1, <2>2, <2>3 DEF IsInput, Truthy
  <2>4. CASE k \notin Switches
    BY <1>3, <2>1, <2>2, <2>4 DEF IsInput
  <2>. QED
    BY <2>3, <2>4
<1>. QED
  BY <1>4, <1>5

\* What a body carries comes from the rule and, under a plugin's key, was there
\* or was typed for that plugin.
LEMMA BodyOwns ==
    ASSUME NEW f, NEW n, NEW was, FormFits(f, n, was), NEW k \in DOMAIN BodyOf(f)
    PROVE  LET w == BodyOf(f)[k]
               p == PluginIn(BodyOf(f))
           IN  /\ w.src = "rule" => w.tag = n /\ (k \in PluginKeys(p) => k \in DOMAIN was)
               /\ w.src = "typed" /\ k \in PluginKeys(p) => w.tag = p
<1>. DEFINE b == BodyOf(f)
            w == b[k]
            p == PluginIn(b)
            v == Rendered(f)
<1>1. Selects(f) /\ \A x \in Fields : IsInput(n, x, f[x])
  BY DEF FormFits
<1>2. w.src = "rule" => w.tag = n
  <2>1. w \in {Lit("on"), Lit("off"), Blank, Val("rule", n)} \/ w = Typed(w.tag) \/ w = Lit(w.tag)
    BY <1>1, BodyValues
  <2>. QED
    BY <2>1, InputKinds
<1>3. CASE k = "plugin.enableHTTP2"
  <2>1. w \in {Lit("on"), Lit("off")}
    <3>1. k \in Switches
      BY <1>3 DEF Switches
    <3>. QED
      BY <1>1, <3>1, BodyValues
  <2>. QED
    BY <1>2, <2>1, InputKinds
<1>4. CASE k \in PluginRowKeys
  <2>1. k \notin DOMAIN Computed(v)
    BY <1>4, ComputedKeys DEF PluginRowKeys
  <2>2. \E r \in SentRows(f) : r.key = k /\ BodyOf(f)[k] = Rendered(f)[r.field]
    BY <2>1, BodyParts
  <2>3. PICK r \in SentRows(f) : r.key = k /\ w = v[r.field]
    BY <2>2
  <2>4. r \in AlwaysRows(v) \/ (r \in TruthyRows(v) /\ Truthy(v[r.field]))
    BY <2>3 DEF SentRows
  <2>5. KindOf(v) # "visitor" /\ Truthy(v["pluginName"]) /\ r \in PluginRows(PluginOf(v))
    <3>1. \/ r.field = r.key /\ r.key \in AlwaysKeys \cup TruthyKeys
          \/ r.key = "protocol"
          \/ r.key = "plugin.type"
          \/ r.key = "plugin.destinationIP"
          \/ KindOf(v) # "visitor" /\ Truthy(v["pluginName"]) /\ r \in PluginRows(PluginOf(v))
      BY <2>4, RowShapes
    <3>2. r.key \notin AlwaysKeys \cup TruthyKeys \cup {"protocol", "plugin.type", "plugin.destinationIP"}
      BY <1>4, <2>3 DEF PluginRowKeys, AlwaysKeys, TruthyKeys, HttpInputs, XtcpInputs
    <3>. QED
      BY <3>1, <3>2
  <2>6. KindOf(f) = "proxy" /\ v["pluginName"] = f["pluginName"]
    BY <1>1, <2>5, RenderedSelects, SelectParts
  <2>7. p = PluginOf(f) /\ PluginOf(v) = PluginOf(f)
    BY <1>1, <2>5, <2>6, BodyFits DEF PluginIn, PluginOf
  <2>8. /\ f[r.field].src = "typed" => f[r.field].tag = PluginOf(f)
        /\ f[r.field].src = "rule" => r.key \in DOMAIN was
    BY <2>5, <2>7 DEF FormFits, PluginInputsOwn
  <2>9. w \in {Unset, Blank, f[r.field]}
    <3>1. r.field \in Fields
      BY <2>4, RowFields
    <3>. QED
      BY <2>3, <3>1 DEF Rendered, Trim
  <2>. QED
    BY <1>2, <2>3, <2>7, <2>8, <2>9, InputKinds
<1>5. CASE k \notin PluginRowKeys \cup {"plugin.enableHTTP2"}
  <2>1. k \notin PluginKeys(p)
    BY <1>5 DEF PluginKeys, PluginRowKeys
  <2>. QED
    BY <1>2, <2>1
<1>. QED
  BY <1>3, <1>4, <1>5

\* A request, once it is on disk, is a rule that frp accepts.
LEMMA RequestFits ==
    ASSUME NEW f, NEW n, NEW was, FormFits(f, n, was),
           NEW r, r.kind = KindOf(f), r.body = BodyOf(f)
    PROVE  IsRule(r.target, [kind |-> r.kind, body |-> OnDisk(r)])
<1>. DEFINE b == BodyOf(f)
            d == OnDisk(r)
            x == IF KindOf(f) = "visitor" THEN "visitorPlugin" ELSE "pluginName"
<1>1. Selects(f) /\ \A y \in Fields : IsInput(n, y, f[y])
  BY DEF FormFits
<1>2. /\ KindOf(f) \in {"proxy", "visitor"} /\ f["type"] = Lit(TypeOf(f))
      /\ Truthy(f[x]) => f[x] = Lit(f[x].tag)
  BY <1>1, SelectParts
<1>3. /\ "type" \in DOMAIN b /\ b["type"] = f["type"]
      /\ "plugin.type" \in DOMAIN b <=> Truthy(f[x])
      /\ "plugin.type" \in DOMAIN b => b["plugin.type"] = f[x]
  BY <1>1, BodyFits
<1>4. /\ DOMAIN d = DOMAIN b
      /\ \A k \in DOMAIN b :
            d[k] = IF b[k].src \in {"rule", "typed"} THEN Val("rule", r.target) ELSE b[k]
  BY DEF OnDisk
<1>5. "type" \in DOMAIN d /\ d["type"] \in TypesOf(KindOf(f))
  <2>1. b["type"].src = "lit"
    BY <1>2, <1>3, InputKinds
  <2>2. d["type"] = f["type"]
    BY <1>3, <1>4, <2>1
  <2>. QED
    BY <1>1, <1>3, <1>4, <2>2 DEF Selects
<1>6. "plugin.type" \in DOMAIN d => d["plugin.type"] \in PluginsOf(KindOf(f))
  <2>. SUFFICES ASSUME "plugin.type" \in DOMAIN b PROVE d["plugin.type"] \in PluginsOf(KindOf(f))
    BY <1>4
  <2>1. Truthy(f[x]) /\ b["plugin.type"] = f[x] /\ f[x] # Unset
    BY <1>3 DEF Truthy
  <2>2. b["plugin.type"].src = "lit"
    BY <1>2, <2>1, InputKinds
  <2>3. d["plugin.type"] = f[x]
    BY <1>4, <2>1, <2>2
  <2>4. f[x] \in PluginsOf(KindOf(f))
    BY <1>1, <1>2, <2>1 DEF Selects, PluginsOf
  <2>. QED
    BY <2>3, <2>4
<1>7. KindOf(f) = "visitor" /\ "plugin.destinationIP" \in DOMAIN d => "plugin.type" \in DOMAIN d
  <2>. SUFFICES ASSUME KindOf(f) = "visitor", "plugin.destinationIP" \in DOMAIN b
                PROVE  Truthy(f["visitorPlugin"])
    BY <1>3, <1>4
  <2>1. "plugin.destinationIP" \notin DOMAIN Computed(Rendered(f))
    BY ComputedKeys
  <2>0. /\ "plugin.destinationIP" \in DOMAIN BodyOf(f)
        /\ DOMAIN BodyOf(f) = {a.key : a \in SentRows(f)} \cup DOMAIN Computed(Rendered(f))
    BY BodyParts
  <2>2. PICK q \in SentRows(f) : q.key = "plugin.destinationIP"
    BY <2>0, <2>1
  <2>3. KindOf(Rendered(f)) = "visitor" /\ Rendered(f)["visitorPlugin"] = f["visitorPlugin"]
    BY <1>1, RenderedSelects
  <2>4. \A a \in AlwaysRows(Rendered(f)) : a.key # "plugin.destinationIP"
    BY RowShapes DEF AlwaysKeys
  <2>5. q \in TruthyRows(Rendered(f))
    BY <2>2, <2>4 DEF SentRows
  <2>. HIDE DEF Rendered
  <2>6. \A a \in Straight({"bindAddr", "serverUser"}) \cup Straight(XtcpInputs \ {"xtcpProtocol"}) :
           a.key # "plugin.destinationIP"
    BY StraightRows DEF XtcpInputs
  <2>7. Row("protocol", "xtcpProtocol").key # "plugin.destinationIP"
    BY RowParts
  <2>. QED
    BY <2>2, <2>3, <2>5, <2>6, <2>7 DEF TruthyRows
<1>8. ASSUME NEW k \in DOMAIN d
      PROVE  IsStored(r.target, k, d[k])
  <2>1. /\ k \in Switches => b[k] \in {Lit("on"), Lit("off")}
        /\ k \notin Switches => b[k] # Lit("off") /\
              (b[k] \in {Blank, Val("rule", n)} \/ b[k] = Typed(b[k].tag) \/ b[k] = Lit(b[k].tag))
    BY <1>1, <1>4, <1>8, BodyValues
  <2>2. CASE k \in Switches
    <3>1. b[k].src = "lit"
      BY <2>1, <2>2, InputKinds
    <3>. QED
      BY <1>4, <1>8, <2>1, <2>2, <3>1 DEF IsStored
  <2>3. CASE k \notin Switches /\ b[k].src \in {"rule", "typed"}
    <3>1. d[k] = Val("rule", r.target) /\ d[k] # Lit("off")
      BY <1>4, <1>8, <2>3, InputKinds
    <3>. QED
      BY <2>3, <3>1 DEF IsStored
  <2>4. CASE k \notin Switches /\ b[k].src \notin {"rule", "typed"}
    <3>1. b[k] # Lit("off") /\ (b[k] = Blank \/ b[k] = Lit(b[k].tag))
      BY <2>1, <2>4, InputKinds
    <3>2. d[k] = b[k]
      BY <1>4, <1>8, <2>4
    <3>. QED
      BY <2>4, <3>1, <3>2 DEF IsStored
  <2>. QED
    BY <2>2, <2>3, <2>4
<1>. HIDE DEF d
<1>9. IsRule(r.target, [kind |-> KindOf(f), body |-> d])
  BY <1>2, <1>5, <1>6, <1>7, <1>8 DEF IsRule
<1>. QED
  BY <1>9 DEF d

(***************************************************************************)
(* Opening.                                                                *)
(***************************************************************************)
LEMMA WithInitialParts ==
    ASSUME NEW f
    PROVE  /\ DOMAIN WithInitial(f) = Fields
           /\ \A x \in Fields :
                 \/ WithInitial(f)[x] = f[x]
                 \/ f[x] = Unset /\ x = "multiplexer" /\ WithInitial(f)[x] = Lit("httpconnect")
                 \/ f[x] = Unset /\ x = "xtcpProtocol" /\ WithInitial(f)[x] = Lit("quic")
BY DEF WithInitial

\* The default of a field that is rendered is no input of a plugin.
LEMMA WithInitialFits ==
    ASSUME NEW f, NEW n, NEW was, FormFits(f, n, was)
    PROVE  FormFits(WithInitial(f), n, was)
<1>. DEFINE g == WithInitial(f)
<1>1. \A x \in Fields \ {"multiplexer", "xtcpProtocol"} : g[x] = f[x]
  BY WithInitialParts
<1>2. SelectFields \cup PluginInputs \subseteq Fields \ {"multiplexer", "xtcpProtocol"}
  BY DEF SelectFields, PluginInputs, Fields
<1>3. /\ g["kind"] = f["kind"] /\ g["type"] = f["type"]
      /\ g["pluginName"] = f["pluginName"] /\ g["visitorPlugin"] = f["visitorPlugin"]
  BY <1>1, <1>2 DEF SelectFields
<1>4. Selects(g)
  BY <1>3 DEF FormFits, Selects, KindOf
<1>5. PluginOf(g) = PluginOf(f)
  BY <1>3 DEF PluginOf
<1>6. \A r \in PluginRows(PluginOf(f)) : g[r.field] = f[r.field]
  BY <1>1, <1>2, PluginRowParts
<1>7. PluginInputsOwn(g, was)
  BY <1>5, <1>6 DEF FormFits, PluginInputsOwn
<1>8. ASSUME NEW x \in Fields
      PROVE  IsInput(n, x, g[x])
  <2>1. CASE g[x] = f[x]
    BY <1>8, <2>1 DEF FormFits
  <2>2. CASE x \in {"multiplexer", "xtcpProtocol"} /\ g[x] \in {Lit("httpconnect"), Lit("quic")}
    BY <2>2, InputKinds DEF IsInput, SwitchFields
  <2>. QED
    BY <1>8, <2>1, <2>2, WithInitialParts
<1>. QED
  BY <1>4, <1>7, <1>8 DEF FormFits

LEMMA NewFormFits ==
    ASSUME NEW prev, NEW kind \in {"proxy", "visitor"}, NEW was
    PROVE  FormFits(NewForm(prev, kind), "", was)
<1>. DEFINE f == NewForm(prev, kind)
<1>1. SelectFields \subseteq Fields
  BY DEF SelectFields, Fields
<1>2. /\ f["kind"] = Lit(kind)
      /\ f["type"] = Lit(IF kind = "visitor" THEN "stcp" ELSE "tcp")
      /\ f["pluginName"] = Unset /\ f["visitorPlugin"] = Unset
  BY <1>1 DEF NewForm, EmptyForm, SelectFields
<1>3. \A x \in Fields \ {"kind", "type"} :
         f[x] \in {Unset, Lit("0.0.0.0"), Lit("quic"), Lit("*")} /\ (x \in SwitchFields => f[x] = Unset)
  BY DEF NewForm, EmptyForm, SwitchFields
<1>. HIDE DEF f
<1>4. KindOf(f) = kind
  BY <1>2, InputKinds DEF KindOf
<1>5. Selects(f)
  BY <1>2, <1>4 DEF Selects, TypesOf, PairTypes, ProxyTypes
<1>6. ASSUME NEW x \in Fields
      PROVE  IsInput("", x, f[x])
  <2>1. CASE x \in {"kind", "type"}
    <3>1. \E t : f[x] = Lit(t) /\ t # "off"
      BY <1>2, <2>1
    <3>2. x \notin SwitchFields
      BY <2>1 DEF SwitchFields
    <3>. QED
      BY <3>1, <3>2, LitIsInput
  <2>2. CASE f[x] = Unset
    BY <2>2, InputKinds DEF IsInput
  <2>3. CASE x \notin SwitchFields /\ f[x] \in {Lit("0.0.0.0"), Lit("quic"), Lit("*")}
    BY <2>3, LitIsInput
  <2>. QED
    BY <1>3, <2>1, <2>2, <2>3, <1>6, LitIsSet
<1>7. PluginRows(PluginOf(f)) = {}
  <2>0. Unset.tag = ""
    BY ValParts DEF Unset
  <2>1. PluginOf(f) = ""
    BY <1>2, <2>0 DEF PluginOf
  <2>. QED
    BY <2>1 DEF PluginRows, LocalAddrPlugins, HttpForwarders, TlsPlugins
<1>. QED
  BY <1>5, <1>6, <1>7 DEF FormFits, PluginInputsOwn, f

\* What the drawer reads from a rule, and what it shows where that is not truthy.
Get(rule, k) == IF k \in DOMAIN rule.body THEN rule.body[k] ELSE Unset
Or(v, default) == IF Truthy(v) THEN v ELSE default
CopiedFields == {"localPort", "remotePort", "subdomain", "multiplexer", "routeByHTTPUser",
    "secretKey", "serverName", "serverUser", "bindPort", "maxRetriesAnHour",
    "minRetryInterval", "fallbackTo", "fallbackTimeoutMs", "hostHeaderRewrite", "httpUser",
    "httpPassword"}

\* The key that a field shows.
KeyOf(x, p) ==
    CASE x \in {"pluginName", "visitorPlugin"} -> "plugin.type"
      [] x = "pluginLocalAddr" -> "plugin.localAddr"
      [] x = "pluginLocalPath" ->
            IF p = "unix_domain_socket" THEN "plugin.unixPath" ELSE "plugin.localPath"
      [] x = "pluginStripPrefix" -> "plugin.stripPrefix"
      [] x = "pluginHTTPUser" ->
            IF p = "socks5" THEN "plugin.username" ELSE "plugin.httpUser"
      [] x = "pluginHTTPPassword" ->
            IF p = "socks5" THEN "plugin.password" ELSE "plugin.httpPassword"
      [] x = "pluginHostHeaderRewrite" -> "plugin.hostHeaderRewrite"
      [] x = "pluginRequestHeaders" -> "plugin.requestHeaders"
      [] x = "pluginCrtPath" -> "plugin.crtPath"
      [] x = "pluginKeyPath" -> "plugin.keyPath"
      [] x = "pluginEnableHTTP2" -> "plugin.enableHTTP2"
      [] x = "xtcpProtocol" -> "protocol"
      [] x = "destinationIP" -> "plugin.destinationIP"
      [] OTHER -> x

LEMMA FormOfParts ==
    ASSUME NEW rule, NEW name
    PROVE  LET f == FormOf(rule, name)
               p == Get(rule, "plugin.type").tag
           IN  /\ f["kind"] = Lit(rule.kind) /\ f["name"] = Lit(name)
               /\ \A x \in {"type", "pluginName"} \cup CopiedFields
                        \cup (PluginInputs \ {"pluginEnableHTTP2"}) :
                     f[x] = Get(rule, KeyOf(x, p))
               /\ \A x \in {"localIP", "bindAddr", "customDomains", "locations", "allowUsers"} :
                     f[x] = Or(Get(rule, x), Blank)
               /\ f["pluginEnableHTTP2"] =
                     IF Get(rule, "plugin.enableHTTP2") = Unset THEN Lit("on")
                     ELSE Get(rule, "plugin.enableHTTP2")
               /\ \A x \in {"useEncryption", "useCompression", "keepTunnelOpen"} :
                     f[x] = Or(Get(rule, x), Lit("off"))
               /\ f["xtcpProtocol"] = Or(Get(rule, "protocol"), Lit("quic"))
               /\ \A x \in {"visitorPlugin", "destinationIP"} :
                     f[x] = IF rule.kind = "visitor" THEN Get(rule, KeyOf(x, p)) ELSE Unset
<1>. DEFINE f == FormOf(rule, name)
            p == Get(rule, "plugin.type").tag
<1>1. f["kind"] = Lit(rule.kind) /\ f["name"] = Lit(name)
  BY DEF FormOf, Fields
<1>2. ASSUME NEW x \in CopiedFields
      PROVE  f[x] = Get(rule, x)
  <2>1. x \in Fields
    BY DEF CopiedFields, Fields, SameName, HttpInputs
  <2>. QED
    BY <2>1 DEF FormOf, CopiedFields, Get
<1>3. f["type"] = Get(rule, "type") /\ f["pluginName"] = Get(rule, "plugin.type")
  BY DEF FormOf, Fields, Get
<1>4. /\ f["pluginLocalAddr"] = Get(rule, "plugin.localAddr")
      /\ f["pluginLocalPath"] =
            Get(rule, IF p = "unix_domain_socket" THEN "plugin.unixPath" ELSE "plugin.localPath")
      /\ f["pluginStripPrefix"] = Get(rule, "plugin.stripPrefix")
  BY DEF FormOf, Fields, PluginInputs, Get
<1>5. /\ f["pluginHTTPUser"] =
            Get(rule, IF p = "socks5" THEN "plugin.username" ELSE "plugin.httpUser")
      /\ f["pluginHTTPPassword"] =
            Get(rule, IF p = "socks5" THEN "plugin.password" ELSE "plugin.httpPassword")
  BY DEF FormOf, Fields, PluginInputs, Get
<1>6. /\ f["pluginHostHeaderRewrite"] = Get(rule, "plugin.hostHeaderRewrite")
      /\ f["pluginRequestHeaders"] = Get(rule, "plugin.requestHeaders")
      /\ f["pluginCrtPath"] = Get(rule, "plugin.crtPath")
      /\ f["pluginKeyPath"] = Get(rule, "plugin.keyPath")
  BY DEF FormOf, Fields, PluginInputs, Get
<1>7. \A x \in {"localIP", "bindAddr", "customDomains", "locations", "allowUsers"} :
         f[x] = Or(Get(rule, x), Blank)
  <2>1. {"localIP", "bindAddr", "customDomains", "locations", "allowUsers"} \subseteq Fields
    BY DEF Fields, SameName, HttpInputs
  <2>. QED
    BY <2>1 DEF FormOf, Get, Or
<1>8. f["pluginEnableHTTP2"] = IF Get(rule, "plugin.enableHTTP2") = Unset THEN Lit("on")
                               ELSE Get(rule, "plugin.enableHTTP2")
  BY DEF FormOf, Fields, PluginInputs, Get
<1>9. \A x \in {"useEncryption", "useCompression", "keepTunnelOpen"} :
         f[x] = Or(Get(rule, x), Lit("off"))
  <2>1. {"useEncryption", "useCompression", "keepTunnelOpen"} \subseteq Fields
    BY DEF Fields, XtcpInputs
  <2>. QED
    BY <2>1 DEF FormOf, Get, Or
<1>10. f["xtcpProtocol"] = Or(Get(rule, "protocol"), Lit("quic"))
  BY DEF FormOf, Fields, XtcpInputs, Get, Or
<1>11. /\ f["visitorPlugin"] = IF rule.kind = "visitor" THEN Get(rule, "plugin.type") ELSE Unset
       /\ f["destinationIP"] =
             IF rule.kind = "visitor" THEN Get(rule, "plugin.destinationIP") ELSE Unset
  BY DEF FormOf, Fields, Get
<1>. HIDE DEF f, p
<1>12. \A x \in {"type", "pluginName"} \cup CopiedFields \cup (PluginInputs \ {"pluginEnableHTTP2"}) :
          f[x] = Get(rule, KeyOf(x, p))
  <2>1. \A x \in {"type"} \cup CopiedFields : KeyOf(x, p) = x
    BY DEF KeyOf, CopiedFields
  <2>2. \A x \in PluginInputs \ {"pluginEnableHTTP2"} : f[x] = Get(rule, KeyOf(x, p))
    BY <1>4, <1>5, <1>6 DEF KeyOf, PluginInputs
  <2>3. KeyOf("pluginName", p) = "plugin.type"
    BY DEF KeyOf
  <2>. QED
    BY <1>2, <1>3, <2>1, <2>2, <2>3
<1>13. KeyOf("visitorPlugin", p) = "plugin.type" /\ KeyOf("destinationIP", p) = "plugin.destinationIP"
  BY DEF KeyOf
<1>. QED
  BY <1>1, <1>7, <1>8, <1>9, <1>10, <1>11, <1>12, <1>13 DEF f, p

\* The row of a plugin's input sends the key that the input was read from.
LEMMA RowReadsKey ==
    ASSUME NEW p, NEW r \in PluginRows(p)
    PROVE  KeyOf(r.field, p) = r.key
<1>1. \/ r = Row("plugin.localAddr", "pluginLocalAddr")
      \/ p = "static_file" /\ r = Row("plugin.localPath", "pluginLocalPath")
      \/ r = Row("plugin.stripPrefix", "pluginStripPrefix")
      \/ p = "unix_domain_socket" /\ r = Row("plugin.unixPath", "pluginLocalPath")
      \/ p = "socks5" /\ r = Row("plugin.username", "pluginHTTPUser")
      \/ p = "socks5" /\ r = Row("plugin.password", "pluginHTTPPassword")
      \/ p \in {"http_proxy", "static_file"} /\ r = Row("plugin.httpUser", "pluginHTTPUser")
      \/ p \in {"http_proxy", "static_file"} /\ r = Row("plugin.httpPassword", "pluginHTTPPassword")
      \/ r = Row("plugin.hostHeaderRewrite", "pluginHostHeaderRewrite")
      \/ r = Row("plugin.requestHeaders", "pluginRequestHeaders")
      \/ r = Row("plugin.crtPath", "pluginCrtPath")
      \/ r = Row("plugin.keyPath", "pluginKeyPath")
  BY DEF PluginRows
<1>. QED
  BY <1>1, RowParts DEF KeyOf

\* What is read from a rule can be shown.
LEMMA GetFits ==
    ASSUME NEW n, NEW rule, IsRule(n, rule), NEW k
    PROVE  /\ k \in Switches => Get(rule, k) \in {Unset, Lit("on"), Lit("off")}
           /\ k \notin Switches =>
                 \A x : x \notin SwitchFields => IsInput(n, x, Get(rule, k))
           /\ Get(rule, k) # Spaces /\ Get(rule, k).src # "typed"
           /\ Get(rule, k).src = "rule" => k \in DOMAIN rule.body
<1>1. CASE k \in DOMAIN rule.body
  <2>1. IsStored(n, k, Get(rule, k))
    BY <1>1 DEF IsRule, Get
  <2>. QED
    BY <1>1, <2>1, InputKinds DEF IsStored, IsInput
<1>2. CASE k \notin DOMAIN rule.body
  <2>1. Get(rule, k) = Unset
    BY <1>2 DEF Get
  <2>. QED
    BY <2>1, InputKinds DEF IsInput
<1>. QED
  BY <1>1, <1>2

\* A rule that frp accepts fills a form that fits.
LEMMA FormOfFits ==
    ASSUME NEW n, NEW rule, IsRule(n, rule), NEW name
    PROVE  FormFits(FormOf(rule, name), n, rule.body)
<1>. DEFINE f == FormOf(rule, name)
            p == Get(rule, "plugin.type").tag
<1>1. /\ f["kind"] = Lit(rule.kind) /\ f["name"] = Lit(name)
      /\ \A x \in {"type", "pluginName"} \cup CopiedFields
               \cup (PluginInputs \ {"pluginEnableHTTP2"}) :
            f[x] = Get(rule, KeyOf(x, p))
      /\ \A x \in {"localIP", "bindAddr", "customDomains", "locations", "allowUsers"} :
            f[x] = Or(Get(rule, x), Blank)
      /\ f["pluginEnableHTTP2"] =
            IF Get(rule, "plugin.enableHTTP2") = Unset THEN Lit("on")
            ELSE Get(rule, "plugin.enableHTTP2")
      /\ \A x \in {"useEncryption", "useCompression", "keepTunnelOpen"} :
            f[x] = Or(Get(rule, x), Lit("off"))
      /\ f["xtcpProtocol"] = Or(Get(rule, "protocol"), Lit("quic"))
      /\ \A x \in {"visitorPlugin", "destinationIP"} :
            f[x] = IF rule.kind = "visitor" THEN Get(rule, KeyOf(x, p)) ELSE Unset
  BY FormOfParts
<1>. HIDE DEF f
<1>2. KindOf(f) = rule.kind
  BY <1>1, InputKinds DEF KindOf
<1>3. KeyOf("type", p) = "type" /\ KeyOf("pluginName", p) = "plugin.type"
      /\ KeyOf("visitorPlugin", p) = "plugin.type"
  BY DEF KeyOf
<1>4. Selects(f)
  <2>1. f["type"] \in TypesOf(rule.kind)
    BY <1>1, <1>3 DEF IsRule, Get
  <2>2. /\ Get(rule, "plugin.type") \in {Unset} \cup PluginsOf(rule.kind)
        /\ rule.kind \in {"proxy", "visitor"}
    BY DEF IsRule, Get
  <2>3. f["pluginName"] \in {Unset} \cup {Lit(q) : q \in Plugins}
    BY <1>1, <1>3, <2>2 DEF PluginsOf, Plugins
  <2>4. f["visitorPlugin"] \in {Unset, Lit("virtual_net")}
    BY <1>1, <1>3, <2>2 DEF PluginsOf
  <2>. QED
    BY <1>1, <1>2, <2>1, <2>2, <2>3, <2>4 DEF Selects
<1>5. ASSUME NEW x \in {"type", "pluginName", "visitorPlugin", "destinationIP"} \cup CopiedFields
                         \cup (PluginInputs \ {"pluginEnableHTTP2"})
      PROVE  IsInput(n, x, f[x])
  <2>1. x \notin SwitchFields /\ KeyOf(x, p) \notin Switches
    BY <1>5 DEF CopiedFields, PluginInputs, SwitchFields, Switches, KeyOf
  <2>2. f[x] \in {Unset, Get(rule, KeyOf(x, p))}
    BY <1>1, <1>5
  <2>3. IsInput(n, x, Get(rule, KeyOf(x, p)))
    BY <2>1, GetFits
  <2>4. IsInput(n, x, Unset)
    BY <2>1, InputKinds DEF IsInput
  <2>. QED
    BY <2>2, <2>3, <2>4
<1>6. ASSUME NEW x \in {"localIP", "bindAddr", "customDomains", "locations", "allowUsers"}
      PROVE  IsInput(n, x, f[x])
  <2>1. x \notin SwitchFields /\ x \notin Switches
    BY <1>6 DEF SwitchFields, Switches
  <2>2. IsInput(n, x, Get(rule, x)) /\ IsInput(n, x, Blank)
    BY <2>1, GetFits, InputKinds DEF IsInput
  <2>. QED
    BY <1>1, <1>6, <2>2 DEF Or
<1>7. ASSUME NEW x \in {"useEncryption", "useCompression", "keepTunnelOpen", "pluginEnableHTTP2"}
      PROVE  IsInput(n, x, f[x])
  <2>1. \A k \in {"useEncryption", "useCompression", "keepTunnelOpen", "plugin.enableHTTP2"} :
           Get(rule, k) \in {Unset, Lit("on"), Lit("off")}
    BY GetFits DEF Switches
  <2>2. f[x] \in {Unset, Lit("on"), Lit("off")}
    BY <1>1, <1>7, <2>1 DEF Or
  <2>3. x \in SwitchFields
    BY <1>7 DEF SwitchFields
  <2>. QED
    BY <2>2, <2>3, InputKinds DEF IsInput
<1>8. IsInput(n, "xtcpProtocol", f["xtcpProtocol"])
  <2>1. "xtcpProtocol" \notin SwitchFields /\ "protocol" \notin Switches
    BY DEF SwitchFields, Switches
  <2>2. IsInput(n, "xtcpProtocol", Get(rule, "protocol")) /\ IsInput(n, "xtcpProtocol", Lit("quic"))
    BY <2>1, GetFits, LitIsInput
  <2>. QED
    BY <1>1, <2>2 DEF Or
<1>9. IsInput(n, "kind", f["kind"]) /\ IsInput(n, "name", f["name"])
  <2>1. "kind" \notin SwitchFields /\ "name" \notin SwitchFields /\ rule.kind # "off"
    BY DEF SwitchFields, IsRule
  <2>2. IsInput(n, "name", f["name"])
    BY <1>1, <2>1, InputKinds DEF IsInput
  <2>. QED
    BY <1>1, <2>1, <2>2, LitIsInput
<1>10. \A x \in Fields : IsInput(n, x, f[x])
  <2>1. Fields = {"kind", "name", "type", "pluginName", "visitorPlugin", "destinationIP"} \cup CopiedFields
                   \cup (PluginInputs \ {"pluginEnableHTTP2"})
                   \cup {"localIP", "bindAddr", "customDomains", "locations", "allowUsers"}
                   \cup {"useEncryption", "useCompression", "keepTunnelOpen", "pluginEnableHTTP2"}
                   \cup {"xtcpProtocol"}
    BY DEF Fields, SameName, HttpInputs, XtcpInputs, CopiedFields, PluginInputs
  <2>. QED
    BY <1>5, <1>6, <1>7, <1>8, <1>9, <2>1
<1>11. PluginInputsOwn(f, rule.body)
  <2>1. PluginOf(f) = p
    BY <1>1, <1>3 DEF PluginOf
  <2>. SUFFICES ASSUME NEW r \in PluginRows(p)
                PROVE  /\ f[r.field].src # "typed"
                       /\ f[r.field].src = "rule" => r.key \in DOMAIN rule.body
    BY <2>1 DEF PluginInputsOwn
  <2>2. f[r.field] = Get(rule, r.key)
    <3>1. r.field \in PluginInputs \ {"pluginEnableHTTP2"} /\ KeyOf(r.field, p) = r.key
      BY PluginRowParts, RowReadsKey
    <3>. QED
      BY <1>1, <3>1
  <2>. QED
    BY <2>2, GetFits
<1>. QED
  BY <1>4, <1>10, <1>11 DEF FormFits, f

(***************************************************************************)
(* Opening and saving.                                                     *)
(***************************************************************************)
\* A field that was read from a key, or shows the default of one that has no
\* value, leaves the meaning of the key alone when its row is sent back.
LEMMA RowKeeps ==
    ASSUME NEW f, NEW was, NEW k, NEW x, NEW g,
           g = (IF k \in DOMAIN was THEN was[k] ELSE Unset),
           k \in DOMAIN was => was[k] # Unset,
           k \notin DOMAIN Computed(Rendered(f)),
           \A r \in AlwaysRows(Rendered(f)) \cup TruthyRows(Rendered(f)) : r.key = k => r.field = x,
           \E r \in AlwaysRows(Rendered(f)) \cup TruthyRows(Rendered(f)) : r.key = k,
           \/ Rendered(f)[x] = g
           \/ ~Truthy(g) /\ Rendered(f)[x] \in {Blank, Default(k)},
           Lit("off") \in {g, Rendered(f)[x]} => Default(k) = Lit("off")
    PROVE  Meaning(BodyOf(f), k) = Meaning(was, k)
<1>. DEFINE v == Rendered(f)
            b == BodyOf(f)
<1>0. /\ DOMAIN b = {r.key : r \in SentRows(f)} \cup DOMAIN Computed(v)
      /\ \A j \in DOMAIN b \ DOMAIN Computed(v) : \E r \in SentRows(f) : r.key = j /\ b[j] = v[r.field]
  BY BodyParts
<1>1. \A r \in SentRows(f) : r \in AlwaysRows(v) \cup TruthyRows(v) /\ v[r.field] # Unset
  BY DEF SentRows, Truthy
<1>2. k \in DOMAIN b => b[k] = v[x] /\ v[x] # Unset
  BY <1>0, <1>1
<1>3. Truthy(v[x]) => k \in DOMAIN b
  <2>. SUFFICES ASSUME Truthy(v[x]) PROVE \E r \in SentRows(f) : r.key = k
    BY <1>0
  <2>1. PICK r \in AlwaysRows(v) \cup TruthyRows(v) : r.key = k
    OBVIOUS
  <2>2. Truthy(v[r.field]) /\ v[r.field] # Unset
    BY <2>1 DEF Truthy
  <2>. QED
    BY <2>1, <2>2 DEF SentRows
<1>. HIDE DEF v
<1>4. CASE Truthy(v[x])
  <2>1. Meaning(b, k) = v[x]
    BY <1>2, <1>3, <1>4 DEF Meaning, Truthy
  <2>2. CASE v[x] = g
    BY <1>4, <2>1, <2>2 DEF Meaning, Truthy
  <2>3. CASE v[x] # g
    <3>1. ~Truthy(g) /\ v[x] = Default(k)
      BY <1>4, <2>3 DEF v, Truthy
    <3>. QED
      BY <2>1, <3>1 DEF Meaning, Truthy
  <2>. QED
    BY <2>2, <2>3
<1>5. CASE ~Truthy(v[x])
  <2>1. Meaning(b, k) = Default(k)
    BY <1>2, <1>5 DEF Meaning, Truthy, v
  <2>2. ~Truthy(g)
    BY <1>5 DEF v
  <2>. QED
    BY <2>1, <2>2 DEF Meaning, Truthy
<1>. QED
  BY <1>4, <1>5

\* The keys that have an input of the same name, and are not computed.
OwnKeys(kind, t) ==
    IF kind = "visitor"
    THEN {"secretKey", "serverName", "serverUser", "bindAddr", "bindPort"}
           \cup (IF t = "xtcp" THEN XtcpInputs \ {"xtcpProtocol"} ELSE {})
    ELSE {"localIP", "localPort"} \cup (TypeKeys(t) \ {"multiplexer", "allowUsers"})

LEMMA StraightHas == \A S : \A k \in S : \E r \in Straight(S) : r.key = k
<1>. SUFFICES ASSUME NEW S, NEW k \in S PROVE \E r \in Straight(S) : r.key = k
  OBVIOUS
<1>1. [key |-> k, field |-> k] \in Straight(S)
  BY DEF Straight
<1>. QED
  BY <1>1

\* Each of these keys has its row, and its input is on screen.
LEMMA OwnKeysSent ==
    ASSUME NEW f, NEW v, KindOf(f) \in {"proxy", "visitor"}, KindOf(v) = KindOf(f),
           TypeOf(v) = TypeOf(f), TypeOf(f) \in ProxyTypes,
           NEW k \in OwnKeys(KindOf(f), TypeOf(f))
    PROVE  /\ \E r \in AlwaysRows(v) \cup TruthyRows(v) : r.key = k
           /\ k \in Mounted(f)
           /\ k \in (AlwaysKeys \cup TruthyKeys) \ {"type"}
<1>1. CASE KindOf(f) = "visitor"
  <2>1. CASE k \in {"secretKey", "serverName", "bindPort"}
    <3>1. AlwaysRows(v) = Straight({"type", "secretKey", "serverName", "bindPort"})
      BY <1>1 DEF AlwaysRows
    <3>2. \E r \in Straight({"type", "secretKey", "serverName", "bindPort"}) : r.key = k
      BY <2>1, StraightHas
    <3>3. k \in Mounted(f)
      BY <1>1, <2>1 DEF Mounted, VisitorFields
    <3>. QED
      BY <2>1, <3>1, <3>2, <3>3 DEF AlwaysKeys
  <2>2. CASE k \in {"serverUser", "bindAddr"}
    <3>1. Straight({"bindAddr", "serverUser"}) \subseteq TruthyRows(v)
      BY <1>1 DEF TruthyRows
    <3>. QED
      BY <1>1, <2>2, <3>1, StraightHas DEF Mounted, VisitorFields, TruthyKeys
  <2>3. CASE TypeOf(f) = "xtcp" /\ k \in XtcpInputs \ {"xtcpProtocol"}
    <3>1. Straight(XtcpInputs \ {"xtcpProtocol"}) \subseteq TruthyRows(v)
      BY <1>1, <2>3 DEF TruthyRows
    <3>2. k \in Mounted(f)
      BY <1>1, <2>3 DEF Mounted, VisitorFields
    <3>3. k # "type"
      BY <2>3 DEF XtcpInputs
    <3>. QED
      BY <2>3, <3>1, <3>2, <3>3, StraightHas DEF TruthyKeys
  <2>. QED
    BY <1>1, <2>1, <2>2, <2>3 DEF OwnKeys
<1>2. CASE KindOf(f) = "proxy"
  <2>1. CASE k = "localPort"
    <3>1. Straight({"type", "localPort"}) \subseteq AlwaysRows(v)
      BY <1>2 DEF AlwaysRows
    <3>. QED
      BY <1>2, <2>1, <3>1, StraightHas DEF Mounted, AlwaysKeys
  <2>2. CASE k = "localIP"
    <3>1. Straight({"localIP"}) \subseteq TruthyRows(v)
      BY <1>2 DEF TruthyRows
    <3>. QED
      BY <1>2, <2>2, <3>1, StraightHas DEF Mounted, TruthyKeys
  <2>3. CASE TypeOf(f) \in {"tcp", "udp"} /\ k \in TypeKeys(TypeOf(f))
    <3>1. k = "remotePort"
      BY <2>3 DEF TypeKeys
    <3>2. Straight({"remotePort"}) \subseteq AlwaysRows(v)
      BY <1>2, <2>3 DEF AlwaysRows
    <3>3. TypeFields(f) = {"remotePort"}
      BY <2>3 DEF TypeFields, PairTypes
    <3>4. k \in Mounted(f)
      BY <1>2, <3>1, <3>3 DEF Mounted
    <3>. QED
      BY <3>1, <3>2, <3>4, StraightHas DEF AlwaysKeys
  <2>4. CASE TypeOf(f) \in {"http", "https"} /\ k \in TypeKeys(TypeOf(f))
    <3>1. k \in {"customDomains", "subdomain"} \cup HttpInputs
      BY <2>4 DEF TypeKeys
    <3>2. Straight({"customDomains", "subdomain"} \cup HttpInputs) \subseteq TruthyRows(v)
      BY <1>2, <2>4 DEF TruthyRows
    <3>3. TypeFields(f) = TypeKeys(TypeOf(f))
      BY <2>4 DEF TypeFields, TypeKeys, PairTypes
    <3>4. k \in Mounted(f)
      BY <1>2, <2>4, <3>3 DEF Mounted
    <3>5. k \in TruthyKeys /\ k # "type"
      BY <3>1 DEF TruthyKeys, HttpInputs
    <3>. QED
      BY <3>1, <3>2, <3>4, <3>5, StraightHas
  <2>5. CASE TypeOf(f) = "tcpmux" /\ k \in TypeKeys(TypeOf(f)) \ {"multiplexer"}
    <3>1. k \in {"customDomains", "routeByHTTPUser"}
      BY <2>5 DEF TypeKeys
    <3>2. Straight({"customDomains", "routeByHTTPUser"}) \subseteq TruthyRows(v)
      BY <1>2, <2>5 DEF TruthyRows
    <3>3. TypeFields(f) = {"multiplexer", "customDomains", "routeByHTTPUser"}
      BY <2>5 DEF TypeFields, PairTypes
    <3>4. k \in Mounted(f)
      BY <1>2, <3>1, <3>3 DEF Mounted
    <3>. QED
      BY <3>1, <3>2, <3>4, StraightHas DEF TruthyKeys
  <2>6. CASE TypeOf(f) \in PairTypes /\ k \in TypeKeys(TypeOf(f)) \ {"allowUsers"}
    <3>1. k = "secretKey"
      BY <2>6 DEF TypeKeys, PairTypes
    <3>2. Straight({"secretKey"}) \subseteq AlwaysRows(v)
      BY <1>2, <2>6 DEF AlwaysRows
    <3>3. TypeFields(f) = {"secretKey", "allowUsers"}
      BY <2>6 DEF TypeFields, PairTypes
    <3>4. k \in Mounted(f)
      BY <1>2, <3>1, <3>3 DEF Mounted
    <3>. QED
      BY <3>1, <3>2, <3>4, StraightHas DEF AlwaysKeys
  <2>. QED
    BY <1>2, <2>1, <2>2, <2>3, <2>4, <2>5, <2>6 DEF OwnKeys, ProxyTypes, PairTypes
<1>. QED
  BY <1>1, <1>2

\* What the form shows of a rule, where it was rendered, is handed over as it is.
LEMMA ShownIsHandedOver ==
    ASSUME NEW n, NEW f, NEW was, FormFits(f, n, was), NEW x \in Mounted(f), x \in Fields, f[x] # Spaces
    PROVE  Rendered(f)[x] = f[x]
BY DEF Rendered, Trim

\* A key of its own is sent from the field of its name.
LEMMA OwnKeyField ==
    ASSUME NEW v, NEW k \in AlwaysKeys \cup TruthyKeys, NEW r \in AlwaysRows(v) \cup TruthyRows(v),
           r.key = k
    PROVE  r.field = k
<1>1. k \notin PluginRowKeys \cup {"protocol", "plugin.type", "plugin.destinationIP"}
  BY DEF AlwaysKeys, TruthyKeys, HttpInputs, XtcpInputs, PluginRowKeys
<1>. QED
  BY <1>1, RowShapes, PluginRowParts

LEMMA PluginRowsDiffer ==
    ASSUME NEW p, NEW r \in PluginRows(p), NEW q \in PluginRows(p), q.key = r.key
    PROVE  q.field = r.field
<1>1. \A a \in PluginRows(p) :
      \/ a = Row("plugin.localAddr", "pluginLocalAddr")
      \/ a = Row("plugin.localPath", "pluginLocalPath")
      \/ a = Row("plugin.stripPrefix", "pluginStripPrefix")
      \/ a = Row("plugin.unixPath", "pluginLocalPath")
      \/ a = Row("plugin.username", "pluginHTTPUser")
      \/ a = Row("plugin.password", "pluginHTTPPassword")
      \/ a = Row("plugin.httpUser", "pluginHTTPUser")
      \/ a = Row("plugin.httpPassword", "pluginHTTPPassword")
      \/ a = Row("plugin.hostHeaderRewrite", "pluginHostHeaderRewrite")
      \/ a = Row("plugin.requestHeaders", "pluginRequestHeaders")
      \/ a = Row("plugin.crtPath", "pluginCrtPath")
      \/ a = Row("plugin.keyPath", "pluginKeyPath")
  BY DEF PluginRows
<1>2. \A a \in PluginRows(p) :
         a.field = CASE a.key = "plugin.localAddr" -> "pluginLocalAddr"
                     [] a.key \in {"plugin.localPath", "plugin.unixPath"} -> "pluginLocalPath"
                     [] a.key = "plugin.stripPrefix" -> "pluginStripPrefix"
                     [] a.key \in {"plugin.username", "plugin.httpUser"} -> "pluginHTTPUser"
                     [] a.key \in {"plugin.password", "plugin.httpPassword"} -> "pluginHTTPPassword"
                     [] a.key = "plugin.hostHeaderRewrite" -> "pluginHostHeaderRewrite"
                     [] a.key = "plugin.requestHeaders" -> "pluginRequestHeaders"
                     [] a.key = "plugin.crtPath" -> "pluginCrtPath"
                     [] OTHER -> "pluginKeyPath"
  BY <1>1, RowParts
<1>. QED
  BY <1>2

\* Every key of a plugin but the switch has its row, and the input is on screen.
LEMMA PluginKeysSent ==
    ASSUME NEW p, NEW k \in PluginKeys(p), k # "plugin.enableHTTP2"
    PROVE  \E r \in PluginRows(p) : r.key = k /\ r.field \in PluginFields(p)
<1>. DEFINE Has(j, x) == Row(j, x) \in PluginRows(p) /\ x \in PluginFields(p)
<1>1. CASE p \in HttpForwarders /\ k \in {"plugin.localAddr", "plugin.hostHeaderRewrite", "plugin.requestHeaders"}
  <2>1. Has("plugin.localAddr", "pluginLocalAddr")
    BY <1>1 DEF PluginRows, PluginFields, LocalAddrPlugins
  <2>2. Has("plugin.hostHeaderRewrite", "pluginHostHeaderRewrite")
    BY <1>1 DEF PluginRows, PluginFields
  <2>3. Has("plugin.requestHeaders", "pluginRequestHeaders")
    BY <1>1 DEF PluginRows, PluginFields
  <2>. QED
    BY <1>1, <2>1, <2>2, <2>3, RowParts
<1>2. CASE p = "tls2raw" /\ k = "plugin.localAddr"
  <2>1. Has("plugin.localAddr", "pluginLocalAddr")
    BY <1>2 DEF PluginRows, PluginFields, LocalAddrPlugins
  <2>. QED
    BY <1>2, <2>1, RowParts
<1>3. CASE p = "static_file" /\ k \in {"plugin.localPath", "plugin.stripPrefix"}
  <2>1. Has("plugin.localPath", "pluginLocalPath") /\ Has("plugin.stripPrefix", "pluginStripPrefix")
    BY <1>3 DEF PluginRows, PluginFields
  <2>. QED
    BY <1>3, <2>1, RowParts
<1>4. CASE p \in {"http_proxy", "static_file"} /\ k \in {"plugin.httpUser", "plugin.httpPassword"}
  <2>1. Has("plugin.httpUser", "pluginHTTPUser") /\ Has("plugin.httpPassword", "pluginHTTPPassword")
    BY <1>4 DEF PluginRows, PluginFields, AuthPlugins
  <2>. QED
    BY <1>4, <2>1, RowParts
<1>5. CASE p = "socks5" /\ k \in {"plugin.username", "plugin.password"}
  <2>1. Has("plugin.username", "pluginHTTPUser") /\ Has("plugin.password", "pluginHTTPPassword")
    BY <1>5 DEF PluginRows, PluginFields, AuthPlugins
  <2>. QED
    BY <1>5, <2>1, RowParts
<1>6. CASE p = "unix_domain_socket" /\ k = "plugin.unixPath"
  <2>1. Has("plugin.unixPath", "pluginLocalPath")
    BY <1>6 DEF PluginRows, PluginFields
  <2>. QED
    BY <1>6, <2>1, RowParts
<1>7. CASE p \in TlsPlugins /\ k \in {"plugin.crtPath", "plugin.keyPath"}
  <2>1. Has("plugin.crtPath", "pluginCrtPath") /\ Has("plugin.keyPath", "pluginKeyPath")
    BY <1>7 DEF PluginRows, PluginFields
  <2>. QED
    BY <1>7, <2>1, RowParts
<1>. QED
  BY <1>1, <1>2, <1>3, <1>4, <1>5, <1>6, <1>7 DEF PluginKeys

\* The form that a rule is opened with, field by field.
LEMMA OpenedForm ==
    ASSUME NEW n, NEW rule, IsRule(n, rule), NEW f, f = WithInitial(FormOf(rule, n))
    PROVE  LET p == PluginIn(rule.body)
           IN  /\ KindOf(f) = rule.kind
               /\ f["type"] = rule.body["type"]
               /\ f["pluginName"] = Get(rule, "plugin.type") /\ PluginOf(f) = p
               /\ rule.kind = "visitor" => /\ f["visitorPlugin"] = Get(rule, "plugin.type")
                                           /\ f["destinationIP"] = Get(rule, "plugin.destinationIP")
               /\ \A x \in CopiedFields \ {"multiplexer"} : f[x] = Get(rule, x)
               /\ \/ f["multiplexer"] = Get(rule, "multiplexer")
                  \/ f["multiplexer"] = Lit("httpconnect") /\ Get(rule, "multiplexer") = Unset
               /\ \A x \in PluginInputs \ {"pluginEnableHTTP2"} : f[x] = Get(rule, KeyOf(x, p))
               /\ \A x \in {"localIP", "bindAddr", "customDomains", "locations"} :
                     f[x] = Or(Get(rule, x), Blank)
               /\ f["pluginEnableHTTP2"] =
                     IF Get(rule, "plugin.enableHTTP2") = Unset THEN Lit("on")
                     ELSE Get(rule, "plugin.enableHTTP2")
               /\ \A x \in {"useEncryption", "useCompression", "keepTunnelOpen"} :
                     f[x] = Or(Get(rule, x), Lit("off"))
               /\ f["xtcpProtocol"] = Or(Get(rule, "protocol"), Lit("quic"))
<1>. DEFINE f0 == FormOf(rule, n)
            p == Get(rule, "plugin.type").tag
<1>1. p = PluginIn(rule.body)
  <2>1. Unset.tag = ""
    BY ValParts DEF Unset
  <2>. QED
    BY <2>1 DEF Get, PluginIn
<1>2. /\ f0["kind"] = Lit(rule.kind)
      /\ \A x \in {"type", "pluginName"} \cup CopiedFields
               \cup (PluginInputs \ {"pluginEnableHTTP2"}) :
            f0[x] = Get(rule, KeyOf(x, p))
      /\ \A x \in {"localIP", "bindAddr", "customDomains", "locations", "allowUsers"} :
            f0[x] = Or(Get(rule, x), Blank)
      /\ f0["pluginEnableHTTP2"] =
            IF Get(rule, "plugin.enableHTTP2") = Unset THEN Lit("on")
            ELSE Get(rule, "plugin.enableHTTP2")
      /\ \A x \in {"useEncryption", "useCompression", "keepTunnelOpen"} :
            f0[x] = Or(Get(rule, x), Lit("off"))
      /\ f0["xtcpProtocol"] = Or(Get(rule, "protocol"), Lit("quic"))
      /\ \A x \in {"visitorPlugin", "destinationIP"} :
            f0[x] = IF rule.kind = "visitor" THEN Get(rule, KeyOf(x, p)) ELSE Unset
  BY FormOfParts
<1>3. \A x \in Fields :
         \/ f[x] = f0[x]
         \/ f0[x] = Unset /\ x = "multiplexer" /\ f[x] = Lit("httpconnect")
         \/ f0[x] = Unset /\ x = "xtcpProtocol"
  BY WithInitialParts
<1>. HIDE DEF f0, p
<1>4. Fields = {"kind", "name", "type", "pluginName", "visitorPlugin", "destinationIP"} \cup CopiedFields
                 \cup (PluginInputs \ {"pluginEnableHTTP2"})
                 \cup {"localIP", "bindAddr", "customDomains", "locations", "allowUsers"}
                 \cup {"useEncryption", "useCompression", "keepTunnelOpen", "pluginEnableHTTP2"}
                 \cup {"xtcpProtocol"}
  BY DEF Fields, SameName, HttpInputs, XtcpInputs, CopiedFields, PluginInputs
<1>5. \A x \in Fields \ {"multiplexer", "xtcpProtocol"} : f[x] = f0[x]
  BY <1>3
<1>6. /\ \A x \in {"type"} \cup CopiedFields : KeyOf(x, p) = x
      /\ KeyOf("pluginName", p) = "plugin.type" /\ KeyOf("visitorPlugin", p) = "plugin.type"
      /\ KeyOf("destinationIP", p) = "plugin.destinationIP"
  BY DEF KeyOf, CopiedFields
<1>7. /\ f["kind"] = Lit(rule.kind) /\ f["type"] = Get(rule, "type")
      /\ f["pluginName"] = Get(rule, "plugin.type")
  BY <1>2, <1>4, <1>5, <1>6
<1>8. KindOf(f) = rule.kind /\ PluginOf(f) = p
  BY <1>7, InputKinds DEF KindOf, PluginOf, p
<1>9. f["type"] = rule.body["type"]
  BY <1>7 DEF Get, IsRule
<1>10. rule.kind = "visitor" => /\ f["visitorPlugin"] = Get(rule, "plugin.type")
                                /\ f["destinationIP"] = Get(rule, "plugin.destinationIP")
  BY <1>2, <1>4, <1>5, <1>6
<1>11. \A x \in CopiedFields \ {"multiplexer"} : f[x] = Get(rule, x)
  <2>1. CopiedFields \ {"multiplexer"} \subseteq Fields \ {"multiplexer", "xtcpProtocol"}
    BY <1>4 DEF CopiedFields
  <2>. QED
    BY <1>2, <1>5, <1>6, <2>1
<1>12. \/ f["multiplexer"] = Get(rule, "multiplexer")
       \/ f["multiplexer"] = Lit("httpconnect") /\ Get(rule, "multiplexer") = Unset
  <2>1. "multiplexer" \in CopiedFields /\ "multiplexer" \in Fields
    BY <1>4 DEF CopiedFields
  <2>. QED
    BY <1>2, <1>3, <1>6, <2>1
<1>13. \A x \in PluginInputs \ {"pluginEnableHTTP2"} : f[x] = Get(rule, KeyOf(x, p))
  <2>1. PluginInputs \ {"pluginEnableHTTP2"} \subseteq Fields \ {"multiplexer", "xtcpProtocol"}
    BY <1>4 DEF PluginInputs
  <2>. QED
    BY <1>2, <1>5, <2>1
<1>14. /\ \A x \in {"localIP", "bindAddr", "customDomains", "locations"} :
             f[x] = Or(Get(rule, x), Blank)
       /\ f["pluginEnableHTTP2"] =
             IF Get(rule, "plugin.enableHTTP2") = Unset THEN Lit("on")
             ELSE Get(rule, "plugin.enableHTTP2")
       /\ \A x \in {"useEncryption", "useCompression", "keepTunnelOpen"} :
             f[x] = Or(Get(rule, x), Lit("off"))
  BY <1>2, <1>4, <1>5
<1>15. f["xtcpProtocol"] = Or(Get(rule, "protocol"), Lit("quic"))
  <2>1. f0["xtcpProtocol"] # Unset
    BY <1>2, LitIsSet DEF Or, Truthy
  <2>. QED
    BY <1>2, <1>3, <1>4, <2>1
<1>. QED
  BY <1>1, <1>8, <1>7, <1>9, <1>10, <1>11, <1>12, <1>13, <1>14, <1>15

\* Opening a rule and saving it as it is leaves every key that the drawer can
\* show what it meant.
LEMMA RoundTrip ==
    ASSUME NEW n, NEW rule, IsRule(n, rule), NEW f, f = WithInitial(FormOf(rule, n)),
           NEW k \in Schema(rule.kind, rule.body["type"].tag, PluginIn(rule.body)) \ {"allowUsers"}
    PROVE  Meaning(BodyOf(f), k) = Meaning(rule.body, k)
<1>. DEFINE was == rule.body
            p == PluginIn(was)
            v == Rendered(f)
            b == BodyOf(f)
            c == Computed(v)
            rows == AlwaysRows(v) \cup TruthyRows(v)
<1>1. FormFits(f, n, was)
  BY FormOfFits, WithInitialFits
<1>2. Selects(f) /\ \A x \in Fields : IsInput(n, x, f[x])
  BY <1>1 DEF FormFits
<1>3. /\ KindOf(f) = rule.kind /\ f["type"] = was["type"] /\ TypeOf(f) = was["type"].tag
      /\ f["pluginName"] = Get(rule, "plugin.type") /\ PluginOf(f) = p
      /\ rule.kind = "visitor" => /\ f["visitorPlugin"] = Get(rule, "plugin.type")
                                  /\ f["destinationIP"] = Get(rule, "plugin.destinationIP")
      /\ rule.kind \in {"proxy", "visitor"}
  BY OpenedForm DEF TypeOf, IsRule
<1>4. \A j \in DOMAIN was : was[j] # Unset
  BY InputKinds DEF IsRule, IsStored
<1>5. /\ KindOf(v) = rule.kind /\ TypeOf(v) = TypeOf(f) /\ TypeOf(f) \in ProxyTypes
      /\ rule.kind = "proxy" => v["pluginName"] = f["pluginName"] /\ PluginOf(v) = p
      /\ rule.kind = "visitor" => v["visitorPlugin"] = f["visitorPlugin"]
  BY <1>2, <1>3, RenderedSelects, SelectParts DEF PluginOf
<1>6. \A j \in DOMAIN c : j \in DOMAIN b /\ b[j] = c[j]
  BY BodyParts
<1>7. \A x \in Mounted(f) \cap Fields : f[x] # Spaces => v[x] = f[x]
  BY <1>1, ShownIsHandedOver
<1>. HIDE DEF b, c, v, was, p
<1>8. CASE k = "type"
  BY <1>2, <1>3, <1>8, BodyFits DEF Meaning, b, was, IsRule
<1>9. CASE k = "plugin.type"
  <2>. DEFINE x == IF rule.kind = "visitor" THEN "visitorPlugin" ELSE "pluginName"
  <2>1. f[x] = Get(rule, k)
    BY <1>3, <1>9
  <2>2. /\ k \in DOMAIN b <=> Truthy(f[x])
        /\ k \in DOMAIN b => b[k] = f[x]
    BY <1>2, <1>3, <1>9, BodyFits DEF b
  <2>3. k \in DOMAIN was => Truthy(was[k])
    <3>. SUFFICES ASSUME k \in DOMAIN was PROVE Truthy(was[k])
      OBVIOUS
    <3>1. PICK q \in Plugins : was[k] = Lit(q)
      BY <1>9 DEF IsRule, was, PluginsOf, Plugins
    <3>2. Lit(q).src = "lit" /\ Lit(q).tag # "off"
      BY InputKinds DEF Plugins, LocalAddrPlugins, HttpForwarders, AuthPlugins
    <3>. QED
      BY <3>1, <3>2, InputKinds DEF Truthy
  <2>4. ~Truthy(Unset)
    BY DEF Truthy
  <2>. QED
    BY <2>1, <2>2, <2>3, <2>4 DEF Meaning, Get, Truthy, b, was
<1>10. CASE k \in {"useEncryption", "useCompression"}
  <2>1. f[k] = Or(Get(rule, k), Lit("off")) /\ Get(rule, k) \in {Unset, Lit("on"), Lit("off")}
    BY <1>10, OpenedForm, GetFits DEF Switches
  <2>2. f[k] \in {Lit("on"), Lit("off")}
    BY <2>1 DEF Or, Truthy
  <2>3. k \in Mounted(f) \cap Fields
    BY <1>3, <1>10 DEF Mounted, VisitorFields, Fields
  <2>4. v[k] = f[k]
    BY <1>7, <2>2, <2>3, InputKinds
  <2>5. k \in DOMAIN c /\ c[k] = IF Truthy(v[k]) THEN Lit("on") ELSE Lit("off")
    <3>1. v[k] # Unset
      BY <2>2, <2>4, LitIsSet
    <3>. QED
      BY <1>10, <3>1 DEF Computed, c
  <2>6. b[k] = f[k] /\ k \in DOMAIN b
    BY <1>6, <2>2, <2>4, <2>5, InputKinds DEF Truthy
  <2>7. Default(k) = Lit("off")
    BY <1>10 DEF Default
  <2>8. Lit("on") # Blank /\ Lit("off") # Blank /\ Truthy(Lit("on")) /\ ~Truthy(Lit("off")) /\ ~Truthy(Unset)
    BY InputKinds DEF Truthy
  <2>. QED
    BY <2>1, <2>2, <2>6, <2>7, <2>8, <1>4 DEF Meaning, Or, Get, was, b
<1>11. CASE k = "plugin.enableHTTP2"
  <2>1. rule.kind = "proxy" /\ p \in Http2Switch
    BY <1>3, <1>11 DEF Schema, VisitorKeys, TypeKeys, HttpInputs, XtcpInputs, PluginKeys, p, was
  <2>2. /\ f["pluginEnableHTTP2"] = (IF Get(rule, k) = Unset THEN Lit("on") ELSE Get(rule, k))
        /\ Get(rule, k) \in {Unset, Lit("on"), Lit("off")}
    BY <1>11, OpenedForm, GetFits DEF Switches
  <2>3. "pluginEnableHTTP2" \in Mounted(f) \cap Fields
    BY <1>3, <2>1 DEF Mounted, PluginFields, Fields, PluginInputs
  <2>4. v["pluginEnableHTTP2"] = f["pluginEnableHTTP2"]
    BY <1>7, <2>2, <2>3, InputKinds
  <2>5. k \in DOMAIN c /\ c[k] = IF v["pluginEnableHTTP2"] # Lit("off") THEN Lit("on") ELSE Lit("off")
    BY <1>5, <1>11, <2>1 DEF Computed, c
  <2>6. Default(k) = Lit("on") /\ Lit("on") # Blank /\ Lit("off") # Blank /\ Lit("on") # Lit("off")
    BY <1>11, InputKinds DEF Default
  <2>7. b[k] = f["pluginEnableHTTP2"] /\ k \in DOMAIN b
    BY <1>6, <2>2, <2>4, <2>5, <2>6
  <2>. QED
    BY <2>2, <2>6, <2>7, <1>4 DEF Meaning, Get, was, b
<1>12. CASE k = "multiplexer"
  <2>1. rule.kind = "proxy" /\ TypeOf(f) = "tcpmux"
    BY <1>3, <1>5, <1>12 DEF Schema, VisitorKeys, TypeKeys, PluginKeys, HttpInputs, XtcpInputs, was
  <2>2. \/ f[k] = Get(rule, k)
        \/ f[k] = Lit("httpconnect") /\ Get(rule, k) = Unset
    BY <1>12, OpenedForm
  <2>3. Get(rule, k) # Spaces /\ Get(rule, k) # Lit("off")
    <3>1. k \notin Switches
      BY <1>12 DEF Switches
    <3>2. IsInput(n, "multiplexer", Get(rule, k))
      BY <3>1, GetFits DEF SwitchFields
    <3>. QED
      BY <3>2, GetFits DEF IsInput, SwitchFields
  <2>4. k \in Mounted(f) \cap Fields
    <3>1. TypeFields(f) = {"multiplexer", "customDomains", "routeByHTTPUser"}
      BY <2>1 DEF TypeFields, PairTypes
    <3>. QED
      BY <1>3, <1>12, <2>1, <3>1 DEF Mounted, Fields, SameName
  <2>5. v[k] = f[k]
    BY <1>7, <2>2, <2>3, <2>4, InputKinds
  <2>6. k \in DOMAIN c /\ c[k] = IF Truthy(v[k]) THEN v[k] ELSE Lit("httpconnect")
    BY <1>5, <1>12, <2>1 DEF Computed, c
  <2>7. Default(k) = Lit("httpconnect") /\ Lit("httpconnect") # Blank
    BY <1>12, InputKinds DEF Default
  <2>8. Truthy(Lit("httpconnect"))
    BY InputKinds DEF Truthy
  <2>9. b[k] = (IF Truthy(Get(rule, k)) THEN Get(rule, k) ELSE Lit("httpconnect")) /\ k \in DOMAIN b
    BY <1>6, <2>2, <2>5, <2>6, <2>8 DEF Truthy
  <2>. QED
    BY <2>3, <2>7, <2>9, <1>4 DEF Meaning, Get, was, b, Truthy
<1>13. k \notin {"useEncryption", "useCompression", "multiplexer", "plugin.enableHTTP2"} => k \notin DOMAIN c
  BY ComputedKeys DEF c
<1>14. Get(rule, k) # Spaces /\ (k \notin Switches => Get(rule, k) # Lit("off"))
  <2>1. k \notin Switches => IsInput(n, "type", Get(rule, k))
    BY GetFits DEF SwitchFields
  <2>. QED
    BY <2>1, GetFits DEF IsInput, SwitchFields
<1>15. CASE k \in OwnKeys(rule.kind, TypeOf(f))
  <2>1. /\ \E r \in rows : r.key = k
        /\ k \in Mounted(f) /\ k \in (AlwaysKeys \cup TruthyKeys) \ {"type"}
    BY <1>3, <1>5, <1>15, OwnKeysSent
  <2>2. \A r \in rows : r.key = k => r.field = k
    BY <2>1, OwnKeyField
  <2>3. k \in (CopiedFields \ {"multiplexer"}) \cup {"localIP", "bindAddr", "customDomains", "locations"}
             \cup {"keepTunnelOpen"}
    BY <2>1 DEF AlwaysKeys, TruthyKeys, CopiedFields, HttpInputs, XtcpInputs
  <2>4. k \in Fields /\ k \notin DOMAIN c
    BY <1>13, <2>3 DEF Fields, SameName, HttpInputs, XtcpInputs, CopiedFields
  <2>5. CASE k \in CopiedFields \ {"multiplexer"}
    <3>1. f[k] = Get(rule, k) /\ k \notin Switches
      BY <2>5, OpenedForm DEF CopiedFields, Switches
    <3>2. v[k] = Get(rule, k)
      BY <1>7, <1>14, <2>1, <2>4, <3>1
    <3>3. Lit("off") \notin {Get(rule, k), v[k]}
      BY <1>14, <3>1, <3>2
    <3>. QED
      BY <1>4, <2>1, <2>2, <2>4, <3>2, <3>3, RowKeeps DEF v, c, was, Get
  <2>6. CASE k \in {"localIP", "bindAddr", "customDomains", "locations"}
    <3>1. f[k] = Or(Get(rule, k), Blank) /\ k \notin Switches
      BY <2>6, OpenedForm DEF Switches
    <3>2. v[k] = Or(Get(rule, k), Blank)
      BY <1>7, <1>14, <2>1, <2>4, <3>1, InputKinds DEF Or
    <3>3. v[k] = Get(rule, k) \/ (~Truthy(Get(rule, k)) /\ v[k] = Blank)
      BY <3>2 DEF Or
    <3>4. Lit("off") \notin {Get(rule, k), v[k]}
      BY <1>14, <3>1, <3>3, InputKinds
    <3>. QED
      BY <1>4, <2>1, <2>2, <2>4, <3>3, <3>4, RowKeeps DEF v, c, was, Get
  <2>7. CASE k = "keepTunnelOpen"
    <3>1. f[k] = Or(Get(rule, k), Lit("off")) /\ Default(k) = Lit("off")
      BY <2>7, OpenedForm DEF Default
    <3>2. v[k] = Or(Get(rule, k), Lit("off"))
      BY <1>7, <1>14, <2>1, <2>4, <3>1, InputKinds DEF Or
    <3>3. v[k] = Get(rule, k) \/ (~Truthy(Get(rule, k)) /\ v[k] = Default(k))
      BY <3>1, <3>2 DEF Or
    <3>. QED
      BY <1>4, <2>1, <2>2, <2>4, <3>1, <3>3, RowKeeps DEF v, c, was, Get
  <2>. QED
    BY <2>3, <2>5, <2>6, <2>7
<1>16. CASE rule.kind = "proxy" /\ k \in PluginKeys(p) \ {"plugin.enableHTTP2"}
  <2>1. PICK r \in PluginRows(p) : r.key = k /\ r.field \in PluginFields(p)
    BY <1>16, PluginKeysSent
  <2>2. k \in PluginRowKeys /\ r.field \in PluginInputs \ {"pluginEnableHTTP2"} /\ KeyOf(r.field, p) = k
    BY <2>1, PluginRowParts, RowReadsKey
  <2>3. r.field \in Fields /\ r.field \in Mounted(f) /\ k \notin DOMAIN c /\ k \notin Switches
    BY <1>3, <1>13, <1>16, <2>1, <2>2 DEF Mounted, Fields, PluginRowKeys, Switches
  <2>4. Truthy(v["pluginName"])
    <3>1. PluginKeys("") = {}
      BY DEF PluginKeys, HttpForwarders, TlsPlugins, Http2Switch
    <3>2. p # ""
      BY <1>16, <3>1
    <3>3. ~Truthy(f["pluginName"]) => f["pluginName"].tag = ""
      BY <1>2, SelectParts
    <3>. QED
      BY <1>3, <1>5, <1>16, <3>2, <3>3 DEF PluginOf
  <2>5. r \in rows
    <3>1. PluginRows(PluginOf(v)) \subseteq TruthyRows(v)
      BY <1>5, <1>16, <2>4 DEF TruthyRows
    <3>. QED
      BY <1>5, <1>16, <2>1, <3>1
  <2>6. \A q \in rows : q.key = k => q.field = r.field
    <3>. SUFFICES ASSUME NEW q \in rows, q.key = k PROVE q.field = r.field
      OBVIOUS
    <3>1. k \notin AlwaysKeys \cup TruthyKeys \cup {"protocol", "plugin.type", "plugin.destinationIP"}
      BY <2>2 DEF AlwaysKeys, TruthyKeys, HttpInputs, XtcpInputs, PluginRowKeys
    <3>2. q \in PluginRows(PluginOf(v))
      BY <3>1, RowShapes
    <3>. QED
      BY <1>5, <1>16, <2>1, <3>2, PluginRowsDiffer
  <2>7. f[r.field] = Get(rule, k)
    BY <2>2, OpenedForm DEF p, was
  <2>8. v[r.field] = Get(rule, k)
    BY <1>7, <1>14, <2>3, <2>7
  <2>9. Lit("off") \notin {Get(rule, k), v[r.field]}
    BY <1>14, <2>3, <2>8
  <2>. QED
    BY <1>4, <2>1, <2>3, <2>5, <2>6, <2>8, <2>9, RowKeeps DEF v, c, was, Get
<1>17. CASE rule.kind = "visitor" /\ TypeOf(f) = "xtcp" /\ k = "protocol"
  <2>1. Row("protocol", "xtcpProtocol") \in rows
    BY <1>5, <1>17 DEF TruthyRows
  <2>2. \A r \in rows : r.key = k => r.field = "xtcpProtocol"
    <3>1. "protocol" \notin AlwaysKeys \cup TruthyKeys \cup PluginRowKeys
      BY DEF AlwaysKeys, TruthyKeys, HttpInputs, XtcpInputs, PluginRowKeys
    <3>. QED
      BY <1>17, <3>1, RowShapes, PluginRowParts
  <2>3. "xtcpProtocol" \in Mounted(f) \cap Fields /\ k \notin DOMAIN c /\ k \notin Switches
    BY <1>3, <1>13, <1>17 DEF Mounted, VisitorFields, XtcpInputs, Fields, Switches
  <2>4. f["xtcpProtocol"] = Or(Get(rule, k), Lit("quic")) /\ Default(k) = Lit("quic")
    BY <1>17, OpenedForm DEF Default
  <2>5. v["xtcpProtocol"] = Or(Get(rule, k), Lit("quic"))
    BY <1>7, <1>14, <2>3, <2>4, InputKinds DEF Or
  <2>6. v["xtcpProtocol"] = Get(rule, k) \/ (~Truthy(Get(rule, k)) /\ v["xtcpProtocol"] = Default(k))
    BY <2>4, <2>5 DEF Or
  <2>7. Lit("quic") # Lit("off")
    <3>1. Lit("quic").tag # Lit("off").tag
      BY InputKinds
    <3>. QED
      BY <3>1
  <2>8. Lit("off") \notin {Get(rule, k), v["xtcpProtocol"]}
    BY <1>14, <2>3, <2>5, <2>7 DEF Or
  <2>9. \E r \in rows : r.key = k
    BY <1>17, <2>1, RowParts
  <2>. QED
    BY <1>4, <2>2, <2>3, <2>6, <2>8, <2>9, RowKeeps DEF v, c, was, Get
<1>18. CASE rule.kind = "visitor" /\ k = "plugin.destinationIP"
  <2>1. k \notin DOMAIN c /\ k \notin Switches
    BY <1>13, <1>18 DEF Switches
  <2>2. \A r \in rows : r.key = k => r.field = "destinationIP"
    <3>1. k \notin AlwaysKeys \cup TruthyKeys \cup PluginRowKeys
      BY <1>18 DEF AlwaysKeys, TruthyKeys, HttpInputs, XtcpInputs, PluginRowKeys
    <3>. QED
      BY <1>18, <3>1, RowShapes, PluginRowParts
  <2>3. CASE Truthy(f["visitorPlugin"])
    <3>1. f["visitorPlugin"] = Lit("virtual_net")
      BY <1>2, <2>3 DEF Selects, Truthy
    <3>2. "destinationIP" \in Mounted(f) \cap Fields
      BY <1>3, <1>18, <3>1 DEF Mounted, VisitorFields, Fields
    <3>3. v["destinationIP"] = Get(rule, k)
      BY <1>3, <1>7, <1>14, <1>18, <3>2
    <3>4. Row("plugin.destinationIP", "destinationIP") \in rows
      BY <1>5, <1>18, <2>3 DEF TruthyRows
    <3>5. \E r \in rows : r.key = k
      BY <1>18, <3>4, RowParts
    <3>6. Lit("off") \notin {Get(rule, k), v["destinationIP"]}
      BY <1>14, <2>1, <3>3
    <3>. QED
      BY <1>4, <2>1, <2>2, <3>3, <3>5, <3>6, RowKeeps DEF v, c, was, Get
  <2>4. CASE ~Truthy(f["visitorPlugin"])
    <3>1. k \notin DOMAIN was
      <4>1. k \in DOMAIN was => "plugin.type" \in DOMAIN was
        BY <1>18 DEF IsRule, was
      <4>2. "plugin.type" \in DOMAIN was => Get(rule, "plugin.type") = Lit("virtual_net")
        BY <1>18 DEF IsRule, was, PluginsOf, Get
      <4>3. Truthy(Lit("virtual_net"))
        BY InputKinds DEF Truthy
      <4>. QED
        BY <1>3, <1>18, <2>4, <4>1, <4>2, <4>3
    <3>2. ~Truthy(v["visitorPlugin"])
      BY <1>5, <1>18, <2>4
    <3>3. \A r \in rows : r.key # k
      <4>. SUFFICES ASSUME NEW r \in rows, r.key = k PROVE FALSE
        OBVIOUS
      <4>1. r \in TruthyRows(v)
        BY <1>18, RowShapes DEF AlwaysKeys
      <4>2. \/ r \in Straight({"bindAddr", "serverUser"})
            \/ r \in Straight(XtcpInputs \ {"xtcpProtocol"})
            \/ r = Row("protocol", "xtcpProtocol")
        BY <1>5, <1>18, <3>2, <4>1 DEF TruthyRows
      <4>3. \/ r.key \in {"bindAddr", "serverUser"} \cup XtcpInputs
            \/ r.key = "protocol"
        BY <4>2, StraightRows, RowParts
      <4>. QED
        BY <1>18, <4>3 DEF XtcpInputs
    <3>4. k \notin DOMAIN b
      <4>1. \A r \in SentRows(f) : r \in rows
        BY DEF SentRows, v
      <4>2. DOMAIN b = {r.key : r \in SentRows(f)} \cup DOMAIN c
        BY BodyParts DEF b, c, v
      <4>. QED
        BY <2>1, <3>3, <4>1, <4>2
    <3>. QED
      BY <3>1, <3>4 DEF Meaning, b, was
  <2>. QED
    BY <2>3, <2>4
<1>. QED
  <2>1. k \in Schema(rule.kind, TypeOf(f), p) \ {"allowUsers"}
    BY <1>3 DEF was, p
  <2>2. CASE rule.kind = "visitor"
    BY <2>1, <2>2, <1>8, <1>9, <1>10, <1>15, <1>17, <1>18 DEF Schema, VisitorKeys, OwnKeys
  <2>3. CASE rule.kind = "proxy"
    BY <2>1, <2>3, <1>8, <1>9, <1>10, <1>11, <1>12, <1>15, <1>16 DEF Schema, OwnKeys
  <2>. QED
    BY <1>3, <2>2, <2>3

(***************************************************************************)
(* The steps.                                                              *)
(***************************************************************************)
IInv == TypeOK /\ Fits /\ BodyFitsSchema /\ BodyIsOfSession /\ UntouchedIsKept

LEMMA InputShape ==
    ASSUME NEW n, NEW x, NEW v, IsInput(n, x, v)
    PROVE  DOMAIN v = {"src", "tag"}
<1>1. \A s, t : DOMAIN Val(s, t) = {"src", "tag"}
  BY DEF Val
<1>2. \E s, t : v = Val(s, t)
  BY DEF IsInput, Unset, Blank, Spaces, Lit, Typed
<1>. QED
  BY <1>1, <1>2

\* What belongs to the requests outlives a step that adds none.
LEMMA RequestsKeep ==
    ASSUME BodyFitsSchema, BodyIsOfSession, UntouchedIsKept, requests' \subseteq requests
    PROVE  BodyFitsSchema' /\ BodyIsOfSession' /\ UntouchedIsKept'
<1>1. BodyFitsSchema'
  BY DEF BodyFitsSchema
<1>2. BodyIsOfSession'
  BY DEF BodyIsOfSession
<1>3. UntouchedIsKept'
  BY DEF UntouchedIsKept
<1>. QED
  BY <1>1, <1>2, <1>3

\* Any change of the fields that keeps the selects to what they offer, leaves
\* the plugin alone and types for the selected one.
LEMMA ChangeFits ==
    ASSUME NEW f, NEW n, NEW was, FormFits(f, n, was), NEW g, Selects(g), PluginOf(g) = PluginOf(f),
           \A x \in Fields :
              \/ g[x] = f[x]
              \/ /\ IsInput(n, x, g[x])
                 /\ g[x].src # "rule"
                 /\ g[x].src = "typed" => g[x].tag = PluginOf(f)
    PROVE  FormFits(g, n, was)
<1>1. \A x \in Fields : IsInput(n, x, g[x])
  BY DEF FormFits
<1>2. ASSUME NEW r \in PluginRows(PluginOf(f))
      PROVE  /\ g[r.field].src = "typed" => g[r.field].tag = PluginOf(f)
             /\ g[r.field].src = "rule" => r.key \in DOMAIN was
  <2>1. r.field \in Fields
    BY PluginRowParts DEF Fields
  <2>. QED
    BY <2>1 DEF FormFits, PluginInputsOwn
<1>. QED
  BY <1>1, <1>2 DEF FormFits, PluginInputsOwn

LEMMA OpenKeeps ==
    ASSUME IInv, NEW mode \in {"new", "edit", "copy"}, NEW rule, NEW was, NEW f,
           Open(mode, rule, was, f), FormFits(f, rule, was),
           mode = "edit" => /\ IsRule(rule, [kind |-> KindOf(f), body |-> was])
                            /\ f = FormOf([kind |-> KindOf(f), body |-> was], rule)
    PROVE  IInv'
<1>1. /\ sessions < MaxSessions /\ sessions' = sessions + 1
      /\ session' = [mode |-> mode, rule |-> rule, was |-> was, touched |-> FALSE]
      /\ form' = WithInitial(f)
  BY DEF Open
<1>2. stored' = stored /\ edits' = edits /\ requests' = requests
  BY DEF Open
<1>3. DOMAIN form' = Fields /\ KindOf(form') = KindOf(f)
  <2>1. "kind" \in Fields \ {"multiplexer", "xtcpProtocol"}
    BY DEF Fields
  <2>. QED
    BY <1>1, <2>1, WithInitialParts DEF KindOf
<1>4. FormFits(form', rule, was)
  BY <1>1, WithInitialFits
<1>5. TypeOK'
  <2>1. \A x \in Fields : DOMAIN form'[x] = {"src", "tag"}
    BY <1>4, InputShape DEF FormFits
  <2>2. sessions' \in 0..MaxSessions
    BY <1>1, BoundsAssumption DEF IInv, TypeOK
  <2>. QED
    BY <1>1, <1>2, <1>3, <2>1, <2>2 DEF IInv, TypeOK
<1>6. mode = "edit" => EditFits'
  BY <1>1, <1>3 DEF EditFits, EditedRule
<1>7. Fits'
  <2>1. \A n \in DOMAIN stored' : IsRule(n, stored'[n])
    BY <1>2 DEF IInv, Fits
  <2>2. \A r \in requests' : IsRule(r.target, [kind |-> r.kind, body |-> OnDisk(r)])
    BY <1>2 DEF IInv, Fits
  <2>3. FormFits(form, session.rule, session.was)'
    BY <1>1, <1>4
  <2>4. (session.mode = "edit" => EditFits)'
    BY <1>1, <1>6
  <2>. QED
    BY <2>1, <2>2, <2>3, <2>4 DEF Fits
<1>. QED
  BY <1>2, <1>5, <1>7, RequestsKeep DEF IInv

LEMMA EditKeeps ==
    ASSUME IInv, NEW g, Edit(g), FormFits(g, session.rule, session.was),
           session.mode = "edit" => KindOf(g) = KindOf(form)
    PROVE  IInv'
<1>1. /\ session.mode # "closed" /\ edits < MaxEdits /\ edits' = edits + 1
      /\ form' = WithInitial(g)
      /\ session' = [session EXCEPT !.touched = TRUE]
  BY DEF Edit
<1>2. stored' = stored /\ sessions' = sessions /\ requests' = requests
  BY DEF Edit
<1>3. /\ DOMAIN session' = {"mode", "rule", "was", "touched"}
      /\ session'.mode = session.mode /\ session'.rule = session.rule /\ session'.was = session.was
      /\ session'.touched = TRUE
  BY <1>1 DEF IInv, TypeOK
<1>4. DOMAIN form' = Fields /\ KindOf(form') = KindOf(g)
  <2>1. "kind" \in Fields \ {"multiplexer", "xtcpProtocol"}
    BY DEF Fields
  <2>. QED
    BY <1>1, <2>1, WithInitialParts DEF KindOf
<1>5. FormFits(form', session.rule, session.was)
  BY <1>1, WithInitialFits
<1>6. TypeOK'
  <2>1. \A x \in Fields : DOMAIN form'[x] = {"src", "tag"}
    BY <1>5, InputShape DEF FormFits
  <2>2. edits' \in 0..MaxEdits
    BY <1>1, BoundsAssumption DEF IInv, TypeOK
  <2>. QED
    BY <1>2, <1>3, <1>4, <2>1, <2>2 DEF IInv, TypeOK
<1>7. session.mode = "edit" => EditFits'
  <2>1. session.mode = "edit" => IsRule(session.rule, [kind |-> KindOf(form), body |-> session.was])
    BY DEF IInv, Fits, EditFits, EditedRule
  <2>. QED
    BY <1>3, <1>4, <2>1 DEF EditFits, EditedRule
<1>8. Fits'
  <2>1. \A n \in DOMAIN stored' : IsRule(n, stored'[n])
    BY <1>2 DEF IInv, Fits
  <2>2. \A r \in requests' : IsRule(r.target, [kind |-> r.kind, body |-> OnDisk(r)])
    BY <1>2 DEF IInv, Fits
  <2>3. FormFits(form, session.rule, session.was)'
    BY <1>3, <1>5
  <2>4. (session.mode = "edit" => EditFits)'
    BY <1>3, <1>7
  <2>. QED
    BY <2>1, <2>2, <2>3, <2>4 DEF Fits
<1>. QED
  BY <1>2, <1>6, <1>8, RequestsKeep DEF IInv

\* The user's changes, each of which leaves a form that fits.
LEMMA UserEditKeeps ==
    ASSUME IInv, UserEdit
    PROVE  IInv'
<1>. DEFINE n == session.rule
            was == session.was
<1>1. session.mode # "closed"
  BY DEF UserEdit, ChooseKind, ChooseType, ChoosePlugin, ChooseVisitorPlugin, Type, Toggle,
         FillRequired, Edit
<1>2. FormFits(form, n, was) /\ Selects(form) /\ DOMAIN form = Fields
  BY <1>1 DEF IInv, Fits, TypeOK, FormFits
<1>3. SelectFields \cup SwitchFields \cup {"bindPort"} \subseteq Fields
  BY DEF SelectFields, SwitchFields, Fields, SameName, XtcpInputs, PluginInputs
<1>4. \A t : Lit(t).src = "lit" /\ Lit(t).tag = t
  BY InputKinds
<1>5. ASSUME NEW k \in {"proxy", "visitor"}, ChooseKind(k)
      PROVE  IInv'
  <2>. DEFINE t == IF k = "visitor" /\ TypeOf(form) \notin PairTypes THEN Lit("stcp") ELSE form["type"]
              g == [form EXCEPT !["kind"] = Lit(k), !["type"] = t]
  <2>1. session.mode # "edit" /\ Edit(g)
    BY <1>5 DEF ChooseKind
  <2>2. /\ g["kind"] = Lit(k) /\ g["type"] = t
        /\ \A x \in Fields \ {"kind", "type"} : g[x] = form[x]
    BY <1>2, <1>3 DEF SelectFields
  <2>3. t \in TypesOf(k)
    <3>1. form["type"] = Lit(TypeOf(form)) /\ TypeOf(form) \in ProxyTypes
      BY <1>2, SelectParts
    <3>. QED
      BY <3>1 DEF TypesOf, PairTypes
  <2>. HIDE DEF t, g
  <2>4. KindOf(g) = k
    BY <1>4, <2>2 DEF KindOf
  <2>5. g["pluginName"] = form["pluginName"] /\ g["visitorPlugin"] = form["visitorPlugin"]
    BY <1>3, <2>2 DEF SelectFields
  <2>6. Selects(g) /\ PluginOf(g) = PluginOf(form)
    BY <1>2, <2>2, <2>3, <2>4, <2>5 DEF Selects, PluginOf
  <2>7. IsInput(n, "kind", g["kind"]) /\ IsInput(n, "type", g["type"])
    <3>1. \E w : t = Lit(w) /\ w # "off"
      BY <2>3 DEF TypesOf, PairTypes, ProxyTypes
    <3>2. "kind" \notin SwitchFields /\ "type" \notin SwitchFields /\ k # "off"
      BY DEF SwitchFields
    <3>. QED
      BY <2>2, <3>1, <3>2, LitIsInput
  <2>8. g["kind"].src = "lit" /\ g["type"].src = "lit"
    <3>1. \E w : t = Lit(w)
      BY <2>3 DEF TypesOf
    <3>. QED
      BY <1>4, <2>2, <3>1
  <2>9. FormFits(g, n, was)
    BY <1>2, <2>2, <2>6, <2>7, <2>8, ChangeFits
  <2>. QED
    BY <2>1, <2>9, EditKeeps
<1>6. ASSUME NEW t \in ProxyTypes, ChooseType(t)
      PROVE  IInv'
  <2>. DEFINE g == [form EXCEPT !["type"] = Lit(t)]
  <2>1. Edit(g) /\ t \in (IF KindOf(form) = "visitor" THEN PairTypes ELSE ProxyTypes)
    BY <1>6 DEF ChooseType
  <2>2. /\ g["type"] = Lit(t)
        /\ \A x \in Fields \ {"type"} : g[x] = form[x]
    BY <1>2, <1>3 DEF SelectFields
  <2>. HIDE DEF g
  <2>3. /\ g["kind"] = form["kind"] /\ g["pluginName"] = form["pluginName"]
        /\ g["visitorPlugin"] = form["visitorPlugin"]
    BY <1>3, <2>2 DEF SelectFields
  <2>4. KindOf(g) = KindOf(form) /\ PluginOf(g) = PluginOf(form)
    BY <2>3 DEF KindOf, PluginOf
  <2>5. Selects(g)
    BY <1>2, <2>1, <2>2, <2>3, <2>4 DEF Selects, TypesOf
  <2>6. IsInput(n, "type", g["type"]) /\ g["type"].src = "lit"
    <3>1. t # "off" /\ "type" \notin SwitchFields
      BY DEF ProxyTypes, SwitchFields
    <3>. QED
      BY <1>4, <2>2, <3>1, LitIsInput
  <2>7. FormFits(g, n, was)
    BY <1>2, <2>2, <2>4, <2>5, <2>6, ChangeFits
  <2>. QED
    BY <2>1, <2>4, <2>7, EditKeeps
<1>7. ASSUME NEW p \in Plugins \cup {""}, ChoosePlugin(p)
      PROVE  IInv'
  <2>. DEFINE g == [x \in Fields |->
               CASE x = "pluginName" -> IF p = "" THEN Unset ELSE Lit(p)
                 [] x = "pluginEnableHTTP2" -> IF p \in Http2Switch THEN Lit("on") ELSE Unset
                 [] x \in PluginInputs -> Unset
                 [] OTHER -> form[x]]
  <2>1. Edit(g)
    BY <1>7 DEF ChoosePlugin
  <2>2. g["pluginName"] = IF p = "" THEN Unset ELSE Lit(p)
    <3>1. "pluginName" \in Fields
      BY <1>3 DEF SelectFields
    <3>. QED
      BY <3>1 DEF PluginInputs
  <2>3. g["pluginEnableHTTP2"] \in {Lit("on"), Unset}
    BY <1>3 DEF SwitchFields
  <2>4. \A x \in PluginInputs \ {"pluginEnableHTTP2"} : g[x] = Unset
    BY DEF PluginInputs, Fields
  <2>5. \A x \in Fields \ (PluginInputs \cup {"pluginName"}) : g[x] = form[x]
    BY DEF PluginInputs
  <2>. HIDE DEF g
  <2>6. /\ g["kind"] = form["kind"] /\ g["type"] = form["type"]
        /\ g["visitorPlugin"] = form["visitorPlugin"]
    BY <1>3, <2>5 DEF SelectFields, PluginInputs
  <2>7. Selects(g)
    BY <1>2, <2>2, <2>6 DEF Selects, KindOf
  <2>8. ASSUME NEW x \in Fields
        PROVE  IsInput(n, x, g[x])
    <3>1. CASE x = "pluginName"
      <4>1. p # "off" /\ x \notin SwitchFields
        BY <3>1 DEF Plugins, LocalAddrPlugins, HttpForwarders, AuthPlugins, SwitchFields
      <4>2. IsInput(n, x, Unset) /\ IsInput(n, x, Lit(p))
        BY <4>1, LitIsInput, InputKinds DEF IsInput
      <4>. QED
        BY <2>2, <3>1, <4>2
    <3>2. CASE x = "pluginEnableHTTP2"
      <4>1. x \in SwitchFields
        BY <3>2 DEF SwitchFields
      <4>2. IsInput(n, x, Unset) /\ IsInput(n, x, Lit("on"))
        BY <4>1, InputKinds DEF IsInput
      <4>. QED
        BY <2>3, <3>2, <4>2
    <3>3. CASE x \in PluginInputs \ {"pluginEnableHTTP2"}
      BY <2>4, <3>3, InputKinds DEF IsInput
    <3>4. CASE x \notin PluginInputs \cup {"pluginName"}
      BY <1>2, <2>5, <2>8, <3>4 DEF FormFits
    <3>. QED
      BY <3>1, <3>2, <3>3, <3>4
  <2>9. PluginInputsOwn(g, was)
    BY <2>4, PluginRowParts, InputKinds DEF PluginInputsOwn
  <2>10. FormFits(g, n, was) /\ KindOf(g) = KindOf(form)
    BY <2>6, <2>7, <2>8, <2>9 DEF FormFits, KindOf
  <2>. QED
    BY <2>1, <2>10, EditKeeps
<1>8. ASSUME ChooseVisitorPlugin
      PROVE  IInv'
  <2>1. PICK g : /\ Edit(g)
                 /\ \/ g = [form EXCEPT !["visitorPlugin"] = Lit("virtual_net"), !["bindPort"] = Lit("-1")]
                    \/ g = [form EXCEPT !["visitorPlugin"] = Unset]
    BY <1>8 DEF ChooseVisitorPlugin
  <2>2. /\ g["visitorPlugin"] \in {Unset, Lit("virtual_net")}
        /\ g["bindPort"] \in {form["bindPort"], Lit("-1")}
        /\ \A x \in Fields \ {"visitorPlugin", "bindPort"} : g[x] = form[x]
    BY <1>2, <1>3, <2>1 DEF SelectFields
  <2>3. /\ g["kind"] = form["kind"] /\ g["pluginName"] = form["pluginName"]
        /\ g["type"] = form["type"]
    BY <1>3, <2>2 DEF SelectFields
  <2>4. KindOf(g) = KindOf(form) /\ PluginOf(g) = PluginOf(form)
    BY <2>3 DEF KindOf, PluginOf
  <2>5. Selects(g)
    BY <1>2, <2>2, <2>3, <2>4 DEF Selects
  <2>6. \A x \in {"visitorPlugin", "bindPort"} :
           IsInput(n, x, Unset) /\ IsInput(n, x, Lit("virtual_net")) /\ IsInput(n, x, Lit("-1"))
    <3>1. \A x \in {"visitorPlugin", "bindPort"} : x \notin SwitchFields
      BY DEF SwitchFields
    <3>. QED
      BY <3>1, LitIsInput, InputKinds DEF IsInput
  <2>7. Unset.src = "unset"
    BY InputKinds
  <2>8. FormFits(g, n, was)
    BY <1>2, <1>4, <2>2, <2>4, <2>5, <2>6, <2>7, ChangeFits
  <2>. QED
    BY <2>1, <2>4, <2>8, EditKeeps
<1>9. ASSUME NEW x \in EditFields, NEW v \in {Blank, Spaces, Typed(PluginOf(form))}, Type(x, v)
      PROVE  IInv'
  <2>. DEFINE g == [form EXCEPT ![x] = v]
  <2>1. Edit(g)
    BY <1>9 DEF Type
  <2>2. x \in Fields /\ x \notin SelectFields \cup SwitchFields
    BY EditFieldsAssumption
  <2>3. g[x] = v /\ \A y \in Fields \ {x} : g[y] = form[y]
    BY <1>2, <2>2
  <2>. HIDE DEF g
  <2>4. /\ g["kind"] = form["kind"] /\ g["pluginName"] = form["pluginName"]
        /\ g["type"] = form["type"] /\ g["visitorPlugin"] = form["visitorPlugin"]
    BY <1>3, <2>2, <2>3 DEF SelectFields
  <2>5. KindOf(g) = KindOf(form) /\ PluginOf(g) = PluginOf(form) /\ Selects(g)
    BY <1>2, <2>4 DEF Selects, KindOf, PluginOf
  <2>6. /\ IsInput(n, x, v) /\ v.src # "rule"
        /\ v.src = "typed" => v.tag = PluginOf(form)
    BY <2>2, InputKinds DEF IsInput
  <2>7. FormFits(g, n, was)
    BY <1>2, <2>3, <2>5, <2>6, ChangeFits
  <2>. QED
    BY <2>1, <2>5, <2>7, EditKeeps
<1>10. ASSUME NEW x \in SwitchFields, Toggle(x)
       PROVE  IInv'
  <2>. DEFINE v == IF Truthy(form[x]) THEN Lit("off") ELSE Lit("on")
              g == [form EXCEPT ![x] = v]
  <2>1. Edit(g)
    BY <1>10 DEF Toggle
  <2>2. x \in Fields /\ x \notin SelectFields
    BY <1>3 DEF SelectFields, SwitchFields
  <2>3. g[x] = v /\ \A y \in Fields \ {x} : g[y] = form[y]
    BY <1>2, <2>2
  <2>4. v \in {Lit("on"), Lit("off")}
    OBVIOUS
  <2>. HIDE DEF g, v
  <2>5. /\ g["kind"] = form["kind"] /\ g["pluginName"] = form["pluginName"]
        /\ g["type"] = form["type"] /\ g["visitorPlugin"] = form["visitorPlugin"]
    BY <1>3, <2>2, <2>3 DEF SelectFields
  <2>6. KindOf(g) = KindOf(form) /\ PluginOf(g) = PluginOf(form) /\ Selects(g)
    BY <1>2, <2>5 DEF Selects, KindOf, PluginOf
  <2>7. IsInput(n, x, v) /\ v.src = "lit"
    BY <2>4, InputKinds DEF IsInput
  <2>8. FormFits(g, n, was)
    BY <1>2, <2>3, <2>6, <2>7, ChangeFits
  <2>. QED
    BY <2>1, <2>6, <2>8, EditKeeps
<1>11. ASSUME FillRequired
       PROVE  IInv'
  <2>. DEFINE missing == {x \in Required(form) : form[x] \in {Unset, Blank}}
              g == [x \in Fields |->
                      IF x \in Required(form) /\ form[x] \in {Unset, Blank}
                        THEN IF x = "name" THEN Lit(NewName) ELSE Typed(PluginOf(form))
                        ELSE form[x]]
  <2>1. Edit(g)
    BY <1>11 DEF FillRequired
  <2>2. \A x \in Fields :
           g[x] = IF x \in missing THEN (IF x = "name" THEN Lit(NewName) ELSE Typed(PluginOf(form)))
                  ELSE form[x]
    OBVIOUS
  <2>3. missing \cap (SelectFields \cup SwitchFields) = {}
    <3>1. Required(form) \cap ({"kind", "pluginName", "visitorPlugin"} \cup SwitchFields) = {}
      BY DEF Required, SwitchFields
    <3>2. form["type"] \notin {Unset, Blank}
      <4>1. form["type"].src = "lit"
        <5>1. form["type"] = Lit(TypeOf(form))
          BY <1>2, SelectParts
        <5>. QED
          BY <1>4, <5>1
      <4>. QED
        BY <4>1, InputKinds
    <3>. QED
      BY <3>1, <3>2 DEF SelectFields
  <2>. HIDE DEF g, missing
  <2>4. /\ g["kind"] = form["kind"] /\ g["pluginName"] = form["pluginName"]
        /\ g["type"] = form["type"] /\ g["visitorPlugin"] = form["visitorPlugin"]
    BY <1>3, <2>2, <2>3 DEF SelectFields
  <2>5. KindOf(g) = KindOf(form) /\ PluginOf(g) = PluginOf(form) /\ Selects(g)
    BY <1>2, <2>4 DEF Selects, KindOf, PluginOf
  <2>6. ASSUME NEW x \in Fields
        PROVE  \/ g[x] = form[x]
               \/ /\ IsInput(n, x, g[x])
                  /\ g[x].src # "rule"
                  /\ g[x].src = "typed" => g[x].tag = PluginOf(form)
    <3>1. CASE x \in missing /\ x = "name"
      <4>1. g[x] = Lit(NewName) /\ x \notin SwitchFields
        BY <2>2, <2>6, <3>1 DEF SwitchFields
      <4>. QED
        BY <3>1, <4>1, InputKinds DEF IsInput
    <3>2. CASE x \in missing /\ x # "name"
      <4>1. g[x] = Typed(PluginOf(form)) /\ x \notin SwitchFields
        BY <2>2, <2>3, <2>6, <3>2
      <4>. QED
        BY <4>1, InputKinds DEF IsInput
    <3>3. CASE x \notin missing
      BY <2>2, <2>6, <3>3
    <3>. QED
      BY <3>1, <3>2, <3>3
  <2>7. FormFits(g, n, was)
    BY <1>2, <2>5, <2>6, ChangeFits
  <2>. QED
    BY <2>1, <2>5, <2>7, EditKeeps
<1>. QED
  BY <1>5, <1>6, <1>7, <1>8, <1>9, <1>10, <1>11 DEF UserEdit

\* A request that is made of a form that fits is sound.
LEMMA SubmitKeeps ==
    ASSUME IInv, Submit
    PROVE  IInv'
<1>. DEFINE r == [mode |-> session.mode, rule |-> session.rule, was |-> session.was,
                  target |-> IF session.mode = "edit" THEN session.rule ELSE Trim(form["name"]).tag,
                  kind |-> KindOf(form), body |-> BodyOf(form), untouched |-> ~session.touched]
<1>1. /\ requests' = requests \cup {r}
      /\ r.mode = session.mode /\ r.rule = session.rule /\ r.was = session.was
      /\ r.kind = KindOf(form) /\ r.body = BodyOf(form)
      /\ r.untouched = ~session.touched
  BY DEF Submit
<1>. HIDE DEF r
<1>2. /\ session.mode # "closed" /\ stored' = stored /\ session' = session /\ form' = form
      /\ edits' = edits /\ sessions' = sessions
  BY DEF Submit
<1>3. FormFits(form, session.rule, session.was) /\ Selects(form)
  BY <1>2 DEF IInv, Fits, FormFits
<1>4. IsRule(r.target, [kind |-> r.kind, body |-> OnDisk(r)])
  BY <1>1, <1>3, RequestFits
<1>5. /\ DOMAIN r.body \subseteq Schema(r.kind, r.body["type"].tag, PluginIn(r.body))
      /\ r.kind = "visitor" => r.body["type"].tag \in PairTypes
  <2>1. DOMAIN r.body \subseteq Schema(r.kind, TypeOf(form), PluginIn(r.body))
    BY <1>1, <1>3, BodyFits
  <2>2. r.body["type"] = form["type"]
    BY <1>1, <1>3, BodyFits
  <2>3. TypeOf(form) = r.body["type"].tag
    BY <2>2 DEF TypeOf
  <2>4. KindOf(form) = "visitor" => TypeOf(form) \in PairTypes
    BY <1>3, SelectParts
  <2>. QED
    BY <1>1, <2>1, <2>3, <2>4
<1>6. \A k \in DOMAIN r.body :
         LET v == r.body[k]
             ofPlugin == k \in PluginKeys(PluginIn(r.body))
         IN /\ v.src = "rule" => v.tag = r.rule /\ (ofPlugin => k \in DOMAIN r.was)
            /\ v.src = "typed" /\ ofPlugin => v.tag = PluginIn(r.body)
  BY <1>1, <1>3, BodyOwns
<1>7. ASSUME r.mode = "edit", r.untouched,
             NEW k \in Schema(r.kind, r.was["type"].tag, PluginIn(r.was)) \ {"allowUsers"}
      PROVE  Meaning(r.body, k) = Meaning(r.was, k)
  <2>1. IsRule(session.rule, EditedRule) /\ form = WithInitial(FormOf(EditedRule, session.rule))
    BY <1>1, <1>7 DEF IInv, Fits, EditFits
  <2>2. EditedRule.kind = r.kind /\ EditedRule.body = r.was
    BY <1>1 DEF EditedRule
  <2>. QED
    BY <1>1, <1>7, <2>1, <2>2, RoundTrip
<1>8. TypeOK'
  BY <1>2 DEF IInv, TypeOK
<1>9. Fits'
  <2>1. \A n \in DOMAIN stored' : IsRule(n, stored'[n])
    BY <1>2 DEF IInv, Fits
  <2>2. \A q \in requests' : IsRule(q.target, [kind |-> q.kind, body |-> OnDisk(q)])
    BY <1>1, <1>4 DEF IInv, Fits
  <2>3. (session.mode # "closed" => FormFits(form, session.rule, session.was))'
    BY <1>2, <1>3
  <2>4. (session.mode = "edit" => EditFits)'
    BY <1>2 DEF IInv, Fits, EditFits, EditedRule
  <2>. QED
    BY <2>1, <2>2, <2>3, <2>4 DEF Fits
<1>10. BodyFitsSchema'
  BY <1>1, <1>5 DEF IInv, BodyFitsSchema
<1>11. BodyIsOfSession'
  BY <1>1, <1>6 DEF IInv, BodyIsOfSession
<1>12. UntouchedIsKept'
  BY <1>1, <1>7 DEF IInv, UntouchedIsKept
<1>. QED
  BY <1>8, <1>9, <1>10, <1>11, <1>12 DEF IInv

LEMMA AnswerKeeps ==
    ASSUME IInv, NEW r \in requests, Answer(r)
    PROVE  IInv'
<1>1. requests' = requests \ {r} /\ form' = form /\ edits' = edits /\ sessions' = sessions
  BY DEF Answer
<1>2. IsRule(r.target, [kind |-> r.kind, body |-> OnDisk(r)]) /\ r.kind \in {"proxy", "visitor"}
  BY DEF IInv, Fits, IsRule
<1>3. \/ session' = session
      \/ session' = Closed
  BY DEF Answer
<1>4. \/ stored' = stored
      \/ stored' = [n \in DOMAIN stored \cup {r.target} |->
                      IF n = r.target THEN [kind |-> r.kind, body |-> OnDisk(r)] ELSE stored[n]]
  BY DEF Answer
<1>5. \A n \in DOMAIN stored' : IsRule(n, stored'[n]) /\ stored'[n].kind \in {"proxy", "visitor"}
  BY <1>2, <1>4 DEF IInv, Fits, IsRule
<1>6. TypeOK'
  <2>1. DOMAIN session = {"mode", "rule", "was", "touched"}
        /\ session.mode \in {"closed", "new", "edit", "copy"}
    BY DEF IInv, TypeOK
  <2>2. DOMAIN Closed = {"mode", "rule", "was", "touched"} /\ Closed.mode = "closed"
    BY DEF Closed
  <2>3. DOMAIN session' = {"mode", "rule", "was", "touched"}
        /\ session'.mode \in {"closed", "new", "edit", "copy"}
    BY <1>3, <2>1, <2>2
  <2>4. (\A n \in DOMAIN stored : stored[n].kind \in {"proxy", "visitor"})'
    BY <1>5
  <2>. QED
    BY <1>1, <2>3, <2>4 DEF IInv, TypeOK
<1>7. Fits'
  <2>0. Closed.mode = "closed"
    BY DEF Closed
  <2>1. (session.mode # "closed" => FormFits(form, session.rule, session.was))'
    <3>1. session.mode # "closed" => FormFits(form, session.rule, session.was)
      BY DEF IInv, Fits
    <3>. QED
      BY <1>1, <1>3, <2>0, <3>1
  <2>2. (session.mode = "edit" => EditFits)'
    <3>1. session.mode = "edit" => EditFits
      BY DEF IInv, Fits
    <3>. QED
      BY <1>1, <1>3, <2>0, <3>1 DEF EditFits, EditedRule
  <2>3. \A q \in requests' : IsRule(q.target, [kind |-> q.kind, body |-> OnDisk(q)])
    BY <1>1 DEF IInv, Fits
  <2>. QED
    BY <1>5, <2>1, <2>2, <2>3 DEF Fits
<1>. QED
  BY <1>1, <1>6, <1>7, RequestsKeep DEF IInv

LEMMA InitHolds == Init => IInv
<1>. SUFFICES ASSUME Init PROVE IInv
  OBVIOUS
<1>1. TypeOK
  <2>1. \A x \in Fields : form[x] = Unset
    BY DEF Init, EmptyForm
  <2>2. DOMAIN form = Fields
    BY DEF Init, EmptyForm
  <2>3. DOMAIN Unset = {"src", "tag"}
    BY DEF Unset, Val
  <2>4. \A n \in DOMAIN stored : stored[n].kind \in {"proxy", "visitor"}
    BY InitialRulesAssumption DEF Init, IsRule
  <2>5. edits \in 0..MaxEdits /\ sessions \in 0..MaxSessions
    BY BoundsAssumption DEF Init
  <2>. QED
    BY <2>1, <2>2, <2>3, <2>4, <2>5 DEF Init, TypeOK, Closed
<1>2. Fits
  BY InitialRulesAssumption DEF Init, Fits, Closed
<1>3. BodyFitsSchema /\ BodyIsOfSession /\ UntouchedIsKept
  BY DEF Init, BodyFitsSchema, BodyIsOfSession, UntouchedIsKept
<1>. QED
  BY <1>1, <1>2, <1>3 DEF IInv

LEMMA StepHolds == IInv /\ [Next]_vars => IInv'
<1>. SUFFICES ASSUME IInv, [Next]_vars PROVE IInv'
  OBVIOUS
<1>1. ASSUME NEW k \in {"proxy", "visitor"}, OpenNew(k)
      PROVE  IInv'
  <2>1. Open("new", "", NoBody, NewForm(form, k))
    BY <1>1 DEF OpenNew
  <2>. QED
    BY <2>1, NewFormFits, OpenKeeps
<1>2. ASSUME NEW n \in DOMAIN stored, OpenEdit(n) \/ OpenCopy(n)
      PROVE  IInv'
  <2>1. IsRule(n, stored[n])
    BY DEF IInv, Fits
  <2>2. CASE OpenEdit(n)
    <3>. DEFINE f == FormOf(stored[n], n)
    <3>1. Open("edit", n, stored[n].body, f)
      BY <2>2 DEF OpenEdit
    <3>2. FormFits(f, n, stored[n].body)
      BY <2>1, FormOfFits
    <3>3. KindOf(f) = stored[n].kind
      <4>1. f["kind"] = Lit(stored[n].kind)
        BY FormOfParts
      <4>. QED
        BY <4>1, InputKinds DEF KindOf
    <3>4. IsRule(n, [kind |-> stored[n].kind, body |-> stored[n].body])
      BY <2>1 DEF IsRule
    <3>5. f = FormOf([kind |-> stored[n].kind, body |-> stored[n].body], n)
      BY DEF FormOf
    <3>. HIDE DEF f
    <3>. QED
      BY <3>1, <3>2, <3>3, <3>4, <3>5, OpenKeeps
  <2>3. CASE OpenCopy(n)
    <3>1. Open("copy", n, stored[n].body, FormOf(stored[n], NewName))
      BY <2>3 DEF OpenCopy
    <3>2. FormFits(FormOf(stored[n], NewName), n, stored[n].body)
      BY <2>1, FormOfFits
    <3>. QED
      BY <3>1, <3>2, OpenKeeps
  <2>. QED
    BY <1>2, <2>2, <2>3
<1>3. ASSUME Close
      PROVE  IInv'
  <2>1. /\ session' = Closed /\ stored' = stored /\ form' = form /\ edits' = edits
        /\ sessions' = sessions /\ requests' = requests
    BY <1>3 DEF Close
  <2>2. TypeOK'
    BY <2>1 DEF IInv, TypeOK, Closed
  <2>3. Fits'
    BY <2>1 DEF IInv, Fits, Closed
  <2>. QED
    BY <2>1, <2>2, <2>3, RequestsKeep DEF IInv
<1>4. ASSUME UNCHANGED vars
      PROVE  IInv'
  <2>1. /\ session' = session /\ stored' = stored /\ form' = form /\ edits' = edits
        /\ sessions' = sessions /\ requests' = requests
    BY <1>4 DEF vars
  <2>2. TypeOK'
    BY <2>1 DEF IInv, TypeOK
  <2>3. Fits'
    BY <2>1 DEF IInv, Fits, EditFits, EditedRule
  <2>. QED
    BY <2>1, <2>2, <2>3, RequestsKeep DEF IInv
<1>. QED
  BY <1>1, <1>2, <1>3, <1>4, UserEditKeeps, SubmitKeeps, AnswerKeeps DEF Next

(***************************************************************************)
(* The theorems.                                                           *)
(***************************************************************************)
\* The inductive invariant: the types, what is stored, shown and sent fits, and
\* each request keeps what handleSaveProxy promises.
THEOREM Invariant == Spec => []IInv
BY InitHolds, StepHolds, PTL DEF Spec

\* The drawer's variables keep their types: a mode the page knows, a value in
\* every field, stored rules of a known kind.
THEOREM TypeCorrect == Spec => []TypeOK
<1>1. IInv => TypeOK
  BY DEF IInv
<1>. QED
  BY <1>1, Invariant, PTL

\* Whatever was chosen in whatever order, handleSaveProxy sends only keys that
\* the type and the plugin of the body have, for any rules on disk, any fields
\* typed into, and any number of sessions.
THEOREM SavedBodyFits == Spec => []BodyFitsSchema
<1>1. IInv => BodyFitsSchema
  BY DEF IInv
<1>. QED
  BY <1>1, Invariant, PTL

\* A saved body holds nothing of a rule that the drawer showed before, and a
\* plugin's keys nothing that was entered for another plugin.
THEOREM NothingLeaksAcross == Spec => []BodyIsOfSession
<1>1. IInv => BodyIsOfSession
  BY DEF IInv
<1>. QED
  BY <1>1, Invariant, PTL

\* Opening any rule that frp accepts and saving it as it is changes nothing that
\* the drawer can show, allowUsers apart.
THEOREM SavingKeepsTheRule == Spec => []UntouchedIsKept
<1>1. IInv => UntouchedIsKept
  BY DEF IInv
<1>. QED
  BY <1>1, Invariant, PTL

\* What is on disk, however it was edited, stays a rule that frp accepts.
THEOREM StoredRulesFit == Spec => []Fits
<1>1. IInv => Fits
  BY DEF IInv
<1>. QED
  BY <1>1, Invariant, PTL

=============================================================================
