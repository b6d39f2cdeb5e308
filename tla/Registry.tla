------------------------------ MODULE Registry ------------------------------
(***************************************************************************)
(* What the adapter remembers of the servers it has talked to: the         *)
(* endpoints that said bridge.session.ready (src/src/runtime/state.py) and *)
(* the catalogs they sent (src/src/protocol/query_api.py, one kind of      *)
(* them: the five do not touch each other), and how a maid.api registry    *)
(* call finds the catalog it reads (src/src/api.py).                       *)
(* Both are Python dicts, here sequences in insertion order: which entry   *)
(* wins depends on it.  Neither is cleared by a disconnect.  A frame is    *)
(* handled without an await (route_frame, _handle_decision), and one that  *)
(* route_frame refuses changes nothing.                                    *)
(***************************************************************************)
EXTENDS Naturals, Sequences, SequencesExt

CONSTANTS
    Names,      \* server and endpoint ids, ordered as the strings are
    Absent,     \* a blank id
    DefaultId,  \* "__default__"
    Senders,    \* identities frames come with
    Flags,      \* what an endpoint may say of external emoji
    Revisions,
    Registries, \* registry ids
    MaxFrames,  \* bound: frames that arrive
    MaxTime     \* bound: milliseconds that pass

ASSUME RegistryAssumption ==
    /\ Names \subseteq Nat /\ Absent \notin Names /\ DefaultId \notin Names \cup {Absent}
    \* from_dict gives a frame without a source_endpoint the Java default
    /\ Senders \subseteq [server : Names \cup {Absent}, endpoint : Names \cup {Absent}, source : Names]
    /\ Flags \subseteq [capability : {"yes", "no", "unsaid"}, feature : {"yes", "no", "unsaid"}]
    /\ Revisions \subseteq Nat /\ Registries \subseteq Nat
    /\ MaxFrames \in Nat /\ MaxTime \in Nat \ {0}

VARIABLES
    endpoints,  \* BridgeRuntimeState.endpoints
    catalogs,   \* query_api._CATALOGS
    now,        \* the clock, in milliseconds
    arrived,    \* history: frames so far
    greeter,    \* history: who said bridge.session.ready last, and its flags
    suppliers   \* history: who has sent a catalog

vars == <<endpoints, catalogs, now, arrived, greeter, suppliers>>

Endpoints == [server : Names, endpoint : Names, flag : Flags]
Catalogs == [server : Names, endpoint : Names, at : Nat, revision : Revisions,
             registry : Registries, arrival : Nat]

TypeOK ==
    /\ endpoints \in Seq(Endpoints)
    /\ \A i, j \in DOMAIN endpoints : endpoints[i].endpoint = endpoints[j].endpoint => i = j
    /\ catalogs \in Seq(Catalogs)
    /\ \A i, j \in DOMAIN catalogs : i # j =>
         <<catalogs[i].server, catalogs[i].endpoint>> # <<catalogs[j].server, catalogs[j].endpoint>>
    /\ now \in 1 .. MaxTime
    /\ arrived \in 0 .. MaxFrames
    /\ Len(greeter) <= 1
    /\ suppliers \subseteq Senders

Init ==
    /\ endpoints = <<>> /\ catalogs = <<>>
    /\ now = 1
    /\ arrived = 0 /\ greeter = <<>> /\ suppliers = {}

----------------------------------------------------------------------------
(* Frames.                                                                 *)

\* _first_non_empty
FirstNonEmpty(ids) == ids[SelectInSeq(ids, LAMBDA x : x # Absent)]

\* _payload_server_id, _payload_endpoint_id
SessionScope(x) == <<FirstNonEmpty(<<x.server, x.source>>), FirstNonEmpty(<<x.endpoint, x.source>>)>>

\* mutant: without an endpoint_id a catalog belongs to the server as a whole
ServerCatalogScope(x) ==
    LET server == FirstNonEmpty(<<x.server, x.source>>)
    IN  <<server, FirstNonEmpty(<<x.endpoint, server>>)>>

\* _route_registry_catalog: the source is never blank, so that what follows it in
\* the code (default_server_id, server_id) is never reached
CatalogScope(x) == <<FirstNonEmpty(<<x.server, x.source>>), FirstNonEmpty(<<x.endpoint, x.source>>)>>

\* mutant: the first registration of an endpoint stands
EndpointKept(r) ==
    IF \E i \in DOMAIN endpoints : endpoints[i].endpoint = r.endpoint
    THEN endpoints ELSE Append(endpoints, r)

\* mutant: an endpoint is registered beside its earlier self
EndpointTwice(r) == Append(endpoints, r)

\* register_endpoint: the key is the endpoint id alone
WithEndpoint(r) ==
    LET i == SelectInSeq(endpoints, LAMBDA x : x.endpoint = r.endpoint)
    IN  IF i = 0 THEN Append(endpoints, r) ELSE ReplaceAt(endpoints, i, r)

\* store_catalog: the key is the scope; the revision is not looked at
WithCatalog(c) ==
    LET i == SelectInSeq(catalogs, LAMBDA x : x.server = c.server /\ x.endpoint = c.endpoint)
    IN  IF i = 0 THEN Append(catalogs, c) ELSE ReplaceAt(catalogs, i, c)

Arrives == arrived < MaxFrames /\ arrived' = arrived + 1

\* bridge.session.ready
SessionReady(x, flag) ==
    /\ Arrives
    /\ endpoints' = WithEndpoint([server |-> SessionScope(x)[1], endpoint |-> SessionScope(x)[2],
                                  flag |-> flag])
    /\ greeter' = <<[sender |-> x, flag |-> flag]>>
    /\ UNCHANGED <<catalogs, now, suppliers>>

\* maid.api.registry.*
RegistryCatalog(x, revision, registry) ==
    /\ Arrives
    /\ catalogs' = WithCatalog([server |-> CatalogScope(x)[1], endpoint |-> CatalogScope(x)[2],
                                at |-> now, revision |-> revision, registry |-> registry,
                                arrival |-> arrived'])
    /\ suppliers' = suppliers \cup {x}
    /\ UNCHANGED <<endpoints, now, greeter>>

Tick ==
    /\ now < MaxTime
    /\ now' = now + 1
    /\ UNCHANGED <<endpoints, catalogs, arrived, greeter, suppliers>>

Next ==
    \/ \E x \in Senders, flag \in Flags : SessionReady(x, flag)
    \/ \E x \in Senders, v \in Revisions, r \in Registries : RegistryCatalog(x, v, r)
    \/ Tick

Spec == Init /\ [][Next]_vars

----------------------------------------------------------------------------
(* Reading.                                                                *)

\* _record_for: what a scope without a catalog gives
Nothing(s, e) == [server |-> s, endpoint |-> e, at |-> 0, revision |-> 0, registry |-> 0, arrival |-> 0]

\* get_catalog, list_items, and the record that get_item and search_items look into
CatalogAt(s, e) ==
    LET i == SelectInSeq(catalogs, LAMBDA c : c.server = s /\ c.endpoint = e)
    IN  IF i = 0 THEN Nothing(s, e) ELSE catalogs[i]

\* mutant: the revision comes before the time
OlderByRevision(c, d) == c.revision < d.revision \/ (c.revision = d.revision /\ c.at < d.at)

\* _catalog_order_key, _catalog_order: tuples are compared from the left
Older(c, d) ==
    \/ c.at < d.at
    \/ c.at = d.at /\ c.revision < d.revision
    \/ c.at = d.at /\ c.revision = d.revision /\ c.registry < d.registry

ScopeOf(r) == <<r.server, r.endpoint>>

\* max(): the places of the greatest of some catalogs
Newest(places) == {i \in places : \A j \in places : ~Older(catalogs[i], catalogs[j])}

\* _matching_records_optional
Matching(s, e) == {i \in DOMAIN catalogs :
    s \in {Absent, catalogs[i].server} /\ e \in {Absent, catalogs[i].endpoint}}

\* latest_catalog_scope: of the greatest the first in the dict
LatestScope(s, e) ==
    IF Matching(s, e) # {}
    THEN ScopeOf(catalogs[Min(Newest(Matching(s, e)))])
    ELSE <<FirstNonEmpty(<<s, DefaultId>>), FirstNonEmpty(<<e, DefaultId>>)>>

\* the catalogs of the registered endpoints, and the ids of the greatest of them
Candidates == {i \in DOMAIN catalogs :
    catalogs[i].at > 0 /\ \E k \in DOMAIN endpoints : ScopeOf(endpoints[k]) = ScopeOf(catalogs[i])}
NewestIds == {catalogs[i].endpoint : i \in Newest(Candidates)}

\* sorted(endpoints): of some endpoints the one with the least id is seen first
FirstScope(ids) == ScopeOf(endpoints[CHOOSE k \in DOMAIN endpoints : endpoints[k].endpoint = Min(ids)])

\* mutant: endpoints without a catalog are passed over
RegisteredOrAnyScope ==
    IF Candidates # {} THEN FirstScope(NewestIds) ELSE LatestScope(Absent, Absent)

\* _registered_registry_scope, where an endpoint is registered
RegisteredScope ==
    FirstScope(IF Candidates # {} THEN NewestIds
               ELSE {endpoints[k].endpoint : k \in DOMAIN endpoints})

\* _resolve_registry_scope
Resolve(s, e) ==
    IF s # Absent \/ e # Absent \/ endpoints = <<>> THEN LatestScope(s, e) ELSE RegisteredScope

Read(s, e) == CatalogAt(Resolve(s, e)[1], Resolve(s, e)[2])

\* capabilities come before features
Word(flag) == IF flag.capability # "unsaid" THEN flag.capability ELSE flag.feature

\* external_emoji_enabled: the first registered endpoint with a word on it decides
EmojiEnabled ==
    LET i == SelectInSeq(endpoints, LAMBDA r : Word(r.flag) # "unsaid")
    IN  i # 0 /\ Word(endpoints[i].flag) = "yes"

----------------------------------------------------------------------------
(* Properties.                                                             *)

Registered(c) == \E i \in DOMAIN endpoints : ScopeOf(endpoints[i]) = ScopeOf(c)

\* A call without a scope reads the newest catalog: of those it could have read,
\* none arrived after the one it gets, unless in the same millisecond.
DefaultReadIsNewest == \A i \in DOMAIN catalogs :
    (endpoints = <<>> \/ Registered(catalogs[i]))
        => \/ catalogs[i].arrival <= Read(Absent, Absent).arrival
           \/ catalogs[i].at = Read(Absent, Absent).at

\* Once a server has registered, a call without a scope stays with registered
\* endpoints: a catalog left behind by a server whose endpoint id another server
\* has taken over is not served.
DefaultReadIsRegistered == endpoints # <<>> => Registered(Read(Absent, Absent))

\* The peer that registered last is not overlooked: if it has sent a catalog, before
\* or after, under whatever part of its identity, a call without a scope finds one.
GreeterIsReadable ==
    greeter # <<>> /\ greeter[1].sender \in suppliers => Read(Absent, Absent).at > 0

\* With one endpoint, emoji follow what it said last, over any number of sessions:
\* an earlier word of it is not believed any longer.
LastWordDecides ==
    Len(endpoints) = 1 => (EmojiEnabled <=> Word(greeter[1].flag) = "yes")
============================================================================
