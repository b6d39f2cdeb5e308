--------------------------- MODULE RegistryProofs ---------------------------
(***************************************************************************)
(* Theorems about Registry, for any peers, ids, frames and clock: what is  *)
(* kept of the frames, and what a call without a scope reads of it.        *)
(***************************************************************************)
EXTENDS Registry, Induction

----------------------------------------------------------------------------
(* Places in a sequence.                                                   *)

\* The least of some numbers is one of them.
LEMMA LeastExists ==
    ASSUME NEW T \in SUBSET Nat, T # {}
    PROVE  Min(T) \in T
  <1>1. \E n \in T : \A m \in T : n <= m
    BY LeastNat
  <1> QED
    BY <1>1 DEF Min

\* where a registered endpoint, or a stored catalog, has its place
EndpointPlace(r) == SelectInSeq(endpoints, LAMBDA x : x.endpoint = r.endpoint)
CatalogPlace(c) ==
    SelectInSeq(catalogs, LAMBDA x : x.server = c.server /\ x.endpoint = c.endpoint)

LEMMA EndpointFound ==
    ASSUME TypeOK, NEW r
    PROVE  \/ /\ EndpointPlace(r) = 0
              /\ \A i \in DOMAIN endpoints : endpoints[i].endpoint # r.endpoint
           \/ /\ EndpointPlace(r) \in DOMAIN endpoints
              /\ endpoints[EndpointPlace(r)].endpoint = r.endpoint
  <1> DEFINE I == {i \in 1..Len(endpoints) : endpoints[i].endpoint = r.endpoint}
  <1>1. endpoints \in Seq(Endpoints)
    BY DEF TypeOK
  <1>2. DOMAIN endpoints = 1..Len(endpoints) /\ Len(endpoints) \in Nat /\ I \in SUBSET Nat
    BY <1>1
  <1>3. EndpointPlace(r) = IF I # {} THEN Min(I) ELSE 0
    BY DEF EndpointPlace, SelectInSeq
  <1>4. CASE I = {}
    BY <1>2, <1>3, <1>4
  <1>5. CASE I # {}
    <2>1. Min(I) \in I
      <3> HIDE DEF I
      <3> QED
        BY <1>2, <1>5, LeastExists
    <2> QED
      BY <1>2, <1>3, <1>5, <2>1
  <1> QED
    BY <1>4, <1>5

LEMMA CatalogFound ==
    ASSUME TypeOK, NEW c
    PROVE  \/ /\ CatalogPlace(c) = 0
              /\ \A i \in DOMAIN catalogs :
                   ~ (catalogs[i].server = c.server /\ catalogs[i].endpoint = c.endpoint)
           \/ /\ CatalogPlace(c) \in DOMAIN catalogs
              /\ catalogs[CatalogPlace(c)].server = c.server
              /\ catalogs[CatalogPlace(c)].endpoint = c.endpoint
  <1> DEFINE I == {i \in 1..Len(catalogs) :
                     catalogs[i].server = c.server /\ catalogs[i].endpoint = c.endpoint}
  <1>1. catalogs \in Seq(Catalogs)
    BY DEF TypeOK
  <1>2. DOMAIN catalogs = 1..Len(catalogs) /\ Len(catalogs) \in Nat /\ I \in SUBSET Nat
    BY <1>1
  <1>3. CatalogPlace(c) = IF I # {} THEN Min(I) ELSE 0
    BY DEF CatalogPlace, SelectInSeq
  <1>4. CASE I = {}
    BY <1>2, <1>3, <1>4
  <1>5. CASE I # {}
    <2>1. Min(I) \in I
      <3> HIDE DEF I
      <3> QED
        BY <1>2, <1>5, LeastExists
    <2> QED
      BY <1>2, <1>3, <1>5, <2>1
  <1> QED
    BY <1>4, <1>5

\* A frame's source stands in for a blank id.
LEMMA SourceStandsIn ==
    ASSUME NEW id \in Names \cup {Absent}, NEW source \in Names
    PROVE  FirstNonEmpty(<<id, source>>) \in Names
  <1> DEFINE ids == <<id, source>>
             I == {i \in 1..Len(ids) : ids[i] # Absent}
  <1>1. I \in SUBSET Nat /\ 2 \in I
    BY RegistryAssumption
  <1>2. Min(I) \in I
    <2> HIDE DEF I
    <2> QED
      BY <1>1, LeastExists
  <1>3. SelectInSeq(ids, LAMBDA x : x # Absent) = Min(I)
    BY <1>1 DEF SelectInSeq
  <1> QED
    BY <1>2, <1>3, RegistryAssumption DEF FirstNonEmpty

LEMMA ScopesAreNames ==
    ASSUME NEW x \in Senders
    PROVE  /\ SessionScope(x)[1] \in Names /\ SessionScope(x)[2] \in Names
           /\ CatalogScope(x)[1] \in Names /\ CatalogScope(x)[2] \in Names
  <1>1. x.server \in Names \cup {Absent} /\ x.endpoint \in Names \cup {Absent}
        /\ x.source \in Names
    BY RegistryAssumption
  <1> QED
    BY <1>1, SourceStandsIn DEF SessionScope, CatalogScope

----------------------------------------------------------------------------
(* Types.                                                                  *)

\* Registering an endpoint replaces its entry, or appends one.
LEMMA Registers ==
    ASSUME TypeOK, NEW r \in Endpoints
    PROVE  \/ /\ \A i \in DOMAIN endpoints : endpoints[i].endpoint # r.endpoint
              /\ WithEndpoint(r) = Append(endpoints, r)
           \/ \E i \in DOMAIN endpoints :
                /\ endpoints[i].endpoint = r.endpoint
                /\ WithEndpoint(r) = [endpoints EXCEPT ![i] = r]
  <1>1. WithEndpoint(r) = IF EndpointPlace(r) = 0 THEN Append(endpoints, r)
                          ELSE [endpoints EXCEPT ![EndpointPlace(r)] = r]
    BY DEF WithEndpoint, EndpointPlace, ReplaceAt
  <1>2. \A i \in DOMAIN endpoints : i # 0
    BY DEF TypeOK
  <1> QED
    BY <1>1, <1>2, EndpointFound

LEMMA Stores ==
    ASSUME TypeOK, NEW c \in Catalogs
    PROVE  \/ /\ \A i \in DOMAIN catalogs :
                   ~ (catalogs[i].server = c.server /\ catalogs[i].endpoint = c.endpoint)
              /\ WithCatalog(c) = Append(catalogs, c)
           \/ \E i \in DOMAIN catalogs :
                /\ catalogs[i].server = c.server /\ catalogs[i].endpoint = c.endpoint
                /\ WithCatalog(c) = [catalogs EXCEPT ![i] = c]
  <1>1. WithCatalog(c) = IF CatalogPlace(c) = 0 THEN Append(catalogs, c)
                         ELSE [catalogs EXCEPT ![CatalogPlace(c)] = c]
    BY DEF WithCatalog, CatalogPlace, ReplaceAt
  <1>2. \A i \in DOMAIN catalogs : i # 0
    BY DEF TypeOK
  <1> QED
    BY <1>1, <1>2, CatalogFound

\* Replacing or appending keeps a sequence a sequence.
LEMMA SequencesGrow ==
    ASSUME NEW S, NEW q \in Seq(S), NEW e \in S
    PROVE  /\ Append(q, e) \in Seq(S)
           /\ DOMAIN Append(q, e) = DOMAIN q \cup {Len(q) + 1}
           /\ \A i \in DOMAIN q : Append(q, e)[i] = q[i]
           /\ Append(q, e)[Len(q) + 1] = e
           /\ \A i \in DOMAIN q : [q EXCEPT ![i] = e] \in Seq(S)
  OBVIOUS

LEMMA TypeStep == TypeOK /\ [Next]_vars => TypeOK'
  <1> SUFFICES ASSUME TypeOK, [Next]_vars PROVE TypeOK'
    OBVIOUS
  <1>1. ASSUME NEW x \in Senders, NEW flag \in Flags, SessionReady(x, flag) PROVE TypeOK'
    <2> DEFINE r == [server |-> SessionScope(x)[1], endpoint |-> SessionScope(x)[2],
                     flag |-> flag]
    <2>1. r \in Endpoints
      BY ScopesAreNames DEF Endpoints
    <2>2. endpoints' = WithEndpoint(r)
      BY <1>1 DEF SessionReady
    <2> HIDE DEF r
    <2>3. endpoints \in Seq(Endpoints)
      BY DEF TypeOK
    <2>4. endpoints' \in Seq(Endpoints)
      <3>1. Append(endpoints, r) \in Seq(Endpoints)
            /\ \A i \in DOMAIN endpoints : [endpoints EXCEPT ![i] = r] \in Seq(Endpoints)
        BY <2>1, <2>3, SequencesGrow
      <3> QED
        BY <2>1, <2>2, <3>1, Registers
    <2>5. \A i, j \in DOMAIN endpoints' : endpoints'[i].endpoint = endpoints'[j].endpoint => i = j
      <3>1. CASE /\ \A i \in DOMAIN endpoints : endpoints[i].endpoint # r.endpoint
                 /\ endpoints' = Append(endpoints, r)
        BY <2>1, <2>3, <3>1, SequencesGrow DEF TypeOK
      <3>2. CASE \E i \in DOMAIN endpoints :
                   /\ endpoints[i].endpoint = r.endpoint
                   /\ endpoints' = [endpoints EXCEPT ![i] = r]
        BY <3>2 DEF TypeOK
      <3> QED
        BY <2>1, <2>2, <3>1, <3>2, Registers
    <2>6. Len(greeter') <= 1 /\ arrived' \in 0..MaxFrames
      BY <1>1, RegistryAssumption DEF SessionReady, Arrives, TypeOK
    <2> QED
      BY <1>1, <2>4, <2>5, <2>6 DEF SessionReady, TypeOK
  <1>2. ASSUME NEW x \in Senders, NEW v \in Revisions, NEW n \in Registries,
               RegistryCatalog(x, v, n)
        PROVE  TypeOK'
    <2> DEFINE c == [server |-> CatalogScope(x)[1], endpoint |-> CatalogScope(x)[2],
                     at |-> now, revision |-> v, registry |-> n, arrival |-> arrived']
    <2>1. arrived' \in 0..MaxFrames /\ arrived' \in Nat
      BY <1>2, RegistryAssumption DEF RegistryCatalog, Arrives, TypeOK
    <2>2. c \in Catalogs
      <3>1. now \in Nat
        BY RegistryAssumption DEF TypeOK
      <3> QED
        BY <2>1, <3>1, ScopesAreNames DEF Catalogs
    <2>3. catalogs' = WithCatalog(c)
      BY <1>2 DEF RegistryCatalog
    <2> HIDE DEF c
    <2>4. catalogs \in Seq(Catalogs)
      BY DEF TypeOK
    <2>5. catalogs' \in Seq(Catalogs)
      <3>1. Append(catalogs, c) \in Seq(Catalogs)
            /\ \A i \in DOMAIN catalogs : [catalogs EXCEPT ![i] = c] \in Seq(Catalogs)
        BY <2>2, <2>4, SequencesGrow
      <3> QED
        BY <2>2, <2>3, <3>1, Stores
    <2>6. \A i, j \in DOMAIN catalogs' :
            catalogs'[i].server = catalogs'[j].server
              /\ catalogs'[i].endpoint = catalogs'[j].endpoint => i = j
      <3>0. \A i, j \in DOMAIN catalogs :
              catalogs[i].server = catalogs[j].server
                /\ catalogs[i].endpoint = catalogs[j].endpoint => i = j
        BY DEF TypeOK
      <3>1. CASE /\ \A i \in DOMAIN catalogs :
                      ~ (catalogs[i].server = c.server /\ catalogs[i].endpoint = c.endpoint)
                 /\ catalogs' = Append(catalogs, c)
        BY <2>2, <2>4, <3>0, <3>1, SequencesGrow
      <3>2. CASE \E i \in DOMAIN catalogs :
                   /\ catalogs[i].server = c.server /\ catalogs[i].endpoint = c.endpoint
                   /\ catalogs' = [catalogs EXCEPT ![i] = c]
        BY <3>0, <3>2
      <3> QED
        BY <2>2, <2>3, <3>1, <3>2, Stores
    <2>7. suppliers' \subseteq Senders
      BY <1>2 DEF RegistryCatalog, TypeOK
    <2> QED
      BY <1>2, <2>1, <2>5, <2>6, <2>7 DEF RegistryCatalog, TypeOK
  <1>3. CASE Tick
    BY <1>3, RegistryAssumption DEF Tick, TypeOK
  <1>4. CASE UNCHANGED vars
    BY <1>4 DEF vars, TypeOK
  <1> QED
    BY <1>1, <1>2, <1>3, <1>4 DEF Next

\* Every reachable state has its type: an endpoint id is registered once and a scope
\* has one catalog (register_endpoint, store_catalog), whoever shares ids with whom.
THEOREM TypeCorrect == Spec => []TypeOK
  <1>1. Init => TypeOK
    BY RegistryAssumption DEF Init, TypeOK
  <1> QED
    BY <1>1, TypeStep, PTL DEF Spec

----------------------------------------------------------------------------
(* The last word.                                                          *)

\* An only endpoint is the last to have registered, and its flags are those it said
\* then.
LastInv ==
    /\ endpoints # <<>> => Len(greeter) = 1
    /\ Len(endpoints) = 1 => endpoints[1].flag = greeter[1].flag

LEMMA LastStep ==
    ASSUME TypeOK, LastInv, [Next]_vars
    PROVE  LastInv'
  <1>1. ASSUME NEW x \in Senders, NEW flag \in Flags, SessionReady(x, flag) PROVE LastInv'
    <2> DEFINE r == [server |-> SessionScope(x)[1], endpoint |-> SessionScope(x)[2],
                     flag |-> flag]
    <2>1. r \in Endpoints /\ r.flag = flag
      BY ScopesAreNames DEF Endpoints
    <2>2. endpoints' = WithEndpoint(r) /\ greeter' = <<[sender |-> x, flag |-> flag]>>
      BY <1>1 DEF SessionReady
    <2> HIDE DEF r
    <2>3. endpoints \in Seq(Endpoints) /\ Len(greeter') = 1 /\ greeter'[1].flag = flag
      BY <2>2 DEF TypeOK
    <2>4. CASE endpoints' = Append(endpoints, r)
      BY <2>1, <2>3, <2>4 DEF LastInv
    <2>5. CASE \E i \in DOMAIN endpoints : endpoints' = [endpoints EXCEPT ![i] = r]
      <3>1. PICK i \in DOMAIN endpoints : endpoints' = [endpoints EXCEPT ![i] = r]
        BY <2>5
      <3>2. Len(endpoints') = 1 => i = 1
        BY <2>1, <2>3, <3>1
      <3> QED
        BY <2>1, <2>3, <3>1, <3>2 DEF LastInv
    <2> QED
      BY <2>1, <2>2, <2>4, <2>5, Registers
  <1>2. CASE UNCHANGED <<endpoints, greeter>>
    BY <1>2 DEF LastInv
  <1> QED
    BY <1>1, <1>2 DEF Next, RegistryCatalog, Tick, vars

\* With one endpoint, emoji follow what it said last (register_endpoint replaces its
\* entry, external_emoji_enabled reads it).
THEOREM LastWordStands == Spec => []LastWordDecides
  <1>1. Init => LastInv
    BY DEF Init, LastInv
  <1>2. ASSUME TypeOK, LastInv PROVE LastWordDecides
    <2>1. SUFFICES ASSUME Len(endpoints) = 1
                   PROVE  EmojiEnabled <=> Word(greeter[1].flag) = "yes"
      BY DEF LastWordDecides
    <2> DEFINE I == {i \in 1..Len(endpoints) : Word(endpoints[i].flag) # "unsaid"}
    <2>2. SelectInSeq(endpoints, LAMBDA r : Word(r.flag) # "unsaid") =
            IF I # {} THEN Min(I) ELSE 0
      BY DEF SelectInSeq
    <2>3. I = IF Word(endpoints[1].flag) # "unsaid" THEN {1} ELSE {}
      BY <2>1
    <2>4. Min({1}) = 1
      BY LeastExists
    <2>5. EmojiEnabled <=> Word(endpoints[1].flag) = "yes"
      <3> HIDE DEF I
      <3> QED
        BY <2>2, <2>3, <2>4 DEF EmojiEnabled
    <2> QED
      BY <1>2, <2>1, <2>5 DEF LastInv
  <1> QED
    BY <1>1, <1>2, LastStep, TypeCorrect, PTL DEF Spec

----------------------------------------------------------------------------
(* What a call without a scope reads.                                      *)

\* Places count from one, ids, times, revisions and registry ids are numbers.
LEMMA Entries ==
    ASSUME TypeOK
    PROVE  /\ DOMAIN endpoints \subseteq Nat /\ DOMAIN catalogs \subseteq Nat
           /\ \A i \in DOMAIN endpoints : endpoints[i].endpoint \in Nat
           /\ \A i \in DOMAIN catalogs :
                /\ catalogs[i].endpoint \in Nat
                /\ catalogs[i].at \in Nat /\ catalogs[i].revision \in Nat
                /\ catalogs[i].registry \in Nat /\ catalogs[i].arrival \in Nat
  <1>1. endpoints \in Seq(Endpoints) /\ catalogs \in Seq(Catalogs)
    BY DEF TypeOK
  <1>2. /\ DOMAIN endpoints \subseteq Nat /\ DOMAIN catalogs \subseteq Nat
        /\ \A i \in DOMAIN endpoints : endpoints[i] \in Endpoints
        /\ \A i \in DOMAIN catalogs : catalogs[i] \in Catalogs
    BY <1>1
  <1>3. ASSUME NEW r \in Endpoints PROVE r.endpoint \in Nat
    BY RegistryAssumption DEF Endpoints
  <1>4. ASSUME NEW c \in Catalogs
        PROVE  /\ c.endpoint \in Nat /\ c.at \in Nat /\ c.revision \in Nat
               /\ c.registry \in Nat /\ c.arrival \in Nat
    BY RegistryAssumption DEF Catalogs
  <1> QED
    BY <1>2, <1>3, <1>4

\* Of some catalogs there is one that is not older than any.
LEMMA NewestExists ==
    ASSUME TypeOK, NEW P \in SUBSET DOMAIN catalogs, P # {}
    PROVE  Newest(P) # {}
  <1> DEFINE k == Len(catalogs)
  <1>1. catalogs \in Seq(Catalogs) /\ k \in Nat /\ P \in SUBSET (1..k)
    BY DEF TypeOK
  <1>2. \A i \in P : catalogs[i].at \in Nat /\ catalogs[i].revision \in Nat
                     /\ catalogs[i].registry \in Nat
    BY Entries
  <1> DEFINE at == [i \in P |-> catalogs[i].at]
             P2 == {i \in P : \A j \in P : catalogs[j].at <= catalogs[i].at}
             revision == [i \in P2 |-> catalogs[i].revision]
             P3 == {i \in P2 : \A j \in P2 : catalogs[j].revision <= catalogs[i].revision}
             registry == [i \in P3 |-> catalogs[i].registry]
  <1>3. P2 # {} /\ P2 \in SUBSET (1..k)
    <2>1. \A i \in P : at[i] \in Nat
      BY <1>2
    <2>2. \E i \in P : \A j \in P : at[j] <= at[i]
      <3> HIDE DEF at, k
      <3> QED
        BY <1>1, <2>1, GreatestExists
    <2> QED
      BY <1>1, <2>2
  <1>4. P3 # {} /\ P3 \in SUBSET (1..k)
    <2>1. \A i \in P2 : revision[i] \in Nat
      BY <1>2
    <2>2. \E i \in P2 : \A j \in P2 : revision[j] <= revision[i]
      <3> HIDE DEF revision, k, P2
      <3> QED
        BY <1>1, <1>3, <2>1, GreatestExists
    <2> QED
      BY <1>3, <2>2
  <1>5. PICK i \in P3 : \A j \in P3 : catalogs[j].registry <= catalogs[i].registry
    <2>1. \A i \in P3 : registry[i] \in Nat
      BY <1>2
    <2>2. \E i \in P3 : \A j \in P3 : registry[j] <= registry[i]
      <3> HIDE DEF registry, k, P3
      <3> QED
        BY <1>1, <1>4, <2>1, GreatestExists
    <2> QED
      BY <2>2
  <1>6. ASSUME NEW j \in P PROVE ~Older(catalogs[i], catalogs[j])
    <2>1. i \in P /\ i \in P2 /\ catalogs[j].at <= catalogs[i].at
      OBVIOUS
    <2>2. CASE catalogs[j].at < catalogs[i].at
      BY <1>2, <2>1, <2>2 DEF Older
    <2>3. CASE catalogs[j].at = catalogs[i].at
      <3>1. j \in P2
        BY <2>1, <2>3
      <3>2. catalogs[j].revision <= catalogs[i].revision
        BY <3>1
      <3>3. catalogs[j].revision = catalogs[i].revision => j \in P3
        BY <3>1
      <3>4. catalogs[j].revision = catalogs[i].revision
              => catalogs[j].registry <= catalogs[i].registry
        BY <1>5, <3>3
      <3> HIDE DEF P2, P3
      <3> QED
        BY <1>2, <2>1, <2>3, <3>2, <3>4 DEF Older
    <2> QED
      BY <1>2, <2>1, <2>2, <2>3
  <1> QED
    BY <1>6 DEF Newest

\* A stored catalog is what its scope gives.
LEMMA ReadsStored ==
    ASSUME TypeOK, NEW i \in DOMAIN catalogs
    PROVE  CatalogAt(ScopeOf(catalogs[i])[1], ScopeOf(catalogs[i])[2]) = catalogs[i]
  <1> DEFINE c == catalogs[i]
  <1>1. CatalogPlace(c) = i
    BY CatalogFound DEF TypeOK
  <1>2. i # 0
    BY DEF TypeOK
  <1>3. CatalogAt(c.server, c.endpoint) = IF CatalogPlace(c) = 0 THEN Nothing(c.server, c.endpoint)
                                          ELSE catalogs[CatalogPlace(c)]
    BY DEF CatalogAt, CatalogPlace
  <1> QED
    BY <1>1, <1>2, <1>3 DEF ScopeOf

\* A catalog is read under the scope that was asked for, if there is one or not.
LEMMA ReadsAskedFor ==
    ASSUME TypeOK, NEW s, NEW e
    PROVE  ScopeOf(CatalogAt(s, e)) = <<s, e>>
  <1> DEFINE c == [server |-> s, endpoint |-> e]
  <1>1. c.server = s /\ c.endpoint = e
    OBVIOUS
  <1>2. CatalogAt(s, e) = IF CatalogPlace(c) = 0 THEN Nothing(s, e) ELSE catalogs[CatalogPlace(c)]
    BY DEF CatalogAt, CatalogPlace
  <1> HIDE DEF c
  <1>3. CASE CatalogPlace(c) = 0
    BY <1>2, <1>3 DEF ScopeOf, Nothing
  <1>4. CASE CatalogPlace(c) # 0
    BY <1>1, <1>2, <1>4, CatalogFound DEF ScopeOf
  <1> QED
    BY <1>3, <1>4

\* Of registered endpoints the one with the least id is found.
LEMMA FirstFound ==
    ASSUME TypeOK, NEW ids \in SUBSET Nat, ids # {},
           \A id \in ids : \E k \in DOMAIN endpoints : endpoints[k].endpoint = id
    PROVE  \E k \in DOMAIN endpoints : /\ endpoints[k].endpoint \in ids
                                       /\ FirstScope(ids) = ScopeOf(endpoints[k])
  <1>1. Min(ids) \in ids
    BY LeastExists
  <1> QED
    BY <1>1 DEF FirstScope

\* With an endpoint registered, a call without a scope reads under the scope of one; if
\* one of them has a catalog, it reads a newest of theirs.
LEMMA ReadsRegistered ==
    ASSUME TypeOK, endpoints # <<>>
    PROVE  /\ Registered(Read(Absent, Absent))
           /\ Candidates # {} => \E m \in Newest(Candidates) : Read(Absent, Absent) = catalogs[m]
  <1>1. Resolve(Absent, Absent) = RegisteredScope
    BY DEF Resolve
  <1>2. endpoints \in Seq(Endpoints) /\ DOMAIN endpoints # {}
    BY DEF TypeOK
  <1> DEFINE all == {endpoints[k].endpoint : k \in DOMAIN endpoints}
  <1>3. CASE Candidates = {}
    <2>1. PICK k \in DOMAIN endpoints : FirstScope(all) = ScopeOf(endpoints[k])
      <3>1. all \in SUBSET Nat /\ all # {}
        BY <1>2, Entries
      <3>2. \A id \in all : \E k \in DOMAIN endpoints : endpoints[k].endpoint = id
        OBVIOUS
      <3> HIDE DEF all
      <3> QED
        BY <3>1, <3>2, FirstFound
    <2>2. Resolve(Absent, Absent) = ScopeOf(endpoints[k])
      BY <1>1, <1>3, <2>1 DEF RegisteredScope
    <2>3. Read(Absent, Absent) = CatalogAt(endpoints[k].server, endpoints[k].endpoint)
      BY <2>2 DEF Read, ScopeOf
    <2>4. ScopeOf(Read(Absent, Absent)) = ScopeOf(endpoints[k])
      BY <2>3, ReadsAskedFor DEF ScopeOf
    <2> QED
      BY <1>3, <2>4 DEF Registered
  <1>4. CASE Candidates # {}
    <2>1. Candidates \in SUBSET DOMAIN catalogs /\ Newest(Candidates) \in SUBSET Candidates
      BY DEF Candidates, Newest
    <2>2. NewestIds \in SUBSET Nat /\ NewestIds # {}
      BY <1>4, <2>1, NewestExists, Entries DEF NewestIds
    <2>3. \A m \in Newest(Candidates) : \E k \in DOMAIN endpoints :
            ScopeOf(endpoints[k]) = ScopeOf(catalogs[m])
      BY <2>1 DEF Candidates
    <2>4. \A id \in NewestIds : \E k \in DOMAIN endpoints : endpoints[k].endpoint = id
      BY <2>3 DEF NewestIds, ScopeOf
    <2>5. PICK k \in DOMAIN endpoints : /\ endpoints[k].endpoint \in NewestIds
                                       /\ FirstScope(NewestIds) = ScopeOf(endpoints[k])
      BY <2>2, <2>4, FirstFound
    <2>6. PICK m \in Newest(Candidates) : catalogs[m].endpoint = endpoints[k].endpoint
      BY <2>5 DEF NewestIds
    <2>7. PICK l \in DOMAIN endpoints : ScopeOf(endpoints[l]) = ScopeOf(catalogs[m])
      BY <2>3
    <2>8. endpoints[l].endpoint = endpoints[k].endpoint
      BY <2>6, <2>7 DEF ScopeOf
    <2>9. l = k
      BY <2>8 DEF TypeOK
    <2>10. Resolve(Absent, Absent) = ScopeOf(catalogs[m])
      BY <1>1, <1>4, <2>5, <2>7, <2>9 DEF RegisteredScope
    <2>11. Read(Absent, Absent) = catalogs[m]
      BY <2>1, <2>10, ReadsStored DEF Read
    <2> QED
      BY <2>7, <2>11 DEF Registered
  <1> QED
    BY <1>3, <1>4

\* Nothing is stored from the future, and what was stored in an earlier millisecond had
\* arrived earlier.
TimeInv ==
    /\ \A i \in DOMAIN catalogs : catalogs[i].at \in 1..now /\ catalogs[i].arrival <= arrived
    /\ \A i, j \in DOMAIN catalogs :
         catalogs[i].at < catalogs[j].at => catalogs[i].arrival < catalogs[j].arrival

\* Who has sent a catalog has one stored under its scope, and who said
\* bridge.session.ready last is registered under its own.
PeersInv ==
    /\ \A x \in suppliers : \E i \in DOMAIN catalogs : ScopeOf(catalogs[i]) = CatalogScope(x)
    /\ greeter # <<>> =>
         /\ greeter[1].sender \in Senders
         /\ \E k \in DOMAIN endpoints : ScopeOf(endpoints[k]) = SessionScope(greeter[1].sender)

\* After a catalog is stored, each stored one is the new one or one of before, and each
\* one of before is still there or has been replaced under its scope by the new one.
LEMMA StoredAfter ==
    ASSUME TypeOK, NEW c \in Catalogs, catalogs' = WithCatalog(c)
    PROVE  /\ \A i \in DOMAIN catalogs' :
                catalogs'[i] = c \/ (i \in DOMAIN catalogs /\ catalogs'[i] = catalogs[i])
           /\ \A i \in DOMAIN catalogs : \E j \in DOMAIN catalogs' :
                ScopeOf(catalogs'[j]) = ScopeOf(catalogs[i])
           /\ \E j \in DOMAIN catalogs' : catalogs'[j] = c
  <1>1. catalogs \in Seq(Catalogs)
    BY DEF TypeOK
  <1>2. CASE catalogs' = Append(catalogs, c)
    <2>1. DOMAIN catalogs' = DOMAIN catalogs \cup {Len(catalogs) + 1}
          /\ (\A i \in DOMAIN catalogs : catalogs'[i] = catalogs[i])
          /\ catalogs'[Len(catalogs) + 1] = c
      BY <1>1, <1>2, SequencesGrow
    <2> QED
      BY <2>1
  <1>3. CASE \E i \in DOMAIN catalogs :
               /\ catalogs[i].server = c.server /\ catalogs[i].endpoint = c.endpoint
               /\ catalogs' = [catalogs EXCEPT ![i] = c]
    BY <1>1, <1>3 DEF ScopeOf
  <1> QED
    BY <1>2, <1>3, Stores

LEMMA PastStep ==
    ASSUME TypeOK, TimeInv, PeersInv, [Next]_vars
    PROVE  TimeInv' /\ PeersInv'
  <1>0. now \in Nat /\ now >= 1 /\ arrived \in Nat
    BY RegistryAssumption DEF TypeOK
  <1>1. ASSUME NEW x \in Senders, NEW flag \in Flags, SessionReady(x, flag)
        PROVE  TimeInv' /\ PeersInv'
    <2> DEFINE r == [server |-> SessionScope(x)[1], endpoint |-> SessionScope(x)[2],
                     flag |-> flag]
    <2>1. r \in Endpoints /\ ScopeOf(r) = SessionScope(x)
      BY ScopesAreNames DEF Endpoints, ScopeOf, SessionScope
    <2>2. /\ endpoints' = WithEndpoint(r) /\ greeter' = <<[sender |-> x, flag |-> flag]>>
          /\ UNCHANGED <<catalogs, now, suppliers>> /\ arrived' = arrived + 1
      BY <1>1 DEF SessionReady, Arrives
    <2> HIDE DEF r
    <2>3. endpoints \in Seq(Endpoints)
      BY DEF TypeOK
    <2>4. \E k \in DOMAIN endpoints' : endpoints'[k] = r
      <3>1. CASE endpoints' = Append(endpoints, r)
        BY <2>1, <2>3, <3>1, SequencesGrow
      <3>2. CASE \E i \in DOMAIN endpoints : endpoints' = [endpoints EXCEPT ![i] = r]
        BY <2>3, <3>2
      <3> QED
        BY <2>1, <2>2, <3>1, <3>2, Registers
    <2>5. TimeInv'
      <3>1. \A i \in DOMAIN catalogs : catalogs[i].arrival \in Nat
        BY Entries
      <3> QED
        BY <1>0, <2>2, <3>1 DEF TimeInv
    <2>6. PeersInv'
      BY <2>1, <2>2, <2>4 DEF PeersInv, CatalogScope, SessionScope, ScopeOf
    <2> QED
      BY <2>5, <2>6
  <1>2. ASSUME NEW x \in Senders, NEW v \in Revisions, NEW n \in Registries,
               RegistryCatalog(x, v, n)
        PROVE  TimeInv' /\ PeersInv'
    <2> DEFINE c == [server |-> CatalogScope(x)[1], endpoint |-> CatalogScope(x)[2],
                     at |-> now, revision |-> v, registry |-> n, arrival |-> arrived']
    <2>1. /\ catalogs' = WithCatalog(c) /\ suppliers' = suppliers \cup {x}
          /\ UNCHANGED <<endpoints, now, greeter>> /\ arrived' = arrived + 1
      BY <1>2 DEF RegistryCatalog, Arrives
    <2>2. c \in Catalogs /\ ScopeOf(c) = CatalogScope(x) /\ c.at = now /\ c.arrival = arrived + 1
      BY <1>0, <2>1, ScopesAreNames DEF Catalogs, ScopeOf, CatalogScope
    <2> HIDE DEF c
    <2>3. /\ \A i \in DOMAIN catalogs' :
               catalogs'[i] = c \/ (i \in DOMAIN catalogs /\ catalogs'[i] = catalogs[i])
          /\ \A i \in DOMAIN catalogs : \E j \in DOMAIN catalogs' :
               ScopeOf(catalogs'[j]) = ScopeOf(catalogs[i])
          /\ \E j \in DOMAIN catalogs' : catalogs'[j] = c
      BY <2>1, <2>2, StoredAfter
    <2>4. \A i \in DOMAIN catalogs : catalogs[i].arrival \in Nat /\ catalogs[i].at \in Nat
      BY Entries
    <2>5. TimeInv'
      BY <1>0, <2>1, <2>2, <2>3, <2>4 DEF TimeInv
    <2>6. \A y \in suppliers' : \E i \in DOMAIN catalogs' : ScopeOf(catalogs'[i]) = CatalogScope(y)
      <3>1. ASSUME NEW y \in suppliers
            PROVE  \E i \in DOMAIN catalogs' : ScopeOf(catalogs'[i]) = CatalogScope(y)
        <4>1. PICK i \in DOMAIN catalogs : ScopeOf(catalogs[i]) = CatalogScope(y)
          BY DEF PeersInv
        <4> QED
          BY <2>3, <4>1
      <3>2. \E i \in DOMAIN catalogs' : ScopeOf(catalogs'[i]) = CatalogScope(x)
        BY <2>2, <2>3
      <3> QED
        BY <2>1, <3>1, <3>2
    <2>7. PeersInv'
      BY <2>1, <2>6 DEF PeersInv, SessionScope, CatalogScope, ScopeOf
    <2> QED
      BY <2>5, <2>7
  <1>3. CASE Tick
    <2>1. TimeInv'
      BY <1>0, <1>3 DEF Tick, TimeInv
    <2>2. PeersInv'
      BY <1>3 DEF Tick, PeersInv, CatalogScope, SessionScope, ScopeOf
    <2> QED
      BY <2>1, <2>2
  <1>4. CASE UNCHANGED vars
    BY <1>4 DEF vars, TimeInv, PeersInv, CatalogScope, SessionScope, ScopeOf
  <1> QED
    BY <1>1, <1>2, <1>3, <1>4 DEF Next

LEMMA PastKept == Spec => [](TypeOK /\ TimeInv /\ PeersInv)
  <1>1. Init => TimeInv /\ PeersInv
    BY DEF Init, TimeInv, PeersInv
  <1> QED
    BY <1>1, PastStep, TypeCorrect, PTL DEF Spec

\* A call without a scope reads no catalog that arrived before another it could have
\* read, but for those of one millisecond: with no endpoint registered among all
\* (latest_catalog_scope), else among those of the registered endpoints
\* (_registered_registry_scope), whatever their revisions and registry ids.
THEOREM ReadsNewest == Spec => []DefaultReadIsNewest
  <1>1. ASSUME TypeOK, TimeInv PROVE DefaultReadIsNewest
    <2> SUFFICES ASSUME NEW i \in DOMAIN catalogs, endpoints = <<>> \/ Registered(catalogs[i])
                 PROVE  \/ catalogs[i].arrival <= Read(Absent, Absent).arrival
                        \/ catalogs[i].at = Read(Absent, Absent).at
      BY DEF DefaultReadIsNewest
    <2>1. \A j \in DOMAIN catalogs : /\ catalogs[j].at \in Nat /\ catalogs[j].arrival \in Nat
                                     /\ catalogs[j].at > 0
      BY <1>1, Entries DEF TimeInv
    <2>2. \E m \in DOMAIN catalogs :
            Read(Absent, Absent) = catalogs[m] /\ ~Older(catalogs[m], catalogs[i])
      <3>1. CASE endpoints = <<>>
        <4>1. Matching(Absent, Absent) = DOMAIN catalogs
          BY DEF Matching
        <4> DEFINE m == Min(Newest(DOMAIN catalogs))
        <4>2. Newest(DOMAIN catalogs) \in SUBSET Nat /\ Newest(DOMAIN catalogs) # {}
          BY <1>1, Entries, NewestExists DEF Newest
        <4>3. m \in Newest(DOMAIN catalogs)
          BY <4>2, LeastExists
        <4>4. Resolve(Absent, Absent) = ScopeOf(catalogs[m])
          BY <3>1, <4>1 DEF Resolve, LatestScope
        <4>5. m \in DOMAIN catalogs /\ ~Older(catalogs[m], catalogs[i])
          BY <4>3 DEF Newest
        <4>6. Read(Absent, Absent) = catalogs[m]
          BY <1>1, <4>4, <4>5, ReadsStored DEF Read
        <4> QED
          BY <4>5, <4>6
      <3>2. CASE endpoints # <<>>
        <4>1. i \in Candidates
          BY <2>1, <3>2 DEF Candidates, Registered
        <4>2. PICK m \in Newest(Candidates) : Read(Absent, Absent) = catalogs[m]
          BY <1>1, <3>2, <4>1, ReadsRegistered
        <4> QED
          BY <4>1, <4>2 DEF Newest, Candidates
      <3> QED
        BY <3>1, <3>2
    <2> QED
      BY <1>1, <2>1, <2>2 DEF Older, TimeInv
  <1> QED
    BY <1>1, PastKept, PTL

\* Once an endpoint is registered, a call without a scope never serves a catalog of a
\* scope that is not (_resolve_registry_scope looks at the registered ones alone).
THEOREM ReadsOnlyRegistered == Spec => []DefaultReadIsRegistered
  <1>1. TypeOK => DefaultReadIsRegistered
    BY ReadsRegistered DEF DefaultReadIsRegistered
  <1> QED
    BY <1>1, TypeCorrect, PTL

\* The peer that registered last and has sent a catalog, in whichever order and with
\* whichever of its ids blank, leaves something to read (_record_session_ready and
\* _route_registry_catalog give it the same scope).
THEOREM GreeterRead == Spec => []GreeterIsReadable
  <1>1. ASSUME TypeOK, TimeInv, PeersInv PROVE GreeterIsReadable
    <2> SUFFICES ASSUME greeter # <<>>, greeter[1].sender \in suppliers
                 PROVE  Read(Absent, Absent).at > 0
      BY DEF GreeterIsReadable
    <2>1. PICK i \in DOMAIN catalogs : ScopeOf(catalogs[i]) = CatalogScope(greeter[1].sender)
      BY <1>1 DEF PeersInv
    <2>2. PICK k \in DOMAIN endpoints : ScopeOf(endpoints[k]) = SessionScope(greeter[1].sender)
      BY <1>1 DEF PeersInv
    <2>3. ScopeOf(endpoints[k]) = ScopeOf(catalogs[i])
      BY <2>1, <2>2 DEF SessionScope, CatalogScope
    <2>4. \A j \in DOMAIN catalogs : catalogs[j].at > 0
      BY <1>1 DEF TimeInv
    <2>5. i \in Candidates /\ endpoints # <<>>
      BY <2>3, <2>4 DEF Candidates
    <2>6. PICK m \in Newest(Candidates) : Read(Absent, Absent) = catalogs[m]
      BY <1>1, <2>5, ReadsRegistered
    <2> QED
      BY <2>4, <2>6 DEF Newest, Candidates
  <1> QED
    BY <1>1, PastKept, PTL
=============================================================================
