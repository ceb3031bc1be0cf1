-------------------------- MODULE APIServerProofs --------------------------
(***************************************************************************)
(* Theorems about APIServer, for every kind and for whatever clients of    *)
(* both versions send.                                                     *)
(***************************************************************************)
EXTENDS ConversionProofs

----------------------------------------------------------------------------
(* The life of an object. *)

\* What is stored is valid and has been given its defaults, and a client's
\* copy is what was once stored.
APIInv ==
    /\ kind \in Kinds
    /\ StoredIsValid
    /\ stored # Nil => stored \in Object(kind) /\ Default(kind, stored) = stored
    /\ copy # Nil => /\ copy.hub \in Object(kind)
                     /\ copy.obj = ConvertFrom(kind, copy.hub)
    /\ stored = Nil => req = Nil
    /\ WriteBackHarmless /\ EditSticks /\ StatusKept

\* Validation of an update is as strict as that of a new object, for an
\* object that was valid.
LEMMA UpdatesAreValid ==
    ASSUME NEW k \in Kinds, NEW old, NEW new, Admitted(k, old),
           ValidateUpdate(k, old, new)
    PROVE  Admitted(k, new)
<1>1. CASE k = "Metal3ClusterTemplate"
  BY <1>1 DEF Admitted, ValidateCreate, ValidateUpdate,
              ClusterTemplateValidateUpdate, ClusterTemplateValidateCreate
<1>2. CASE k = "Metal3Data"
  BY <1>2 DEF Admitted, ValidateUpdate, DataValidateUpdate
<1>3. CASE k = "Metal3DataClaim"
  BY <1>3 DEF Admitted, ValidateCreate, ValidateUpdate, ClaimValidateUpdate,
              ClaimValidateCreate
<1>4. CASE k = "Metal3DataTemplate"
  <2>1. new.meta = old.meta /\ new.net = old.net
    BY <1>4 DEF ValidateUpdate, DataTemplateValidateUpdate
  <2>2. DataTemplateValidateCreate(old)
    BY <1>4 DEF Admitted, ValidateCreate
  <2>3. DataTemplateValidateCreate(new)
    BY <2>1, <2>2 DEF DataTemplateValidateCreate
  <2>4. QED
    BY <1>4, <2>3 DEF Admitted, ValidateCreate
<1>5. CASE k \notin {"Metal3ClusterTemplate", "Metal3Data", "Metal3DataClaim",
                     "Metal3DataTemplate"}
  BY <1>5 DEF Admitted, ValidateUpdate
<1>6. QED
  BY <1>1, <1>2, <1>3, <1>4, <1>5

LEMMA CreatedAreValid ==
    ASSUME NEW k, NEW new, ValidateCreate(k, new)
    PROVE  Admitted(k, new)
<1>1. CASE k = "Metal3Data"
  <2>1. DataValidateCreate(new)
    BY <1>1 DEF ValidateCreate
  <2>2. OwnNamespace(NoRef.ns)
    BY DEF OwnNamespace, NoRef
  <2>3. QED
    BY <1>1, <2>1, <2>2 DEF Admitted, DataValidateCreate, Deref
<1>2. CASE k # "Metal3Data"
  BY <1>2 DEF Admitted
<1>3. QED
  BY <1>1, <1>2

LEMMA ValidMeansAdmitted == StoredIsValid <=> (stored # Nil => Admitted(kind, stored))
  BY DEF StoredIsValid, Admitted

\* What clients create and send.
LEMMA ClientsSendTypes ==
    ASSUME NEW k \in Kinds, NEW o
    PROVE  /\ o \in NewV2(k) \cup {ConvertTo(k, v1, Nil) : v1 \in NewV1(k)} =>
                 o \in Object(k)
           /\ o \in NewV1(k) => o \in ObjectV1(k)
<1>1. /\ o \in NewV2(k) => o \in Object(k)
      /\ \A v1 \in NewV1(k) : v1 \in ObjectV1(k)
  BY APIAssumption
<1>2. \A v1 \in NewV1(k) : ConvertTo(k, v1, Nil) \in Object(k)
  BY <1>1, KindsAreLawful DEF Lawful
<1>3. QED
  BY <1>1, <1>2

\* A step that stores what is admitted and remembers no request.
LEMMA QuietStep ==
    ASSUME APIInv, kind' = kind, req' = Nil, Admitted(kind, stored'),
           stored' \in Object(kind), Default(kind, stored') = stored',
           copy' # Nil /\ copy' # copy =>
               /\ copy'.hub = stored
               /\ copy'.obj = ConvertFrom(kind, stored) /\ stored # Nil
    PROVE  APIInv'
<1>1. StoredIsValid'
  BY DEF StoredIsValid, Admitted
<1>2. WriteBackHarmless' /\ EditSticks' /\ StatusKept'
  BY DEF WriteBackHarmless, EditSticks, StatusKept
<1>3. copy' # Nil => /\ copy'.hub \in Object(kind)
                     /\ copy'.obj = ConvertFrom(kind, copy'.hub)
  <2>1. CASE copy' = copy
    BY <2>1 DEF APIInv
  <2>2. CASE copy' # copy
    BY <2>2 DEF APIInv
  <2>3. QED
    BY <2>1, <2>2
<1>4. QED
  BY <1>1, <1>2, <1>3 DEF APIInv

LEMMA CreateKeeps == APIInv /\ Create => APIInv'
<1> SUFFICES ASSUME APIInv, Create PROVE APIInv'
  OBVIOUS
<1>1. /\ kind' = kind /\ copy' = copy /\ req' = Nil /\ kind \in Kinds
  BY DEF Create, APIInv
<1>2. PICK o \in NewV2(kind) \cup {ConvertTo(kind, v1, Nil) : v1 \in NewV1(kind)} :
        ValidateCreate(kind, Default(kind, o)) /\ stored' = Default(kind, o)
  BY DEF Create
<1>3. Admitted(kind, stored')
  BY <1>2, CreatedAreValid
<1>4. o \in Object(kind)
  BY <1>1, <1>2, ClientsSendTypes
<1>5. stored' \in Object(kind) /\ Default(kind, stored') = stored'
  BY <1>1, <1>2, <1>4, KindsAreLawful DEF Lawful
<1>6. QED
  BY <1>1, <1>3, <1>5, QuietStep

LEMMA UpdateV2Keeps == APIInv /\ UpdateV2 => APIInv'
<1> SUFFICES ASSUME APIInv, UpdateV2 PROVE APIInv'
  OBVIOUS
<1>1. /\ kind' = kind /\ copy' = copy /\ req' = Nil /\ stored # Nil
      /\ kind \in Kinds /\ Admitted(kind, stored) /\ stored \in Object(kind)
  BY ValidMeansAdmitted DEF UpdateV2, APIInv
<1>2. PICK o \in NewV2(kind) :
        LET new == Default(kind, IF kind \in HasStatus
                                 THEN [o EXCEPT !.status = stored.status]
                                 ELSE o)
        IN  ValidateUpdate(kind, stored, new) /\ stored' = new
  BY DEF UpdateV2
<1>3. Admitted(kind, stored')
  BY <1>1, <1>2, UpdatesAreValid
<1> DEFINE n == IF kind \in HasStatus THEN [o EXCEPT !.status = stored.status]
                ELSE o
<1>4. o \in Object(kind)
  BY <1>1, <1>2, ClientsSendTypes
<1>5. n \in Object(kind)
  <2>1. CASE kind \in HasStatus
    BY <1>1, <1>4, <2>1, KindsAreLawful DEF StatusLawful
  <2>2. CASE kind \notin HasStatus
    BY <1>4, <2>2
  <2>3. QED
    BY <2>1, <2>2
<1>6. stored' = Default(kind, n)
  BY <1>2
<1> HIDE DEF n
<1>7. stored' \in Object(kind) /\ Default(kind, stored') = stored'
  BY <1>1, <1>5, <1>6, KindsAreLawful DEF Lawful
<1>8. QED
  BY <1>1, <1>3, <1>7, QuietStep

LEMMA UpdateStatusKeeps == APIInv /\ UpdateStatus => APIInv'
<1> SUFFICES ASSUME APIInv, UpdateStatus PROVE APIInv'
  OBVIOUS
<1>1. /\ kind' = kind /\ copy' = copy /\ req' = Nil /\ stored # Nil
      /\ kind \in Kinds /\ Admitted(kind, stored) /\ kind \in HasStatus
      /\ stored \in Object(kind) /\ Default(kind, stored) = stored
  BY ValidMeansAdmitted DEF UpdateStatus, APIInv
<1>2. PICK s \in Statuses(kind) : stored' = [stored EXCEPT !.status = s]
  BY DEF UpdateStatus
<1>3. s \in StatusT(kind)
  BY <1>1, <1>2, APIAssumption
<1>4. LET n == [stored EXCEPT !.status = s] IN
      n \in Object(kind) /\ Admitted(kind, n) /\ Default(kind, n) = n
  BY <1>1, <1>3, KindsAreLawful DEF StatusLawful
<1>5. QED
  BY <1>1, <1>2, <1>4, QuietStep

LEMMA GetV1Keeps == APIInv /\ GetV1 => APIInv'
<1> SUFFICES ASSUME APIInv, GetV1 PROVE APIInv'
  OBVIOUS
<1>1. /\ kind' = kind /\ req' = Nil /\ stored' = stored /\ stored # Nil
      /\ copy'.hub = stored /\ copy'.obj = ConvertFrom(kind, stored)
  BY DEF GetV1
<1>2. Admitted(kind, stored)
  BY <1>1, ValidMeansAdmitted DEF APIInv
<1>3. stored \in Object(kind) /\ Default(kind, stored) = stored
  BY <1>1 DEF APIInv
<1>4. QED
  BY <1>1, <1>2, <1>3, QuietStep

LEMMA createSecretsKeeps == APIInv /\ createSecrets => APIInv'
<1> SUFFICES ASSUME APIInv, createSecrets PROVE APIInv'
  OBVIOUS
<1>1. /\ kind' = kind /\ req' = Nil /\ stored' = stored /\ copy' = copy
      /\ stored # Nil
  BY DEF createSecrets
<1>2. /\ Admitted(kind, stored) /\ stored \in Object(kind)
      /\ Default(kind, stored) = stored
  BY <1>1, ValidMeansAdmitted DEF APIInv
<1>3. QED
  BY <1>1, <1>2, QuietStep

LEMMA UpdateV1Keeps == APIInv /\ UpdateV1 => APIInv'
<1> SUFFICES ASSUME APIInv, UpdateV1 PROVE APIInv'
  OBVIOUS
<1>1. /\ kind' = kind /\ copy' = copy /\ stored # Nil /\ copy # Nil
      /\ kind \in Kinds /\ Admitted(kind, stored)
  BY ValidMeansAdmitted DEF UpdateV1, APIInv
<1>2. PICK o \in NewV1(kind) \cup {copy.obj} :
        LET sent == IF kind \in HasStatus
                    THEN [o EXCEPT !.status = ConvertFrom(kind, stored).status]
                    ELSE o
            new == Default(kind, ConvertTo(kind, sent, copy.hub))
        IN  /\ ValidateUpdate(kind, stored, new)
            /\ stored' = new
            /\ req' = [obj |-> sent, hub |-> copy.hub, old |-> stored]
  BY DEF UpdateV1
<1> DEFINE sent == IF kind \in HasStatus
                   THEN [o EXCEPT !.status = ConvertFrom(kind, stored).status]
                   ELSE o
           new == Default(kind, ConvertTo(kind, sent, copy.hub))
<1>3. /\ ValidateUpdate(kind, stored, new) /\ stored' = new
      /\ req'.obj = sent /\ req'.hub = copy.hub /\ req'.old = stored
  BY <1>2
<1>4. Admitted(kind, stored')
  BY <1>1, <1>3, UpdatesAreValid
<1>5. StoredIsValid'
  BY <1>1, <1>4 DEF StoredIsValid, Admitted
<1>6. /\ stored \in Object(kind) /\ Default(kind, stored) = stored
      /\ copy.hub \in Object(kind) /\ copy.obj = ConvertFrom(kind, copy.hub)
      /\ Lawful(kind) /\ Nil \notin Object(kind)
      /\ kind \in HasStatus => StatusLawful(kind)
  BY <1>1, KindsAreLawful, APIAssumption DEF APIInv
<1>7. o \in ObjectV1(kind)
  BY <1>1, <1>2, <1>6, ClientsSendTypes DEF Lawful
<1>8. ASSUME kind \in HasStatus
      PROVE  /\ sent \in ObjectV1(kind)
             /\ sent.status = ConvertFrom(kind, stored).status
  BY <1>6, <1>7, <1>8 DEF StatusLawful
<1>9. sent \in ObjectV1(kind)
  BY <1>7, <1>8
<1> HIDE DEF sent
<1>10. stored' \in Object(kind) /\ Default(kind, stored') = stored' /\ stored' # Nil
  BY <1>3, <1>6, <1>9 DEF Lawful
<1>11. EditSticks'
  <2>1. FitsInt32(kind, sent) =>
          V1Meaning(kind, ConvertFrom(kind, new))
              = V1Meaning(kind, WithoutLostChecksum(kind, sent, copy.hub))
    BY <1>6, <1>9 DEF Lawful
  <2> HIDE DEF new
  <2>2. QED
    BY <1>1, <1>3, <2>1 DEF EditSticks
<1>12. WriteBackHarmless'
  <2>1. ASSUME copy.hub = stored, sent = ConvertFrom(kind, stored)
        PROVE  SpecMeaning(kind, new) = SpecMeaning(kind, stored)
    <3>1. new = Default(kind, ConvertTo(kind, ConvertFrom(kind, stored), stored))
      BY <2>1
    <3> HIDE DEF new
    <3>2. QED
      BY <1>1, <1>3, <1>6, <3>1 DEF Lawful
  <2> HIDE DEF new
  <2>2. QED
    BY <1>1, <1>3, <2>1 DEF WriteBackHarmless
<1>13. StatusKept'
  <2>1. ASSUME kind \in HasStatus
        PROVE  StatusMeaning(kind, new.status)
                   = StatusMeaning(kind, stored.status)
    BY <1>6, <1>8, <1>9, <2>1 DEF StatusLawful
  <2> HIDE DEF new
  <2>2. QED
    BY <1>1, <1>3, <2>1 DEF StatusKept
<1>14. QED
  BY <1>1, <1>5, <1>6, <1>10, <1>11, <1>12, <1>13 DEF APIInv

LEMMA APIInvInductive ==
    /\ Init => APIInv
    /\ APIInv /\ [Next]_vars => APIInv'
<1>1. Init => APIInv
  BY DEF Init, APIInv, StoredIsValid, WriteBackHarmless, EditSticks, StatusKept
<1>2. ASSUME APIInv, UNCHANGED vars PROVE APIInv'
  BY <1>2 DEF vars, APIInv, StoredIsValid, WriteBackHarmless, EditSticks,
              StatusKept
<1>3. QED
  BY <1>1, <1>2, CreateKeeps, UpdateV2Keeps, GetV1Keeps, UpdateV1Keeps,
     UpdateStatusKeeps, createSecretsKeeps DEF Next

\* APIInv, for ever.
LEMMA APIInvHolds == Spec => []APIInv
  BY APIInvInductive, PTL DEF Spec

----------------------------------------------------------------------------
(* The secrets that are rendered from a Metal3DataTemplate. *)

\* What is rendered is a matter of metaData and networkData.
LEMMA RenderedFromData ==
    ASSUME NEW a, NEW b, a.meta = b.meta, a.net = b.net
    PROVE  Rendered(a) = Rendered(b)
<1>1. getReferencedPools(a, Ctx) = getReferencedPools(b, Ctx)
  BY Zenon DEF getReferencedPools
<1>2. ASSUME NEW pools
      PROVE  renderMetaData(a, Index, Ctx, pools) = renderMetaData(b, Index, Ctx, pools)
  BY SMT DEF renderMetaData
<1>3. ASSUME NEW pools
      PROVE  renderNetworkData(a, Ctx, pools) = renderNetworkData(b, Ctx, pools)
  BY Zenon DEF renderNetworkData
<1>4. \A names : Render(a, names) = Render(b, names)
  BY <1>2, <1>3 DEF Render
<1>5. QED
  BY <1>1, <1>4 DEF Rendered

SecretInv ==
    secret # Nil => kind = "Metal3DataTemplate" /\ secret = Rendered(stored)

\* An update that the webhook lets pass leaves metaData and networkData alone.
LEMMA SecretInductive ==
    /\ Init => SecretInv
    /\ APIInv /\ SecretInv /\ [Next]_vars => SecretInv'
<1>1. Init => SecretInv
  BY DEF Init, SecretInv
<1> SUFFICES ASSUME APIInv, SecretInv, [Next]_vars PROVE SecretInv'
  BY <1>1
<1> DEFINE k == "Metal3DataTemplate"
<1>2. ASSUME NEW new, ValidateUpdate(k, stored, new), stored' = new,
             kind' = kind, secret' = secret, kind = k
      PROVE  SecretInv'
  <2>1. new.meta = stored.meta /\ new.net = stored.net
    BY <1>2 DEF ValidateUpdate, DataTemplateValidateUpdate
  <2>2. Rendered(new) = Rendered(stored)
    BY <2>1, RenderedFromData
  <2>3. QED
    BY <1>2, <2>2 DEF SecretInv
<1>3. CASE secret' = secret /\ kind' = kind /\ (secret = Nil \/ stored' = stored)
  BY <1>3 DEF SecretInv
<1>4. CASE createSecrets
  BY <1>4 DEF createSecrets, SecretInv
<1>5. CASE UpdateV2 /\ kind = k
  BY <1>2, <1>5 DEF UpdateV2
<1>6. CASE UpdateV1 /\ kind = k
  BY <1>2, <1>6 DEF UpdateV1
<1>7. CASE UpdateStatus /\ kind = k
  <2>1. stored # Nil /\ kind' = kind /\ secret' = secret
    BY <1>7 DEF UpdateStatus
  <2>2. PICK x : stored' = [stored EXCEPT !.status = x]
    BY <1>7 DEF UpdateStatus
  <2>3. stored \in DataTemplateT
    <3>1. stored \in Object(k)
      BY <1>7, <2>1 DEF APIInv
    <3>2. QED
      BY <3>1 DEF Object
  <2>4. stored'.meta = stored.meta /\ stored'.net = stored.net
    BY <2>2, <2>3 DEF DataTemplateT
  <2>5. Rendered(stored') = Rendered(stored)
    <3>1. ASSUME NEW b, b.meta = stored.meta, b.net = stored.net
          PROVE  Rendered(b) = Rendered(stored)
      BY <3>1, RenderedFromData
    <3>2. QED
      BY <2>4, <3>1
  <2>6. QED
    BY <2>1, <2>5 DEF SecretInv
<1>8. ASSUME kind # k PROVE secret = Nil
  BY <1>8 DEF SecretInv
<1>9. /\ ~createSecrets /\ ~(UpdateV1 /\ kind = k) /\ ~(UpdateV2 /\ kind = k)
      /\ ~(UpdateStatus /\ kind = k)
      => secret' = secret /\ kind' = kind /\ (secret = Nil \/ stored' = stored)
  BY <1>8 DEF Next, vars, Create, UpdateV1, UpdateV2, GetV1, UpdateStatus
<1>10. QED
  BY <1>3, <1>4, <1>5, <1>6, <1>7, <1>9

----------------------------------------------------------------------------
(* The pools that are claimed are those that rendering looks up. *)

\* The addresses of the claims, and of every pool there is.
PoolsOf(names) == [p \in names |-> AllPools[p]]
All == PoolsOf(DOMAIN AllPools)

LEMMA Lookups ==
    ASSUME NEW names
    PROVE  /\ DOMAIN PoolsOf(names) = names
           /\ \A p \in names : PoolsOf(names)[p] = AllPools[p]
           /\ DOMAIN All = DOMAIN AllPools
           /\ \A p \in DOMAIN AllPools : All[p] = AllPools[p]
  BY DEF PoolsOf, All

\* References that are resolved, to pools with an address.
Covered(refs, names) == Err \notin refs /\ \A q \in refs : q.name \in names

LEMMA ServicesSuffice ==
    ASSUME NEW s, NEW names, Covered(ServiceRefs(s), names),
           renderNetworkServices(s, All) # Err
    PROVE  renderNetworkServices(s, PoolsOf(names)) = renderNetworkServices(s, All)
<1>1. CASE s = Nil \/ s.pool = ""
  BY <1>1 DEF renderNetworkServices
<1>2. CASE s # Nil /\ s.pool # ""
  <2>1. s.pool \in DOMAIN AllPools
    BY <1>2, Lookups DEF renderNetworkServices
  <2>2. PoolRef(s.pool, "") \in ServiceRefs(s)
    BY <1>2 DEF ServiceRefs, addName
  <2>3. PoolRef(s.pool, "").name = s.pool
    BY DEF PoolRef
  <2>4. s.pool \in names
    BY <2>2, <2>3 DEF Covered
  <2>5. PoolsOf(names)[s.pool] = All[s.pool]
    BY <2>1, <2>4, Lookups
  <2>6. QED
    BY <1>2, <2>1, <2>4, <2>5, Lookups DEF renderNetworkServices
<1>3. QED
  BY <1>1, <1>2

\* A reference or a name that is given is a pool that is claimed.
LEMMA NamesClaimed ==
    ASSUME NEW x, NEW names, Covered(RefOrName(x.ref, x.name), names),
           x.ann = NoAnn, PoolName(x, Ctx) # ""
    PROVE  PoolName(x, Ctx) \in names
<1>1. \A n, k : PoolRef(n, k).name = n
  BY DEF PoolRef
<1>2. CASE x.ref.name # ""
  <2>1. PoolName(x, Ctx) = x.ref.name
    BY <1>2 DEF PoolName
  <2>2. PoolRef(x.ref.name, x.ref.kind) \in RefOrName(x.ref, x.name)
    BY <1>2 DEF RefOrName
  <2>3. QED
    BY <1>1, <2>1, <2>2 DEF Covered
<1>3. CASE x.ref.name = ""
  <2>1. PoolName(x, Ctx) = x.name /\ x.name # ""
    BY <1>3 DEF PoolName
  <2>2. PoolRef(x.name, "") \in RefOrName(x.ref, x.name)
    BY <1>3, <2>1 DEF RefOrName, addName
  <2>3. QED
    BY <1>1, <2>1, <2>2 DEF Covered
<1>4. QED
  BY <1>2, <1>3

LEMMA AnnotationsClaimed ==
    ASSUME NEW x, NEW names, Covered(addFromAnnotation(x.ann, Ctx), names),
           x.ann # NoAnn
    PROVE  PoolName(x, Ctx) \in names
<1> DEFINE v == getValueFromAnnotation(x.ann, Ctx)
<1>1. PoolName(x, Ctx) = v
  BY DEF PoolName
<1>2. addFromAnnotation(x.ann, Ctx)
        = {IF v \in {Err, ""} THEN Err ELSE PoolRef(v, "")}
  BY DEF addFromAnnotation
<1> HIDE DEF v
<1>3. v \notin {Err, ""} /\ PoolRef(v, "") \in addFromAnnotation(x.ann, Ctx)
  BY <1>2 DEF Covered
<1>4. PoolRef(v, "").name = v
  BY DEF PoolRef
<1>5. QED
  BY <1>1, <1>3, <1>4 DEF Covered

\* The gateway of a route: its annotation is claimed, or not looked at.
LEMMA GatewaySuffices ==
    ASSUME NEW g, NEW names, Covered(RefOrName(g.ref, g.name), names),
           \/ Covered(addFromAnnotation(g.ann, Ctx), names)
           \/ g.ann = NoAnn \/ g.str # Nil,
           Gateway(g, Ctx, All) # Err
    PROVE  Gateway(g, Ctx, PoolsOf(names)) = Gateway(g, Ctx, All)
<1> DEFINE p == PoolName(g, Ctx)
<1>1. CASE g.str # Nil \/ (g.ann = NoAnn /\ p = "")
  BY <1>1 DEF Gateway
<1>2. CASE g.str = Nil /\ ~(g.ann = NoAnn /\ p = "")
  <2>1. p \in names
    BY <1>2, NamesClaimed, AnnotationsClaimed
  <2>2. /\ Gateway(g, Ctx, All) = IF p \in DOMAIN All THEN All[p].gateway ELSE Err
        /\ Gateway(g, Ctx, PoolsOf(names))
             = IF p \in DOMAIN PoolsOf(names) THEN PoolsOf(names)[p].gateway
               ELSE Err
    BY <1>2 DEF Gateway
  <2> HIDE DEF p
  <2>3. QED
    BY <2>1, <2>2, Lookups
<1>3. QED
  BY <1>1, <1>2

LEMMA RouteSuffices ==
    ASSUME NEW r, NEW ipv4, NEW names,
           Covered(RefOrName(r.gw.ref, r.gw.name), names),
           Covered(ServiceRefs(r.services), names),
           \/ Covered(addFromAnnotation(r.gw.ann, Ctx), names)
           \/ r.gw.ann = NoAnn \/ r.gw.str # Nil,
           getRoute(r, ipv4, Ctx, All) # Err
    PROVE  getRoute(r, ipv4, Ctx, PoolsOf(names)) = getRoute(r, ipv4, Ctx, All)
<1>1. Gateway(r.gw, Ctx, All) # Err /\ renderNetworkServices(r.services, All) # Err
  BY DEF getRoute
<1>2. Gateway(r.gw, Ctx, PoolsOf(names)) = Gateway(r.gw, Ctx, All)
  BY <1>1, GatewaySuffices
<1>3. renderNetworkServices(r.services, PoolsOf(names))
        = renderNetworkServices(r.services, All)
  BY <1>1, ServicesSuffice
<1>4. QED
  BY <1>2, <1>3 DEF getRoute

LEMMA CoveredParts ==
    /\ \A a, b, names : Covered(a \cup b, names)
                            <=> Covered(a, names) /\ Covered(b, names)
    /\ \A A, names : Covered(UNION A, names) <=> \A a \in A : Covered(a, names)
  BY DEF Covered

\* Gateways of routes from an annotation nobody resolves for the claims.
DynamicRoute(n) ==
    /\ n.type \notin {"ipv4", "ipv6"}
    /\ \E r \in ToSet(Elements(n.routes)) : r.gw.ann # NoAnn /\ r.gw.str = Nil

LEMMA RoutesSuffice ==
    ASSUME NEW n, NEW ipv4, NEW names, Covered(NetworkRefs(n, Ctx), names),
           ~DynamicRoute(n), getRoutes(n.routes, ipv4, Ctx, All) # Err
    PROVE  getRoutes(n.routes, ipv4, Ctx, PoolsOf(names))
               = getRoutes(n.routes, ipv4, Ctx, All)
<1> DEFINE e == Elements(n.routes)
           a == MapSeq(e, LAMBDA r : getRoute(r, ipv4, Ctx, All))
           c == MapSeq(e, LAMBDA r : getRoute(r, ipv4, Ctx, PoolsOf(names)))
<1>1. /\ getRoutes(n.routes, ipv4, Ctx, All) = AllOrErr(a)
      /\ getRoutes(n.routes, ipv4, Ctx, PoolsOf(names)) = AllOrErr(c)
  BY DEF getRoutes
<1>2. CASE e = Nil
  BY <1>2 DEF MapSeq, getRoutes
<1>3. CASE e # Nil
  <2>1. /\ a = [i \in DOMAIN e |-> getRoute(e[i], ipv4, Ctx, All)]
        /\ c = [i \in DOMAIN e |-> getRoute(e[i], ipv4, Ctx, PoolsOf(names))]
    BY <1>3 DEF MapSeq
  <2>2. \A i \in DOMAIN e : getRoute(e[i], ipv4, Ctx, All) # Err
    <3> HIDE DEF a, e
    <3>1. \A i \in DOMAIN a : a[i] # Err
      BY <1>1 DEF AllOrErr
    <3>2. QED
      BY <2>1, <3>1
  <2>3. ASSUME NEW i \in DOMAIN e
        PROVE  getRoute(e[i], ipv4, Ctx, PoolsOf(names))
                   = getRoute(e[i], ipv4, Ctx, All)
    <3> DEFINE r == e[i]
    <3>1. r \in ToSet(e)
      BY DEF ToSet
    <3>2. /\ Covered(RefOrName(r.gw.ref, r.gw.name), names)
          /\ Covered(ServiceRefs(r.services), names)
          /\ \/ Covered(addFromAnnotation(r.gw.ann, Ctx), names)
             \/ r.gw.ann = NoAnn \/ r.gw.str # Nil
      <4> HIDE DEF r, e
      <4>1. CASE n.type \in {"ipv4", "ipv6"}
        <5>1. Covered(UNION {RouteRefs(q, Ctx) : q \in ToSet(e)}, names)
          BY <4>1, CoveredParts DEF NetworkRefs, e
        <5>2. Covered(RouteRefs(r, Ctx), names)
          BY <3>1, <5>1, CoveredParts
        <5>3. QED
          BY <5>2, CoveredParts DEF RouteRefs
      <4>2. CASE n.type \notin {"ipv4", "ipv6"}
        <5>1. Covered(UNION {DynamicRouteRefs(q) : q \in ToSet(e)}, names)
          BY <4>2 DEF NetworkRefs, e
        <5>2. Covered(DynamicRouteRefs(r), names)
          BY <3>1, <5>1, CoveredParts
        <5>3. r.gw.ann = NoAnn \/ r.gw.str # Nil
          BY <3>1, <4>2 DEF DynamicRoute, e
        <5>4. QED
          BY <5>2, <5>3, CoveredParts DEF DynamicRouteRefs
      <4>3. QED
        BY <4>1, <4>2
    <3>3. getRoute(r, ipv4, Ctx, All) # Err
      BY <2>2
    <3> HIDE DEF r, e
    <3>4. getRoute(r, ipv4, Ctx, PoolsOf(names)) = getRoute(r, ipv4, Ctx, All)
      BY <3>2, <3>3, RouteSuffices
    <3>5. QED
      BY <3>4 DEF r
  <2> HIDE DEF e
  <2>4. a = c
    <3> HIDE DEF a, c
    <3>1. QED
      BY <2>1, <2>3
  <2>5. QED
    BY <1>1, <2>4
<1>4. QED
  BY <1>2, <1>3

LEMMA NetworkSuffices ==
    ASSUME NEW n, NEW names, Covered(NetworkRefs(n, Ctx), names),
           ~DynamicRoute(n), renderNetworkNetwork(n, Ctx, All) # Err
    PROVE  renderNetworkNetwork(n, Ctx, PoolsOf(names))
               = renderNetworkNetwork(n, Ctx, All)
<1> DEFINE ipv4 == n.type \in {"ipv4", "ipv4_dhcp"}
           static == n.type \in {"ipv4", "ipv6"}
           p == PoolName(n, Ctx)
           Rec(routes, pools) ==
             [type |-> n.type, routes |-> routes,
              ip |-> IF static THEN pools[p].address ELSE "",
              netmask |-> IF static THEN translateMask(pools[p].prefix, ipv4)
                          ELSE ""]
<1>1. \A pools : renderNetworkNetwork(n, Ctx, pools) =
        LET routes == getRoutes(n.routes, ipv4, Ctx, pools)
        IN  IF routes = Err \/ (static /\ p \notin DOMAIN pools) THEN Err
            ELSE Rec(routes, pools)
  BY DEF renderNetworkNetwork
<1>2. /\ getRoutes(n.routes, ipv4, Ctx, All) # Err
      /\ static => p \in DOMAIN All
  BY <1>1
<1>3. getRoutes(n.routes, ipv4, Ctx, PoolsOf(names))
        = getRoutes(n.routes, ipv4, Ctx, All)
  BY <1>2, RoutesSuffice
<1>4. ASSUME static PROVE p \in names
  <2>1. /\ Covered(addFromAnnotation(n.ann, Ctx), names)
        /\ Covered(RefOrName(n.ref, n.name), names)
    BY <1>4, CoveredParts DEF NetworkRefs
  <2>2. p # ""
    BY <1>2, <1>4, Lookups, APIAssumption
  <2>3. QED
    BY <2>1, <2>2, NamesClaimed, AnnotationsClaimed
<1>5. static => PoolsOf(names)[p] = All[p] /\ p \in DOMAIN PoolsOf(names)
  BY <1>2, <1>4, Lookups
<1>6. \A routes : Rec(routes, PoolsOf(names)) = Rec(routes, All)
  BY <1>5
<1> HIDE DEF static, ipv4, p, Rec
<1>7. QED
  BY <1>1, <1>2, <1>3, <1>5, <1>6

LEMMA NetworksSuffice ==
    ASSUME NEW ns, NEW names,
           \A n \in ToSet(Elements(ns)) : Covered(NetworkRefs(n, Ctx), names)
                                          /\ ~DynamicRoute(n),
           renderNetworkNetworks(ns, Ctx, All) # Err
    PROVE  renderNetworkNetworks(ns, Ctx, PoolsOf(names))
               = renderNetworkNetworks(ns, Ctx, All)
<1> DEFINE e == Elements(ns)
           Map(pools) == MapSeq(e, LAMBDA n : renderNetworkNetwork(n, Ctx, pools))
<1>1. \A pools : renderNetworkNetworks(ns, Ctx, pools)
                   = InOrder(AllOrErr(Map(pools)), NetworkTypes)
  BY DEF renderNetworkNetworks
<1>2. AllOrErr(Map(All)) # Err
  <2> HIDE DEF Map
  <2>1. QED
    BY <1>1 DEF InOrder
<1>3. Map(PoolsOf(names)) = Map(All)
  <2>1. CASE e = Nil
    BY <2>1 DEF MapSeq
  <2>2. CASE e # Nil
    <3>1. \A pools : Map(pools) = [i \in DOMAIN e |->
                                     renderNetworkNetwork(e[i], Ctx, pools)]
      BY <2>2 DEF MapSeq
    <3> HIDE DEF Map
    <3>2. \A i \in DOMAIN e : renderNetworkNetwork(e[i], Ctx, All) # Err
      <4>1. \A i \in DOMAIN Map(All) : Map(All)[i] # Err
        BY <1>2 DEF AllOrErr
      <4>2. QED
        BY <3>1, <4>1
    <3>3. \A i \in DOMAIN e : e[i] \in ToSet(e)
      BY DEF ToSet
    <3> HIDE DEF e
    <3>4. \A i \in DOMAIN e : renderNetworkNetwork(e[i], Ctx, PoolsOf(names))
                                = renderNetworkNetwork(e[i], Ctx, All)
      BY <3>2, <3>3, NetworkSuffices DEF e
    <3>5. QED
      BY <3>1, <3>4
  <2>3. QED
    BY <2>1, <2>2
<1> HIDE DEF Map
<1>4. QED
  BY <1>1, <1>3

LEMMA ItemSuffices ==
    ASSUME NEW x, NEW names, Covered(ItemRefs(x), names),
           ItemValue(x, Index, Ctx, All) # Err
    PROVE  ItemValue(x, Index, Ctx, PoolsOf(names)) = ItemValue(x, Index, Ctx, All)
<1>1. CASE x.what \in {"address", "prefix", "gateway"}
  <2>1. x.name \in names
    <3>1. PoolRef(x.name, "") \in ItemRefs(x)
      BY <1>1 DEF ItemRefs
    <3>2. PoolRef(x.name, "").name = x.name
      BY DEF PoolRef
    <3>3. QED
      BY <3>1, <3>2 DEF Covered
  <2>2. x.name \in DOMAIN All
    BY <1>1 DEF ItemValue, PoolField
  <2>3. /\ PoolsOf(names)[x.name] = All[x.name]
        /\ x.name \in DOMAIN PoolsOf(names)
    BY <2>1, <2>2, Lookups
  <2>4. QED
    BY <1>1, <2>2, <2>3 DEF ItemValue, PoolField
<1>2. CASE x.what \notin {"address", "prefix", "gateway"}
  BY <1>2 DEF ItemValue, PoolField
<1>3. QED
  BY <1>1, <1>2

LEMMA MetaDataSuffices ==
    ASSUME NEW t, NEW names,
           \A x \in ToSet(Elements(t.meta)) : Covered(ItemRefs(x), names),
           renderMetaData(t, Index, Ctx, All) # Err
    PROVE  renderMetaData(t, Index, Ctx, PoolsOf(names))
               = renderMetaData(t, Index, Ctx, All)
<1>1. CASE t.meta = Nil
  BY <1>1 DEF renderMetaData
<1>2. CASE t.meta # Nil
  <2> DEFINE m == t.meta
             Items(pools) == [i \in DOMAIN m |->
                                [what |-> m[i].what, key |-> m[i].key,
                                 value |-> ItemValue(m[i], Index, Ctx, pools)]]
  <2>1. \A pools : renderMetaData(t, Index, Ctx, pools) =
          IF \E i \in DOMAIN Items(pools) : Items(pools)[i].value = Err THEN Err
          ELSE PutItems(InSections(Items(pools)), Ctx)
    BY <1>2 DEF renderMetaData
  <2>2. \A i \in DOMAIN m : ItemValue(m[i], Index, Ctx, All) # Err
    BY <2>1
  <2>3. \A i \in DOMAIN m : m[i] \in ToSet(Elements(m))
    BY <1>2 DEF ToSet, Elements
  <2>4. \A i \in DOMAIN m : ItemValue(m[i], Index, Ctx, PoolsOf(names))
                              = ItemValue(m[i], Index, Ctx, All)
    BY <2>2, <2>3, ItemSuffices
  <2>5. Items(PoolsOf(names)) = Items(All)
    BY <2>4
  <2> HIDE DEF Items
  <2>6. QED
    BY <2>1, <2>5
<1>3. QED
  BY <1>1, <1>2

\* With the claims of a template everything is rendered that is rendered with
\* all the pools there are.
LEMMA RenderSuffices ==
    ASSUME NEW t, getReferencedPools(t, Ctx) # Err, ~DynamicAnnotation(t),
           Err \notin {renderMetaData(t, Index, Ctx, All),
                       renderNetworkData(t, Ctx, All)}
    PROVE  LET names == {p.name : p \in getReferencedPools(t, Ctx)} IN
           /\ renderMetaData(t, Index, Ctx, PoolsOf(names))
                = renderMetaData(t, Index, Ctx, All)
           /\ renderNetworkData(t, Ctx, PoolsOf(names))
                = renderNetworkData(t, Ctx, All)
<1> DEFINE refs == getReferencedPools(t, Ctx)
           names == {p.name : p \in refs}
           items == MetaDataRefs(t.meta)
           rest == IF t.net = Nil THEN {} ELSE NetworkDataRefs(t.net, Ctx)
<1>1. refs = addRef(items \cup rest)
  BY DEF getReferencedPools
<1>a. refs # Err
  OBVIOUS
<1> HIDE DEF items, rest, refs
<1>2. refs = items \cup rest /\ Err \notin refs
  <2> DEFINE both == items \cup rest
  <2> HIDE DEF both
  <2>1. refs = addRef(both)
    BY <1>1 DEF both
  <2>2. QED
    BY <1>a, <2>1, Zenon DEF addRef, both
<1>3. Covered(items, names) /\ Covered(rest, names)
  BY <1>2, CoveredParts DEF Covered
<1> HIDE DEF names
<1>4. renderMetaData(t, Index, Ctx, PoolsOf(names)) = renderMetaData(t, Index, Ctx, All)
  <2>1. \A x \in ToSet(Elements(t.meta)) : Covered(ItemRefs(x), names)
    BY <1>3, CoveredParts DEF items, MetaDataRefs
  <2>2. QED
    BY <2>1, MetaDataSuffices
<1>5. renderNetworkData(t, Ctx, PoolsOf(names)) = renderNetworkData(t, Ctx, All)
  <2>1. CASE t.net = Nil
    BY <2>1 DEF renderNetworkData
  <2>2. CASE t.net # Nil
    <3>1. /\ \A n \in ToSet(Elements(t.net.networks)) : NetworkRefs(n, Ctx) \subseteq rest
          /\ ServiceRefs(t.net.services) \subseteq rest
      BY <2>2 DEF rest, NetworkDataRefs
    <3>2. /\ \A n \in ToSet(Elements(t.net.networks)) :
               Covered(NetworkRefs(n, Ctx), names) /\ ~DynamicRoute(n)
          /\ Covered(ServiceRefs(t.net.services), names)
      <4>1. \A a : a \subseteq rest => Covered(a, names)
        BY <1>3 DEF Covered
      <4>2. QED
        BY <2>2, <3>1, <4>1 DEF DynamicAnnotation, DynamicRoute
    <3>3. /\ renderNetworkNetworks(t.net.networks, Ctx, All) # Err
          /\ renderNetworkServices(t.net.services, All) # Err
      BY <2>2 DEF renderNetworkData
    <3>4. /\ renderNetworkNetworks(t.net.networks, Ctx, PoolsOf(names))
               = renderNetworkNetworks(t.net.networks, Ctx, All)
          /\ renderNetworkServices(t.net.services, PoolsOf(names))
               = renderNetworkServices(t.net.services, All)
      BY <3>2, <3>3, NetworksSuffice, ServicesSuffice
    <3>5. QED
      BY <2>2, <3>4 DEF renderNetworkData
  <2>3. QED
    BY <2>1, <2>2
<1>6. QED
  BY <1>4, <1>5 DEF names, refs

LEMMA ClaimsAreEnough == ClaimsSuffice
<1> DEFINE t == stored
           r == Render(t, DOMAIN AllPools)
           refs == getReferencedPools(t, Ctx)
           q == Render(t, {p.name : p \in refs})
<1> SUFFICES ASSUME Claimable, ~DynamicAnnotation(t), Err \notin {r.meta, r.net}
             PROVE  Rendered(t) = r
  BY DEF ClaimsSuffice
<1>1. refs # Err
  BY DEF Claimable
<1>2. \A names : Render(t, names) =
        [meta |-> renderMetaData(t, Index, Ctx, PoolsOf(names)),
         net |-> renderNetworkData(t, Ctx, PoolsOf(names))]
  BY DEF Render, PoolsOf
<1>3. r.meta = renderMetaData(t, Index, Ctx, All)
      /\ r.net = renderNetworkData(t, Ctx, All)
  BY <1>2 DEF All
<1>4. q = r
  <2> HIDE DEF r
  <2>1. /\ renderMetaData(t, Index, Ctx, PoolsOf({p.name : p \in refs})) = r.meta
        /\ renderNetworkData(t, Ctx, PoolsOf({p.name : p \in refs})) = r.net
    BY <1>1, <1>3, RenderSuffices
  <2>2. QED
    BY <1>2, <2>1 DEF r, All
<1>5. Rendered(t) = IF Err \in {q.meta, q.net} THEN Err ELSE q
  BY <1>1 DEF Rendered
<1> HIDE DEF r, q
<1>6. QED
  BY <1>4, <1>5

----------------------------------------------------------------------------
(* The theorems. *)

\* Whatever clients of both versions send, a stored object satisfies the
\* rules for new objects: the webhooks' ValidateUpdate lets nothing in that
\* ValidateCreate would refuse, for any of the nine kinds.
THEOREM StoredObjectsAreValid == Spec => []StoredIsValid
<1>1. APIInv => StoredIsValid
  BY DEF APIInv
<1>2. QED
  BY <1>1, APIInvHolds, PTL

\* What is stored, and what a v1beta1 client's annotation holds, has the
\* types of v1beta2 after any conversion (ConvertTo and ConvertFrom of
\* api/v1beta1/conversion.go).
THEOREM ConversionTypes == Spec => []TypeOK
<1>1. APIInv => TypeOK
  BY DEF APIInv, TypeOK
<1>2. QED
  BY <1>1, APIInvHolds, PTL

\* A v1beta1 client that sends an object back as it got it changes nothing
\* (ConvertFrom, ConvertTo and the annotation).
THEOREM WriteBackIsHarmless == Spec => []WriteBackHarmless
<1>1. APIInv => WriteBackHarmless
  BY DEF APIInv
<1>2. QED
  BY <1>1, APIInvHolds, PTL

\* What a v1beta1 client sends is what it reads afterwards, whatever the
\* annotation of its copy says (ConvertTo): all of it if its integers have 32
\* bits, but for the checksum of an image whose hub object had none.
THEOREM EditsStick == Spec => []EditSticks
<1>1. APIInv => EditSticks
  BY DEF APIInv
<1>2. QED
  BY <1>1, APIInvHolds, PTL

\* A v1beta1 client does not change the status of an object, whatever its
\* annotation says (ConvertTo, Convert_bool_To_Pointer_bool).
THEOREM StatusIsKept == Spec => []StatusKept
<1>1. APIInv => StatusKept
  BY DEF APIInv
<1>2. QED
  BY <1>1, APIInvHolds, PTL

\* The secrets are those of the template as it is, for any template, pools and
\* machine: neither client can change what they were rendered from
\* (createSecrets, ValidateUpdate of the Metal3DataTemplate webhook).
THEOREM SecretsStayTrue == Spec => []SecretIsTemplates
<1>1. SecretInv => SecretIsTemplates
  BY DEF SecretInv, SecretIsTemplates
<1>2. QED
  BY <1>1, APIInvHolds, SecretInductive, PTL DEF Spec

\* A template renders with the pools it has claimed as with all the pools
\* there are, whatever the template, the machine and the pools
\* (getReferencedPools against renderMetaData and renderNetworkData).
THEOREM ClaimedPoolsSuffice == Spec => []ClaimsSuffice
  BY ClaimsAreEnough, PTL

============================================================================
