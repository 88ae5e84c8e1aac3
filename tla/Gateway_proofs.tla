--------------------------- MODULE Gateway_proofs ---------------------------
(***************************************************************************)
(* Proofs about the gateway for every set of tenants, tokens, uuids and    *)
(* request slots and any number of requests.  The invariant says that a    *)
(* table's ids are unique over all tenants, who owns what a request slot   *)
(* works on, and how far an upload or an export has come.                  *)
(***************************************************************************)
EXTENDS Gateway, TLAPS

IsRow(x) ==
    /\ x = Row(x.tbl, x.id, x.tenant, x.ds, x.ref, x.ref2, x.val)
    /\ x.id \in Ids

IsSlot(q) ==
    /\ q = [route |-> q.route, ctx |-> q.ctx, ds |-> q.ds, ver |-> q.ver, tag |-> q.tag,
            copy |-> q.copy, rev |-> q.rev, asked |-> q.asked, name |-> q.name]
    /\ q.copy \in [Columns -> Nat] /\ q.rev \in Nat /\ q.tag \in Nat

IsObject(o) ==
    o = [tenant |-> o.tenant, key |-> <<o.key[1], o.key[2], o.key[3], o.key[4]>>, data |-> o.data]

\* Shapes of rows, objects and slots, and the numbers.
Shaped ==
    /\ \A x \in rows : IsRow(x)
    /\ \A o \in objects : IsObject(o)
    /\ req = [r \in Requests |-> req[r]] /\ \A r \in Requests : IsSlot(req[r])
    /\ spec \in [Ids -> [Columns -> Nat]] /\ rev \in [Ids -> Nat] /\ served \in Nat

\* An id names one row of a table, whoever's it is.
Unique == \A x, y \in rows : x.tbl = y.tbl /\ x.id = y.id => x = y

Owns(t, d) == \E x \in rows : x.tbl = "datasets" /\ x.id = d /\ x.tenant = t

Editing == Uploads \cup {"update"}
Exporting == {"export", "record"}

\* A slot works on a dataset of its caller, who may do what the route does.
Held ==
    \A r \in Requests : req[r] # Idle =>
        /\ req[r].route \in Editing \cup Exporting
        /\ req[r].ds \in Ids /\ Owns(req[r].ctx.tenant, req[r].ds)
        /\ req[r].tag <= served
        /\ req[r].route \in Editing => Permitted(req[r].ctx, "datasets", "write")
        /\ req[r].ctx.roles \subseteq Role

\* A profile belongs to the owner of its dataset and describes an earlier upload.
Profiles ==
    \A p \in rows : p.tbl = "dataset_profiles" =>
        /\ p.id = p.ds /\ p.val = "s.csv" /\ Owns(p.tenant, p.ds)
        /\ p.ref \in Nat /\ p.ref <= served

\* The copy a slot holds is the row unless the row was saved since.
Copies ==
    \A r \in Requests : req[r].route \in Editing =>
        /\ req[r].rev <= rev[req[r].ds]
        /\ req[r].rev = rev[req[r].ds] => req[r].copy = spec[req[r].ds]

\* An upload that overlaps another edit of the dataset is known as a race.
Exclusive ==
    \A r, s \in Requests :
        /\ r # s /\ req[r].ds = req[s].ds
        /\ req[r].route \in Uploads /\ req[s].route \in Editing
        => req[r].ds \in raced

SampleIs(t, d, name, tag) ==
    \A o \in objects : o.tenant = t /\ o.key = SampleKey(d, name) => o.data[1] = tag

At(d, routes) == \E r \in Requests : req[r].route \in routes /\ req[r].ds = d

\* Between PutSample and SaveProfile the object is the slot's.
Staged ==
    \A r \in Requests : req[r].route = "profile" /\ req[r].ds \notin raced =>
        SampleIs(req[r].ctx.tenant, req[r].ds, req[r].name, req[r].tag)

\* How far object, profile and fields of a dataset have come.
InStep ==
    \A p \in rows : p.tbl = "dataset_profiles" /\ p.ds \notin raced =>
        /\ ~At(p.ds, {"profile"}) => SampleIs(p.tenant, p.ds, p.val, p.ref)
        /\ ~At(p.ds, {"fields"}) => spec[p.ds]["fields"] >= p.ref
        /\ \A r \in Requests : req[r].ds = p.ds =>
               /\ req[r].route = "fields" => p.ref = req[r].tag /\ "fields" \in req[r].asked
               /\ req[r].route = "update" =>
                      req[r].tag >= p.ref /\ req[r].copy["fields"] >= p.ref

\* An artifact object holds the version its key names.
Artifacts == \A o \in objects : o.key[1] = "artifact" => o.data[1] = o.key[3]

Formatted(v, f) == v.val = "graph_json" => f \in GraphFormats

Exported(t, d, ver, f) ==
    \E v \in rows, o \in objects :
        /\ v.tbl = "dataset_versions" /\ v.id = ver /\ Formatted(v, f)
        /\ o.tenant = t /\ o.key = ExportKey(d, ver, ExtensionOf(v, f)) /\ o.data = <<ver, f>>

\* What is exported, or about to be, is a version of the slot's dataset.
Exports ==
    /\ \A r \in Requests : req[r].route \in Exporting =>
           \E v \in rows : /\ v.tbl = "dataset_versions" /\ v.id = req[r].ver
                           /\ v.ds = req[r].ds /\ v.tenant = req[r].ctx.tenant
                           /\ Formatted(v, req[r].name)
    /\ \A r \in Requests : req[r].route = "record" =>
           Exported(req[r].ctx.tenant, req[r].ds, req[r].ver, req[r].name)
    /\ \A e \in rows : e.tbl = "export_artifacts" => Exported(e.tenant, e.ds, e.ref, e.val)

GwInv ==
    /\ Shaped /\ Unique /\ Held /\ Profiles /\ Copies
    /\ ReferencesResolve
    /\ Exclusive /\ Staged /\ InStep
    /\ Artifacts /\ Exports

-----------------------------------------------------------------------------
(* Queries and permissions.                                                *)

\* The explicit tenant filter makes row-level security redundant.
LEMMA Sees ==
    ASSUME NEW tbl, NEW t, NEW r
    PROVE  r \in Session(tbl, t) /\ r.tenant = t <=> r \in rows /\ r.tbl = tbl /\ r.tenant = t
  BY DEF Session

\* A fresh id is not in use in its table.
LEMMA FreshIs ==
    ASSUME NEW tbl, NEW i \in Fresh(tbl)
    PROVE  i \in Ids /\ \A y \in rows : y.tbl = tbl => y.id # i
  BY DEF Fresh

Writer(ctx) == ctx.roles \cap {"member", "admin", "owner"} # {}
Keeper(ctx) == ctx.roles \cap {"admin", "owner"} # {}

\* Unknown roles are dropped from a token.
LEMMA KnownRoles == \A ctx \in Contexts : ctx.roles \subseteq Role
  BY DEF Contexts

\* A viewer's permissions are all to read.
LEMMA WriteNeedsMember ==
    ASSUME NEW ctx, ctx.roles \subseteq Role, NEW scope, Permitted(ctx, scope, "write")
    PROVE  Writer(ctx)
<1>1. PICK role \in ctx.roles : <<scope, "write">> \in PERMISSIONS[role]
  BY DEF Permitted
<1>2. role # "viewer"
  BY <1>1 DEF PERMISSIONS, Viewer
<1> QED
  BY <1>1, <1>2 DEF Writer, Role

\* A member's permissions do not include the deletion of a provider.
LEMMA DeleteNeedsAdmin ==
    ASSUME NEW ctx, ctx.roles \subseteq Role, NEW scope, Permitted(ctx, scope, "delete")
    PROVE  Keeper(ctx) /\ Writer(ctx)
<1>1. PICK role \in ctx.roles : <<scope, "delete">> \in PERMISSIONS[role]
  BY DEF Permitted
<1>2. role # "viewer"
  BY <1>1 DEF PERMISSIONS, Viewer
<1>3. role # "member"
  BY <1>1 DEF PERMISSIONS, Member, Viewer
<1> QED
  BY <1>1, <1>2, <1>3 DEF Keeper, Writer, Role

-----------------------------------------------------------------------------
(* The shapes of a step.                                                   *)

Registries == {"model_configs", "image_provider_configs", "video_provider_configs",
               "audio_provider_configs"}

\* What ReferencesResolve says of one row.
Resolves(r) ==
    /\ r.tbl \in {"annotations", "perturbation_jobs", "export_artifacts", "evaluation_runs"} =>
           VersionOf(r, r.ref)
    /\ r.tbl = "evaluation_runs" =>
           /\ r.ref2 # None => VersionOf(r, r.ref2)
           /\ r.val = "reported" => \A f \in {"json", "html"} : Stored(r.tenant, ReportKey(r.id, f))
    /\ r.tbl = "dataset_versions" => Stored(r.tenant, ArtifactKey(r.ds, r.id))
    /\ r.tbl \in {"dataset_versions", "generation_jobs", "review_tasks"} => Owns(r.tenant, r.ds)
    /\ r.tbl = "feedback" =>
           \E x \in rows : /\ x.id = r.ref /\ x.tenant = r.tenant
                           /\ x.tbl = (IF r.val = "evaluation_run" THEN "evaluation_runs"
                                       ELSE "dataset_versions")

\* A row no other row of its table has the id of.
New(x, t) == IsRow(x) /\ x.tenant = t /\ \A y \in rows : y.tbl = x.tbl => y.id # x.id

\* A route of ctx that writes to the tables only.
Route(ctx) == By(ctx, Idle) /\ Writer(ctx) /\ served' = served + 1 /\ TableStep

Linked == Registries \cup {"generation_jobs", "review_tasks", "perturbation_jobs",
                           "evaluation_runs", "annotations", "feedback"}

Adds(ctx) ==
    /\ Route(ctx)
    /\ rows \subseteq rows'
    /\ \A x \in rows' \ rows : New(x, ctx.tenant) /\ x.tbl \in Linked /\ Resolves(x)
    /\ \A x, y \in rows' \ rows : x.tbl = y.tbl => x = y

Drops(ctx) ==
    /\ Route(ctx)
    /\ rows' \subseteq rows
    /\ \A x \in rows \ rows' :
           x.tenant = ctx.tenant /\ (x.tbl = "annotations" \/ (x.tbl \in Registries /\ Keeper(ctx)))

Decides(ctx) ==
    /\ Route(ctx)
    /\ \E x \in rows, status \in {"approved", "rejected", "changes_requested"} :
           /\ x.tbl = "review_tasks" /\ x.tenant = ctx.tenant
           /\ rows' = (rows \ {x}) \cup {Row(x.tbl, x.id, x.tenant, x.ds, x.ref, x.ref2, status)}

Creates(ctx) ==
    /\ By(ctx, Idle) /\ Writer(ctx) /\ served' = served + 1
    /\ UNCHANGED <<objects, rls, req, rev, raced>>
    /\ \E id \in Ids, columns \in [Columns -> Nat],
          source \in {"graph", "sample", "description", "audio", "image", "template"} :
           /\ New(SpecRow(ctx.tenant, id, source), ctx.tenant)
           /\ rows' = rows \cup {SpecRow(ctx.tenant, id, source)}
           /\ spec' = [spec EXCEPT ![id] = columns]

\* One new row that resolves makes an Adds step.
LEMMA OneAdded ==
    ASSUME NEW ctx, Route(ctx), NEW x, Insert(x), New(x, ctx.tenant), x.tbl \in Linked, Resolves(x)
    PROVE  Adds(ctx)
<1>1. rows \subseteq rows' /\ \A y \in rows' \ rows : y = x
  BY DEF Insert
<1> QED
  BY <1>1 DEF Adds

\* Registering a provider adds a row of a registry.
LEMMA Registers ==
    ASSUME NEW ctx \in Contexts,
           \/ RegisterModel(ctx) \/ RegisterImageProvider(ctx)
           \/ RegisterVideoProvider(ctx) \/ RegisterAudioProvider(ctx)
    PROVE  Adds(ctx)
<1>1. Route(ctx)
  BY KnownRoles, WriteNeedsMember DEF RegisterModel, RegisterImageProvider, RegisterVideoProvider,
     RegisterAudioProvider, Accept, Route
<1>2. ASSUME NEW tbl \in Registries, NEW id \in Fresh(tbl), NEW p,
             Insert(Row(tbl, id, ctx.tenant, None, None, None, p))
      PROVE  Adds(ctx)
  <2> DEFINE x == Row(tbl, id, ctx.tenant, None, None, None, p)
  <2>1. New(x, ctx.tenant)
    BY FreshIs, <1>2 DEF New, IsRow, Row
  <2>2. x.tbl \in Linked /\ Resolves(x)
    BY <1>2 DEF Linked, Registries, Resolves, Row
  <2> HIDE DEF x
  <2> QED
    BY <1>1, <1>2, <2>1, <2>2, OneAdded DEF x
<1> QED
  BY <1>2 DEF RegisterModel, RegisterImageProvider, RegisterVideoProvider,
     RegisterAudioProvider, ModelRow, ImageRow, VideoRow, AudioRow, Registries

\* A dataset the repository finds for the caller is the caller's.
LEMMA SpecFound ==
    ASSUME NEW t, NEW d, GetSpec(t, d) # {}
    PROVE  Owns(t, d)
  BY Sees DEF GetSpec, Owns

\* start_generation, with or without a review, adds rows of a found dataset.
LEMMA Generates ==
    ASSUME NEW ctx \in Contexts, StartGeneration(ctx)
    PROVE  Adds(ctx)
<1>1. Route(ctx)
  BY KnownRoles, WriteNeedsMember DEF StartGeneration, Accept, Route
<1>2. PICK d \in Ids, id \in Fresh("generation_jobs") :
         /\ GetSpec(ctx.tenant, d) # {}
         /\ \/ Insert(JobRow(ctx.tenant, id, d))
            \/ \E rid \in Fresh("review_tasks") :
                   rows' = rows \cup {JobRow(ctx.tenant, id, d), ReviewRow(ctx.tenant, rid, d)}
  BY DEF StartGeneration
<1> DEFINE j == JobRow(ctx.tenant, id, d)
<1>3. Owns(ctx.tenant, d)
  BY <1>2, SpecFound
<1>4. New(j, ctx.tenant) /\ j.tbl = "generation_jobs"
  BY FreshIs DEF New, IsRow, JobRow, Row
<1>5. j.tbl \in Linked /\ Resolves(j)
  BY <1>3 DEF Linked, Resolves, JobRow, Row
<1>6. CASE Insert(JobRow(ctx.tenant, id, d))
  <2> HIDE DEF j
  <2> QED
    BY <1>1, <1>4, <1>5, <1>6, OneAdded DEF j
<1>7. ASSUME NEW rid \in Fresh("review_tasks"),
             rows' = rows \cup {j, ReviewRow(ctx.tenant, rid, d)}
      PROVE  Adds(ctx)
  <2> DEFINE v == ReviewRow(ctx.tenant, rid, d)
  <2>1. New(v, ctx.tenant) /\ v.tbl = "review_tasks"
    BY FreshIs DEF New, IsRow, ReviewRow, Row
  <2>2. v.tbl \in Linked /\ Resolves(v)
    BY <1>3 DEF Linked, Resolves, ReviewRow, Row
  <2>3. rows \subseteq rows' /\ \A y \in rows' \ rows : y \in {j, v}
    BY <1>7
  <2> HIDE DEF j, v
  <2> QED
    BY <1>1, <1>4, <1>5, <2>1, <2>2, <2>3 DEF Adds
<1> QED
  BY <1>2, <1>6, <1>7

\* Launching a perturbation or an evaluation, annotating and giving feedback add
\* a row whose version, reference or run the route has looked up.
LEMMA Launches ==
    ASSUME NEW ctx \in Contexts,
           LaunchPerturbation(ctx) \/ StartEvaluation(ctx) \/ CreateAnnotation(ctx)
               \/ CreateFeedback(ctx)
    PROVE  Adds(ctx)
<1>1. Route(ctx)
  BY KnownRoles, WriteNeedsMember DEF LaunchPerturbation, StartEvaluation, CreateAnnotation,
     CreateFeedback, Accept, Route
<1>2. ASSUME NEW d, NEW v, v \in {x.id : x \in ListVersions(ctx.tenant, d)}, NEW r,
             r.ds = d, r.tenant = ctx.tenant
      PROVE  VersionOf(r, v)
  BY <1>2, Sees DEF ListVersions, VersionOf
<1>3. CASE LaunchPerturbation(ctx)
  <2>1. PICK d \in Ids, v \in Ids, id \in Fresh("perturbation_jobs") :
           /\ v \in {x.id : x \in ListVersions(ctx.tenant, d)}
           /\ Insert(PertRow(ctx.tenant, id, d, v))
    BY <1>3 DEF LaunchPerturbation
  <2> DEFINE x == PertRow(ctx.tenant, id, d, v)
  <2>2. New(x, ctx.tenant) /\ x.tbl \in Linked
    BY FreshIs DEF New, IsRow, PertRow, Row, Linked
  <2>3. x.ds = d /\ x.tenant = ctx.tenant /\ x.tbl = "perturbation_jobs" /\ x.ref = v
    BY DEF PertRow, Row
  <2> HIDE DEF x
  <2>4. Resolves(x)
    BY <1>2, <2>1, <2>3 DEF Resolves
  <2> QED
    BY <1>1, <2>1, <2>2, <2>4, OneAdded DEF x
<1>4. CASE StartEvaluation(ctx)
  <2>1. PICK d \in Ids, v \in Ids, refv \in Ids \cup {None}, id \in Fresh("evaluation_runs") :
           /\ v \in {x.id : x \in ListVersions(ctx.tenant, d)}
           /\ refv # None => refv \in {x.id : x \in ListVersions(ctx.tenant, d)}
           /\ Insert(RunRow(ctx.tenant, id, d, v, refv))
    BY <1>4 DEF StartEvaluation
  <2> DEFINE x == RunRow(ctx.tenant, id, d, v, refv)
  <2>2. New(x, ctx.tenant) /\ x.tbl \in Linked
    BY FreshIs DEF New, IsRow, RunRow, Row, Linked
  <2>3. /\ x.ds = d /\ x.tenant = ctx.tenant /\ x.tbl = "evaluation_runs" /\ x.ref = v
        /\ x.ref2 = refv /\ x.val = "pending"
    BY DEF RunRow, Row
  <2> HIDE DEF x
  <2>4. Resolves(x)
    BY <1>2, <2>1, <2>3 DEF Resolves
  <2> QED
    BY <1>1, <2>1, <2>2, <2>4, OneAdded DEF x
<1>5. CASE CreateAnnotation(ctx)
  <2>1. PICK d \in Ids, v \in Ids, id \in Fresh("annotations") :
           /\ \E x \in GetVersion(ctx.tenant, v) : x.ds = d
           /\ Insert(AnnotationRow(ctx.tenant, id, d, v))
    BY <1>5 DEF CreateAnnotation
  <2> DEFINE x == AnnotationRow(ctx.tenant, id, d, v)
  <2>2. New(x, ctx.tenant) /\ x.tbl \in Linked
    BY FreshIs DEF New, IsRow, AnnotationRow, Row, Linked
  <2>3. x.ds = d /\ x.tenant = ctx.tenant /\ x.tbl = "annotations" /\ x.ref = v
    BY DEF AnnotationRow, Row
  <2> HIDE DEF x
  <2>4. VersionOf(x, v)
    BY <2>1, <2>3, Sees DEF GetVersion, VersionOf
  <2>5. Resolves(x)
    BY <2>3, <2>4 DEF Resolves
  <2> QED
    BY <1>1, <2>1, <2>2, <2>5, OneAdded DEF x
<1>6. CASE CreateFeedback(ctx)
  <2>1. PICK y \in Ids, id \in Fresh("feedback"), type \in {"dataset_version", "evaluation_run"} :
           /\ type = "dataset_version" => GetVersion(ctx.tenant, y) # {}
           /\ type = "evaluation_run" => GetRun(ctx.tenant, y) # {}
           /\ Insert(FeedbackRow(ctx.tenant, id, type, y))
    BY <1>6 DEF CreateFeedback
  <2> DEFINE x == FeedbackRow(ctx.tenant, id, type, y)
  <2>2. New(x, ctx.tenant) /\ x.tbl \in Linked
    BY FreshIs DEF New, IsRow, FeedbackRow, Row, Linked
  <2>3. x.tenant = ctx.tenant /\ x.tbl = "feedback" /\ x.ref = y /\ x.val = type
    BY DEF FeedbackRow, Row
  <2> HIDE DEF x
  <2>4. Resolves(x)
    BY <2>1, <2>3, Sees DEF GetVersion, GetRun, Resolves
  <2> QED
    BY <1>1, <2>1, <2>2, <2>4, OneAdded DEF x
<1> QED
  BY <1>3, <1>4, <1>5, <1>6

\* The delete routes remove rows of the caller's tenant.
LEMMA Deletes ==
    ASSUME NEW ctx \in Contexts,
           \/ DeleteModel(ctx) \/ DeleteImageProvider(ctx) \/ DeleteVideoProvider(ctx)
           \/ DeleteAudioProvider(ctx) \/ DeleteAnnotation(ctx)
    PROVE  Drops(ctx)
<1>1. CASE DeleteAnnotation(ctx)
  <2>1. Route(ctx)
    BY <1>1, KnownRoles, WriteNeedsMember DEF DeleteAnnotation, Accept, Route
  <2>2. PICK id \in Ids : rows' = rows \ DeletedAnnotation(ctx.tenant, id)
    BY <1>1 DEF DeleteAnnotation
  <2>3. \A x \in rows \ rows' : x.tenant = ctx.tenant /\ x.tbl = "annotations"
    BY <2>2, Sees DEF DeletedAnnotation
  <2>4. rows' \subseteq rows
    BY <2>2
  <2> QED
    BY <2>1, <2>3, <2>4 DEF Drops
<1>2. CASE ~DeleteAnnotation(ctx)
  <2>1. Route(ctx) /\ Keeper(ctx)
    BY <1>2, KnownRoles, DeleteNeedsAdmin DEF DeleteModel, DeleteImageProvider,
       DeleteVideoProvider, DeleteAudioProvider, Accept, Route
  <2>2. PICK id \in Ids : \/ rows' = rows \ DeletedModel(ctx.tenant, id)
                          \/ rows' = rows \ DeletedImage(ctx.tenant, id)
                          \/ rows' = rows \ DeletedVideo(ctx.tenant, id)
                          \/ rows' = rows \ DeletedAudio(ctx.tenant, id)
    BY <1>2 DEF DeleteModel, DeleteImageProvider, DeleteVideoProvider, DeleteAudioProvider
  <2>3. rows' \subseteq rows
    BY <2>2
  <2>4. \A x \in rows \ rows' : x.tenant = ctx.tenant /\ x.tbl \in Registries
    BY <2>2, Sees DEF DeletedModel, DeletedImage, DeletedVideo, DeletedAudio, Registries
  <2> QED
    BY <2>1, <2>3, <2>4 DEF Drops
<1> QED
  BY <1>1, <1>2

\* A decision replaces the status of one review task of the caller's tenant.
LEMMA DecidesOne ==
    ASSUME GwInv, NEW ctx \in Contexts, DecideReview(ctx)
    PROVE  Decides(ctx)
<1>1. Route(ctx)
  BY KnownRoles, WriteNeedsMember DEF DecideReview, Accept, Route
<1>2. PICK id \in Ids, status \in {"approved", "rejected", "changes_requested"} :
         /\ GetReview(ctx.tenant, id) # {}
         /\ rows' = (rows \ SavedReview(ctx.tenant, id)) \cup
                        {[x EXCEPT !.val = status] : x \in SavedReview(ctx.tenant, id)}
  BY DEF DecideReview
<1>3. PICK x \in rows : x.tbl = "review_tasks" /\ x.tenant = ctx.tenant /\ x.id = id
  BY <1>2, Sees DEF GetReview
<1>4. SavedReview(ctx.tenant, id) = {x}
  BY <1>3, Sees DEF SavedReview, GwInv, Unique
<1>5. [x EXCEPT !.val = status] = Row(x.tbl, x.id, x.tenant, x.ds, x.ref, x.ref2, status)
  <2>1. x = [tbl |-> x.tbl, id |-> x.id, tenant |-> x.tenant, ds |-> x.ds, ref |-> x.ref,
             ref2 |-> x.ref2, val |-> x.val]
    BY DEF GwInv, Shaped, IsRow, Row
  <2> QED
    BY <2>1 DEF Row
<1>6. rows' = (rows \ {x}) \cup {Row(x.tbl, x.id, x.tenant, x.ds, x.ref, x.ref2, status)}
  BY <1>2, <1>4, <1>5
<1> QED
  BY <1>1, <1>3, <1>6 DEF Decides

\* Every way to create a dataset adds one row and sets its columns.
LEMMA CreatesOne ==
    ASSUME GwInv, NEW ctx \in Contexts,
           \/ CreateDataset(ctx) \/ CreateAudioDataset(ctx) \/ CreateImageDataset(ctx)
           \/ CreateFromTemplate(ctx)
    PROVE  Creates(ctx)
<1>1. By(ctx, Idle) /\ Writer(ctx) /\ served' = served + 1
  BY KnownRoles, WriteNeedsMember DEF CreateDataset, CreateAudioDataset, CreateImageDataset,
     CreateFromTemplate, Accept
<1>2. served \in Nat
  BY DEF GwInv, Shaped
<1>3. Draft \in [Columns -> Nat] /\ Full \in [Columns -> Nat]
      /\ \A b \in BOOLEAN : [Full EXCEPT !["fields"] = IF b THEN @ ELSE 0] \in [Columns -> Nat]
  BY <1>2 DEF Draft, Full, Columns
<1>4. PICK source \in {"graph", "sample", "description", "audio", "image", "template"},
           columns \in [Columns -> Nat] : CreateSpec(ctx, source, columns)
  BY <1>3 DEF CreateDataset, CreateAudioDataset, CreateImageDataset, CreateFromTemplate
<1>5. PICK id \in Fresh("datasets") : /\ Insert(SpecRow(ctx.tenant, id, source))
                                      /\ spec' = [spec EXCEPT ![id] = columns]
  BY <1>4 DEF CreateSpec
<1>6. UNCHANGED <<objects, rls, req, rev, raced>>
  BY <1>4 DEF CreateSpec
<1>7. New(SpecRow(ctx.tenant, id, source), ctx.tenant) /\ id \in Ids
  BY FreshIs DEF New, IsRow, SpecRow, Row
<1> QED
  BY <1>1, <1>5, <1>6, <1>7 DEF Creates, Insert

-----------------------------------------------------------------------------
(* The cases of a step, and what every step does to the tables.            *)

Starts(r) ==
    \E ctx \in Contexts : UpdateDataset(r, ctx) \/ UploadSample(r, ctx) \/ ExportVersion(r, ctx)

Saves(r) == SaveUpdate(r) \/ SaveFields(r)
Ends(r) == ProfileFails(r) \/ RequestLost(r)

\* The next-state relation by shape.
LEMMA StepCases ==
    ASSUME GwInv, Next
    PROVE  \/ \E ctx \in Contexts : Adds(ctx) \/ Drops(ctx) \/ Decides(ctx) \/ Creates(ctx)
           \/ \E r \in Requests : \/ Starts(r) \/ Saves(r) \/ Ends(r) \/ PutSample(r)
                                  \/ SaveProfile(r) \/ PutExport(r) \/ AddExport(r)
           \/ \E x \in rows : \/ x.tbl = "generation_jobs" /\ VersionRegistered(x)
                              \/ x.tbl = "evaluation_runs" /\ ReportWritten(x)
<1>1. ASSUME NEW ctx \in Contexts, Providers(ctx) \/ Datasets(ctx) \/ People(ctx)
      PROVE  Adds(ctx) \/ Drops(ctx) \/ Decides(ctx) \/ Creates(ctx)
  BY <1>1, Registers, Generates, Launches, Deletes, DecidesOne, CreatesOne
     DEF Providers, Datasets, People
<1>2. ASSUME NEW r \in Requests, Slots(r)
      PROVE  \/ Starts(r) \/ Saves(r) \/ Ends(r) \/ PutSample(r)
             \/ SaveProfile(r) \/ PutExport(r) \/ AddExport(r)
  BY <1>2 DEF Slots, Starts, Saves, Ends
<1> QED
  BY <1>1, <1>2 DEF Next, Worker

ArtifactFormats == {"graph_json", "image_manifest", "audio_manifest", "parquet"}

\* A worker's new version: a row, its artifact, and a dataset of the job's tenant.
LEMMA Registered ==
    ASSUME NEW job, VersionRegistered(job)
    PROVE  \E id \in Fresh("dataset_versions"), n \in RowCounts, fmt \in ArtifactFormats :
               /\ GetSpec(job.tenant, job.ds) # {}
               /\ rows' = (rows \ {job}) \cup {VersionRow(job.tenant, id, job.ds, n, fmt)}
               /\ objects' = Put(job.tenant, ArtifactKey(job.ds, id), <<id, fmt>>)
<1>1. PICK id \in Fresh("dataset_versions"), n \in RowCounts, row \in GetSpec(job.tenant, job.ds) :
         LET fmt == CASE row.val = "graph" -> "graph_json"
                      [] row.val = "image" -> "image_manifest"
                      [] row.val = "audio" -> "audio_manifest"
                      [] OTHER -> "parquet"
         IN  /\ rows' = (rows \ {job}) \cup {VersionRow(job.tenant, id, job.ds, n, fmt)}
             /\ objects' = Put(job.tenant, ArtifactKey(job.ds, id), <<id, fmt>>)
  BY DEF VersionRegistered
<1> DEFINE fmt == CASE row.val = "graph" -> "graph_json"
                    [] row.val = "image" -> "image_manifest"
                    [] row.val = "audio" -> "audio_manifest"
                    [] OTHER -> "parquet"
<1>2. fmt \in ArtifactFormats
  BY DEF ArtifactFormats
<1> HIDE DEF fmt
<1>3. /\ rows' = (rows \ {job}) \cup {VersionRow(job.tenant, id, job.ds, n, fmt)}
      /\ objects' = Put(job.tenant, ArtifactKey(job.ds, id), <<id, fmt>>)
  BY <1>1 DEF fmt
<1> QED
  BY <1>1, <1>2, <1>3

Permanent == {"datasets", "dataset_versions", "export_artifacts"}

\* Rows change for one tenant only, ids stay unique, and what others refer to
\* stays.
RowsChange ==
    /\ \A x \in rows \ rows' : x.tenant = actor'.tenant /\ x.tbl \notin Permanent
    /\ \A x \in rows' \ rows : x.tenant = actor'.tenant /\ IsRow(x)
    /\ Unique'
    /\ \A x \in rows : x.tbl = "evaluation_runs" =>
           \E y \in rows' : y.tbl = x.tbl /\ y.id = x.id /\ y.tenant = x.tenant

\* A dataset has one owner.
LEMMA OneOwner ==
    ASSUME Unique, NEW t, NEW u, NEW d, Owns(t, d), Owns(u, d)
    PROVE  t = u
  BY DEF Unique, Owns

\* One new row, with none or one row gone.
LEMMA OneChanged ==
    ASSUME Unique, NEW gone, NEW new, NEW t,
           rows' = (rows \ gone) \cup {new}, gone \subseteq rows,
           \A x \in gone : x.tenant = t /\ x.tbl \notin Permanent,
           IsRow(new), new.tenant = t, actor'.tenant = t,
           \A y \in rows \ gone : y.tbl = new.tbl => y.id # new.id,
           \A x \in gone : x.tbl # "evaluation_runs"
    PROVE  RowsChange
<1>1. Unique'
  BY DEF Unique
<1> QED
  BY <1>1 DEF RowsChange

\* Every step changes the tables of its tenant only.
LEMMA RowsStep ==
    ASSUME GwInv, Next
    PROVE  RowsChange
<1>1. Unique /\ Held /\ Profiles /\ Shaped
  BY DEF GwInv
<1>2. CASE UNCHANGED rows
  BY <1>1, <1>2 DEF RowsChange, Unique
<1>3. ASSUME NEW ctx \in Contexts, Adds(ctx) PROVE RowsChange
  <2>1. actor'.tenant = ctx.tenant
    BY <1>3 DEF Adds, Route, By
  <2>2. Unique'
    BY <1>1, <1>3 DEF Adds, New, Unique
  <2> QED
    BY <1>1, <1>3, <2>1, <2>2 DEF Adds, New, RowsChange
<1>4. ASSUME NEW ctx \in Contexts, Drops(ctx) PROVE RowsChange
  <2>1. actor'.tenant = ctx.tenant
    BY <1>4 DEF Drops, Route, By
  <2> QED
    BY <1>1, <1>4, <2>1 DEF Drops, Registries, Permanent, Unique, RowsChange
<1>5. ASSUME NEW ctx \in Contexts, Decides(ctx) PROVE RowsChange
  <2>1. actor'.tenant = ctx.tenant
    BY <1>5 DEF Decides, Route, By
  <2>2. PICK x \in rows, status \in {"approved", "rejected", "changes_requested"} :
           /\ x.tbl = "review_tasks" /\ x.tenant = ctx.tenant
           /\ rows' = (rows \ {x}) \cup {Row(x.tbl, x.id, x.tenant, x.ds, x.ref, x.ref2, status)}
    BY <1>5 DEF Decides
  <2> DEFINE y == Row(x.tbl, x.id, x.tenant, x.ds, x.ref, x.ref2, status)
  <2>3. IsRow(y) /\ y.tbl = x.tbl /\ y.id = x.id /\ y.tenant = x.tenant
    BY <1>1 DEF Shaped, IsRow, Row
  <2>4. \A z \in rows \ {x} : z.tbl = y.tbl => z.id # y.id
    BY <1>1, <2>3 DEF Unique
  <2>5. x.tbl \notin Permanent /\ x.tbl # "evaluation_runs"
    BY <2>2 DEF Permanent
  <2> HIDE DEF y
  <2> QED
    BY <1>1, <2>1, <2>2, <2>3, <2>4, <2>5, OneChanged DEF y
<1>6. ASSUME NEW ctx \in Contexts, Creates(ctx) PROVE RowsChange
  <2>1. actor'.tenant = ctx.tenant
    BY <1>6 DEF Creates, By
  <2>2. PICK y : New(y, ctx.tenant) /\ rows' = rows \cup {y}
    BY <1>6 DEF Creates
  <2>3. Unique'
    BY <1>1, <2>2 DEF New, Unique
  <2> QED
    BY <1>1, <2>1, <2>2, <2>3 DEF New, RowsChange
<1>7. ASSUME NEW r \in Requests, SaveProfile(r) PROVE RowsChange
  <2> DEFINE q == req[r]
             y == ProfileRow(q.ctx.tenant, q.ds, q.tag, q.name)
             gone == {x \in rows : x.tbl = "dataset_profiles" /\ x.ds = q.ds}
  <2>1. rows' = (rows \ gone) \cup {y} /\ actor'.tenant = q.ctx.tenant /\ q.route = "profile"
    BY <1>7 DEF SaveProfile, By
  <2>2. q.ds \in Ids /\ Owns(q.ctx.tenant, q.ds)
    BY <1>1, <2>1 DEF Held, Idle
  <2>3. \A x \in gone : x.tenant = q.ctx.tenant /\ x.tbl \notin Permanent /\ x.tbl # "evaluation_runs"
    BY <1>1, <2>2, OneOwner DEF Profiles, Permanent
  <2>4. IsRow(y) /\ y.tenant = q.ctx.tenant /\ y.tbl = "dataset_profiles" /\ y.id = q.ds
    BY <2>2 DEF IsRow, ProfileRow, Row
  <2>5. \A z \in rows \ gone : z.tbl = y.tbl => z.id # y.id
    BY <1>1, <2>4 DEF Profiles
  <2> HIDE DEF q, y
  <2> QED
    BY <1>1, <2>1, <2>3, <2>4, <2>5, OneChanged
<1>8. ASSUME NEW r \in Requests, AddExport(r) PROVE RowsChange
  <2> DEFINE q == req[r]
  <2>1. PICK id \in Fresh("export_artifacts") : Insert(ExportRow(q.ctx.tenant, id, q.ds, q.ver, q.name))
    BY <1>8 DEF AddExport
  <2> DEFINE y == ExportRow(q.ctx.tenant, id, q.ds, q.ver, q.name)
  <2>2. IsRow(y) /\ y.tenant = q.ctx.tenant /\ y.tbl = "export_artifacts" /\ y.id = id
    BY FreshIs DEF IsRow, ExportRow, Row
  <2>3. actor'.tenant = q.ctx.tenant
    BY <1>8 DEF AddExport, By
  <2>4. rows' = rows \cup {y}
    BY <2>1 DEF Insert
  <2>5. \A z \in rows : z.tbl = y.tbl => z.id # y.id
    BY <2>2, FreshIs
  <2> HIDE DEF q, y
  <2>6. Unique'
    BY <1>1, <2>4, <2>5 DEF Unique
  <2> QED
    BY <1>1, <2>2, <2>3, <2>4, <2>6 DEF RowsChange
<1>9. ASSUME NEW job \in rows, job.tbl = "generation_jobs", VersionRegistered(job) PROVE RowsChange
  <2>1. PICK id \in Fresh("dataset_versions"), n \in RowCounts, fmt \in ArtifactFormats :
           /\ GetSpec(job.tenant, job.ds) # {}
           /\ rows' = (rows \ {job}) \cup {VersionRow(job.tenant, id, job.ds, n, fmt)}
           /\ objects' = Put(job.tenant, ArtifactKey(job.ds, id), <<id, fmt>>)
    BY <1>9, Registered
  <2> DEFINE y == VersionRow(job.tenant, id, job.ds, n, fmt)
  <2>2. IsRow(y) /\ y.tenant = job.tenant /\ y.tbl = "dataset_versions" /\ y.id = id
    BY FreshIs DEF IsRow, VersionRow, Row
  <2>3. actor'.tenant = job.tenant
    BY <1>9 DEF VersionRegistered
  <2>4. job.tbl \notin Permanent /\ job.tbl # "evaluation_runs"
    BY <1>9 DEF Permanent
  <2>5. \A z \in rows : z.tbl = y.tbl => z.id # y.id
    BY <2>2, FreshIs
  <2> HIDE DEF y
  <2>6. rows' = (rows \ {job}) \cup {y}
    BY <2>1 DEF y
  <2>7. Unique'
    BY <1>1, <2>5, <2>6 DEF Unique
  <2> QED
    BY <1>1, <2>2, <2>3, <2>4, <2>6, <2>7 DEF RowsChange
<1>10. ASSUME NEW run \in rows, run.tbl = "evaluation_runs", ReportWritten(run) PROVE RowsChange
  <2> DEFINE y == [run EXCEPT !.val = "reported"]
  <2>1. PICK id \in Fresh("evaluation_expert_results") :
           rows' = (rows \ {run}) \cup
               {y, Row("evaluation_expert_results", id, run.tenant, None, run.id, None, "score")}
    BY <1>10 DEF ReportWritten
  <2> DEFINE z == Row("evaluation_expert_results", id, run.tenant, None, run.id, None, "score")
  <2>2. run = [tbl |-> run.tbl, id |-> run.id, tenant |-> run.tenant, ds |-> run.ds,
               ref |-> run.ref, ref2 |-> run.ref2, val |-> run.val] /\ run.id \in Ids
    BY <1>1 DEF Shaped, IsRow, Row
  <2>3. y.id = run.id /\ y.tbl = run.tbl /\ y.tenant = run.tenant /\ IsRow(y)
    BY <2>2 DEF IsRow, Row
  <2>4. /\ z.id = id /\ z.tbl = "evaluation_expert_results" /\ z.tenant = run.tenant /\ IsRow(z)
        /\ \A x \in rows : x.tbl = z.tbl => x.id # z.id
    BY FreshIs DEF IsRow, Row
  <2>5. actor'.tenant = run.tenant
    BY <1>10 DEF ReportWritten
  <2> HIDE DEF y, z
  <2>6. rows' = (rows \ {run}) \cup {y, z}
    BY <2>1 DEF z
  <2>7. Unique'
    BY <1>1, <1>10, <2>3, <2>4, <2>6 DEF Unique
  <2>8. run.tbl \notin Permanent
    BY <1>10 DEF Permanent
  <2> QED
    BY <1>1, <2>3, <2>4, <2>5, <2>6, <2>7, <2>8 DEF RowsChange
<1> QED
  BY <1>2, <1>3, <1>4, <1>5, <1>6, <1>7, <1>8, <1>9, <1>10, StepCases
     DEF Starts, UpdateDataset, UploadSample, ExportVersion, Saves, SaveUpdate, SaveFields, Ends,
         ProfileFails, RequestLost, PutSample, PutExport

-----------------------------------------------------------------------------
(* Objects and dataset columns.                                            *)

\* Objects change for one tenant only, and no key is given up.
ObjectsChange ==
    /\ \A o \in (objects \ objects') \cup (objects' \ objects) : o.tenant = actor'.tenant
    /\ \A o \in objects : Stored(o.tenant, o.key)'
    /\ \A o \in objects' : IsObject(o)

\* A put by the acting tenant.
LEMMA OnePut ==
    ASSUME \A o \in objects : IsObject(o), NEW t, NEW key, NEW data, objects' = Put(t, key, data),
           key = <<key[1], key[2], key[3], key[4]>>, actor'.tenant = t
    PROVE  ObjectsChange
<1> DEFINE new == [tenant |-> t, key |-> key, data |-> data]
<1>1. IsObject(new) /\ new.tenant = t /\ new.key = key
  BY DEF IsObject
<1>2. objects' = {o \in objects : ~(o.tenant = t /\ o.key = key)} \cup {new}
  BY DEF Put
<1> HIDE DEF new
<1> QED
  BY <1>1, <1>2 DEF ObjectsChange, Stored

\* Every step changes the objects of its tenant only.
LEMMA ObjectsStep ==
    ASSUME GwInv, Next
    PROVE  ObjectsChange
<1>1. Shaped /\ \A o \in objects : IsObject(o)
  BY DEF GwInv, Shaped
<1>2. CASE UNCHANGED objects
  BY <1>1, <1>2 DEF ObjectsChange, Stored
<1>3. ASSUME NEW r \in Requests, PutSample(r) PROVE ObjectsChange
  <2> DEFINE q == req[r]
  <2>1. /\ objects' = Put(q.ctx.tenant, SampleKey(q.ds, q.name), <<q.tag, "sample">>)
        /\ actor'.tenant = q.ctx.tenant
    BY <1>3 DEF PutSample, By
  <2> HIDE DEF q
  <2> QED
    BY <1>1, <2>1, OnePut DEF SampleKey
<1>4. ASSUME NEW r \in Requests, PutExport(r) PROVE ObjectsChange
  <2> DEFINE q == req[r]
  <2>1. PICK v \in rows, a \in objects :
           objects' = Put(q.ctx.tenant, ExportKey(q.ds, q.ver, ExtensionOf(v, q.name)),
                          Transcode(a.data, q.name))
    BY <1>4 DEF PutExport, GetVersion, GetObject, Session
  <2>2. actor'.tenant = q.ctx.tenant
    BY <1>4 DEF PutExport, By
  <2> DEFINE ext == ExtensionOf(v, q.name)
             data == Transcode(a.data, q.name)
  <2> HIDE DEF q, ext, data
  <2> QED
    BY <1>1, <2>1, <2>2, OnePut DEF ExportKey, ext, data
<1>5. ASSUME NEW job \in rows, VersionRegistered(job) PROVE ObjectsChange
  <2>1. PICK id, fmt : objects' = Put(job.tenant, ArtifactKey(job.ds, id), <<id, fmt>>)
    BY <1>5, Registered
  <2>2. actor'.tenant = job.tenant
    BY <1>5 DEF VersionRegistered
  <2> QED
    BY <1>1, <2>1, <2>2, OnePut DEF ArtifactKey
<1>6. ASSUME NEW run \in rows, ReportWritten(run) PROVE ObjectsChange
  <2>1. objects' = objects \cup
           {[tenant |-> run.tenant, key |-> ReportKey(run.id, f), data |-> <<run.id, f>>] :
               f \in {"json", "html"}}
    BY <1>6 DEF ReportWritten
  <2>2. actor'.tenant = run.tenant
    BY <1>6 DEF ReportWritten
  <2>3. \A o \in objects' \ objects : o.tenant = run.tenant /\ IsObject(o)
    BY <2>1 DEF IsObject, ReportKey
  <2> QED
    BY <1>1, <2>1, <2>2, <2>3 DEF ObjectsChange, Stored
<1> QED
  BY <1>2, <1>3, <1>4, <1>5, <1>6, StepCases
     DEF Adds, Drops, Decides, Creates, Route, TableStep, Starts, UpdateDataset, UploadSample,
         ExportVersion, Saves, SaveUpdate, SaveFields, Ends, ProfileFails, RequestLost,
         SaveProfile, AddExport

\* Saving a dataset row: the columns of one dataset of one tenant, and a new revision.
LEMMA Updates ==
    ASSUME Shaped, NEW t, NEW d \in Ids, NEW columns \in [Columns -> Nat], Owns(t, d),
           UpdateSpec(t, d, columns)
    PROVE  /\ spec' \in [Ids -> [Columns -> Nat]] /\ rev' \in [Ids -> Nat]
           /\ spec'[d] = columns /\ rev'[d] = rev[d] + 1
           /\ \A i \in Ids \ {d} : spec'[i] = spec[i] /\ rev'[i] = rev[i]
<1>1. GetSpec(t, d) # {}
  BY Sees DEF Owns, GetSpec
<1>2. spec' = [i \in Ids |-> IF i = d THEN columns ELSE spec[i]]
  BY <1>1 DEF UpdateSpec
<1>3. rev' = [rev EXCEPT ![d] = @ + 1]
  BY DEF UpdateSpec
<1> QED
  BY <1>2, <1>3 DEF Shaped

\* What a slot saves has the columns of a row.
LEMMA MergedTyped ==
    ASSUME NEW q, IsSlot(q)
    PROVE  /\ Merged(q) \in [Columns -> Nat]
           /\ \A c \in Columns : Merged(q)[c] = IF c \in q.asked THEN q.tag ELSE q.copy[c]
  BY DEF IsSlot, Merged

\* What SaveUpdate and SaveFields do.
LEMMA SavesOne ==
    ASSUME GwInv, NEW r \in Requests, Saves(r)
    PROVE  LET q == req[r] IN
           /\ q.route \in Editing /\ q # Idle /\ q.ds \in Ids /\ Owns(q.ctx.tenant, q.ds)
           /\ spec' \in [Ids -> [Columns -> Nat]] /\ rev' \in [Ids -> Nat]
           /\ spec'[q.ds] = Merged(q) /\ rev'[q.ds] = rev[q.ds] + 1
           /\ \A i \in Ids \ {q.ds} : spec'[i] = spec[i] /\ rev'[i] = rev[i]
           /\ req' = [req EXCEPT ![r] = Idle]
           /\ actor' = [tenant |-> q.ctx.tenant, roles |-> q.ctx.roles, slot |-> q]
           /\ UNCHANGED <<rows, objects, rls, served, raced>>
<1> DEFINE q == req[r]
<1>1. /\ q.route \in {"update", "fields"} /\ UpdateSpec(q.ctx.tenant, q.ds, Merged(q))
      /\ req' = [req EXCEPT ![r] = Idle]
      /\ actor' = [tenant |-> q.ctx.tenant, roles |-> q.ctx.roles, slot |-> q]
      /\ UNCHANGED <<rows, objects, rls, served, raced>>
  BY DEF Saves, SaveUpdate, SaveFields, By
<1>2. q.route \in Editing /\ q # Idle
  BY <1>1 DEF Editing, Uploads, Idle
<1>3. q.ds \in Ids /\ Owns(q.ctx.tenant, q.ds) /\ IsSlot(q) /\ Shaped
  BY <1>2 DEF GwInv, Held, Shaped
<1>4. Merged(q) \in [Columns -> Nat]
  BY <1>3, MergedTyped
<1> HIDE DEF q
<1>5. /\ spec' \in [Ids -> [Columns -> Nat]] /\ rev' \in [Ids -> Nat]
      /\ spec'[q.ds] = Merged(q) /\ rev'[q.ds] = rev[q.ds] + 1
      /\ \A i \in Ids \ {q.ds} : spec'[i] = spec[i] /\ rev'[i] = rev[i]
  BY <1>1, <1>3, <1>4, Updates
<1> QED
  BY <1>1, <1>2, <1>3, <1>5 DEF q

\* A dataset's columns change with its creation or by a save of its owner.
LEMMA SpecStep ==
    ASSUME GwInv, Next, NEW d \in Ids, spec'[d] # spec[d]
    PROVE  Owns(actor.tenant, d)'
<1>1. ASSUME NEW ctx \in Contexts, Creates(ctx) PROVE Owns(actor.tenant, d)'
  <2>1. actor'.tenant = ctx.tenant /\ spec \in [Ids -> [Columns -> Nat]]
    BY <1>1 DEF Creates, By, GwInv, Shaped
  <2>2. PICK id \in Ids, columns \in [Columns -> Nat], source \in {"graph", "sample",
               "description", "audio", "image", "template"} :
             /\ rows' = rows \cup {SpecRow(ctx.tenant, id, source)}
             /\ spec' = [spec EXCEPT ![id] = columns]
    BY <1>1 DEF Creates
  <2>3. d = id
    BY <2>1, <2>2
  <2>4. SpecRow(ctx.tenant, id, source) \in rows'
    BY <2>2
  <2> QED
    BY <2>1, <2>3, <2>4 DEF Owns, SpecRow, Row
<1>2. ASSUME NEW r \in Requests, Saves(r) PROVE Owns(actor.tenant, d)'
  <2>1. d = req[r].ds /\ actor'.tenant = req[r].ctx.tenant /\ Owns(actor'.tenant, d) /\ UNCHANGED rows
    BY <1>2, SavesOne
  <2> QED
    BY <2>1 DEF Owns
<1> QED
  BY <1>1, <1>2, StepCases
     DEF Adds, Drops, Decides, Route, TableStep, Starts, UpdateDataset, UploadSample,
         ExportVersion, Ends, ProfileFails, RequestLost, PutSample, SaveProfile, PutExport,
         AddExport, VersionRegistered, ReportWritten

-----------------------------------------------------------------------------
(* The request slots.                                                      *)

\* What only grows.
LEMMA Grows ==
    ASSUME GwInv, Next
    PROVE  /\ \A t, d : Owns(t, d) => Owns(t, d)'
           /\ \A r, v : VersionOf(r, v) => VersionOf(r, v)'
           /\ served' \in Nat /\ served <= served'
           /\ raced \subseteq raced'
<1>1. \A x \in rows : x.tbl \in Permanent => x \in rows'
  BY RowsStep DEF RowsChange
<1>2. \A t, d : Owns(t, d) => Owns(t, d)'
  BY <1>1 DEF Owns, Permanent
<1>3. \A r, v : VersionOf(r, v) => VersionOf(r, v)'
  BY <1>1 DEF VersionOf, Permanent
<1>4. served' \in {served, served + 1} /\ raced \subseteq raced'
  <2>1. ASSUME NEW ctx \in Contexts, Adds(ctx) \/ Drops(ctx) \/ Decides(ctx) \/ Creates(ctx)
        PROVE  served' \in {served, served + 1} /\ raced \subseteq raced'
    BY <2>1 DEF Adds, Drops, Decides, Creates, Route, TableStep
  <2>2. ASSUME NEW r \in Requests, Starts(r) \/ Saves(r)
        PROVE  served' \in {served, served + 1} /\ raced \subseteq raced'
    BY <2>2 DEF Starts, Route, UpdateDataset, UploadSample, ExportVersion, Accept, Saves,
                SaveUpdate, SaveFields
  <2>3. ASSUME NEW r \in Requests,
               \/ Ends(r) \/ PutSample(r) \/ SaveProfile(r) \/ PutExport(r) \/ AddExport(r)
        PROVE  served' \in {served, served + 1} /\ raced \subseteq raced'
    BY <2>3 DEF Ends, ProfileFails, RequestLost, PutSample, SaveProfile, PutExport, AddExport
  <2>4. ASSUME NEW x \in rows, VersionRegistered(x) \/ ReportWritten(x)
        PROVE  served' \in {served, served + 1} /\ raced \subseteq raced'
    BY <2>4 DEF VersionRegistered, ReportWritten
  <2> QED
    BY <2>1, <2>2, <2>3, <2>4, StepCases
<1> QED
  BY <1>2, <1>3, <1>4 DEF GwInv, Shaped

\* A request that takes a slot: what it has read and looked up.
LEMMA StartsOne ==
    ASSUME GwInv, NEW r \in Requests, Starts(r)
    PROVE  LET q == req'[r] IN
           /\ req[r] = Idle /\ req' = [req EXCEPT ![r] = q] /\ IsSlot(q) /\ q # Idle
           /\ UNCHANGED <<rows, objects, rls, spec, rev>> /\ served' = served + 1
           /\ q.ctx \in Contexts /\ q.ds \in Ids /\ Owns(q.ctx.tenant, q.ds) /\ q.tag = served + 1
           /\ actor' = [tenant |-> q.ctx.tenant, roles |-> q.ctx.roles, slot |-> q]
           /\ \/ /\ q.route \in {"update", "upload"}
                 /\ Permitted(q.ctx, "datasets", "write")
                 /\ q.copy = spec[q.ds] /\ q.rev = rev[q.ds]
                 /\ raced' = IF Busy(q.ds, IF q.route = "update" THEN Uploads ELSE Editing)
                             THEN raced \cup {q.ds} ELSE raced
              \/ /\ q.route = "export" /\ raced' = raced
                 /\ \E v \in rows : /\ v.tbl = "dataset_versions" /\ v.id = q.ver
                                    /\ v.ds = q.ds /\ v.tenant = q.ctx.tenant
                                    /\ Formatted(v, q.name)
<1>1. PICK ctx \in Contexts : UpdateDataset(r, ctx) \/ UploadSample(r, ctx) \/ ExportVersion(r, ctx)
  BY DEF Starts
<1>2. /\ spec \in [Ids -> [Columns -> Nat]] /\ rev \in [Ids -> Nat] /\ served \in Nat
      /\ req = [s \in Requests |-> req[s]]
  BY DEF GwInv, Shaped
<1>3. CASE UpdateDataset(r, ctx)
  <2>1. PICK d \in Ids, asked \in Edits :
           /\ GetSpec(ctx.tenant, d) # {}
           /\ req' = [req EXCEPT ![r] = [Idle EXCEPT
                  !.route = "update", !.ctx = ctx, !.ds = d, !.tag = served + 1,
                  !.copy = spec[d], !.rev = rev[d], !.asked = asked]]
           /\ raced' = IF Busy(d, Uploads) THEN raced \cup {d} ELSE raced
    BY <1>3 DEF UpdateDataset
  <2>2. req'[r] = [route |-> "update", ctx |-> ctx, ds |-> d, ver |-> None, tag |-> served + 1,
                   copy |-> spec[d], rev |-> rev[d], asked |-> asked, name |-> "none"]
    BY <1>2, <2>1 DEF Idle
  <2>3. Owns(ctx.tenant, d)
    BY <2>1, SpecFound
  <2>4. /\ req[r] = Idle /\ UNCHANGED <<rows, objects, rls, spec, rev>> /\ served' = served + 1
        /\ actor' = [tenant |-> ctx.tenant, roles |-> ctx.roles, slot |-> req'[r]]
        /\ Permitted(ctx, "datasets", "write")
    BY <1>3 DEF UpdateDataset, Accept, By
  <2>5. IsSlot(req'[r]) /\ req'[r] # Idle
    BY <1>2, <2>2 DEF IsSlot, Idle
  <2>6. req' = [req EXCEPT ![r] = req'[r]]
    BY <1>2, <2>1
  <2> QED
    BY <2>1, <2>2, <2>3, <2>4, <2>5, <2>6
<1>4. CASE UploadSample(r, ctx)
  <2>1. PICK d \in Ids, name \in {"s.csv", "s.txt"} :
           /\ GetSpec(ctx.tenant, d) # {}
           /\ req' = [req EXCEPT ![r] = [Idle EXCEPT
                  !.route = "upload", !.ctx = ctx, !.ds = d, !.tag = served + 1,
                  !.copy = spec[d], !.rev = rev[d], !.name = name]]
           /\ raced' = IF Busy(d, Uploads \cup {"update"}) THEN raced \cup {d} ELSE raced
    BY <1>4 DEF UploadSample
  <2>2. req'[r] = [route |-> "upload", ctx |-> ctx, ds |-> d, ver |-> None, tag |-> served + 1,
                   copy |-> spec[d], rev |-> rev[d], asked |-> {}, name |-> name]
    BY <1>2, <2>1 DEF Idle
  <2>3. Owns(ctx.tenant, d)
    BY <2>1, SpecFound
  <2>4. /\ req[r] = Idle /\ UNCHANGED <<rows, objects, rls, spec, rev>> /\ served' = served + 1
        /\ actor' = [tenant |-> ctx.tenant, roles |-> ctx.roles, slot |-> req'[r]]
        /\ Permitted(ctx, "datasets", "write")
    BY <1>4 DEF UploadSample, Accept, By
  <2>5. IsSlot(req'[r]) /\ req'[r] # Idle
    BY <1>2, <2>2 DEF IsSlot, Idle
  <2>6. req' = [req EXCEPT ![r] = req'[r]]
    BY <1>2, <2>1
  <2> QED
    BY <2>1, <2>2, <2>3, <2>4, <2>5, <2>6 DEF Editing
<1>5. CASE ExportVersion(r, ctx)
  <2>0. PICK d \in Ids, requested \in ReqFormats : \E v \in ListVersions(ctx.tenant, d) :
           /\ ExportAs(v, requested) # "refused"
           /\ req' = [req EXCEPT ![r] = [Idle EXCEPT
                  !.route = "export", !.ctx = ctx, !.ds = d, !.ver = v.id, !.tag = served + 1,
                  !.name = ExportAs(v, requested)]]
    BY <1>5 DEF ExportVersion
  <2>1. PICK v \in ListVersions(ctx.tenant, d) :
           /\ ExportAs(v, requested) # "refused"
           /\ req' = [req EXCEPT ![r] = [Idle EXCEPT
                  !.route = "export", !.ctx = ctx, !.ds = d, !.ver = v.id, !.tag = served + 1,
                  !.name = ExportAs(v, requested)]]
    BY <2>0
  <2> DEFINE f == ExportAs(v, requested)
  <2>2. Formatted(v, f)
    BY <2>1 DEF Formatted, ExportAs
  <2> HIDE DEF f
  <2>3. req'[r] = [route |-> "export", ctx |-> ctx, ds |-> d, ver |-> v.id, tag |-> served + 1,
                   copy |-> [c \in Columns |-> 0], rev |-> 0, asked |-> {}, name |-> f]
    BY <1>2, <2>1 DEF Idle, f
  <2>4. v \in rows /\ v.tbl = "dataset_versions" /\ v.ds = d /\ v.tenant = ctx.tenant
    BY Sees DEF ListVersions
  <2>5. Owns(ctx.tenant, d)
    BY <2>4 DEF GwInv, ReferencesResolve, Owns
  <2>6. /\ req[r] = Idle /\ UNCHANGED <<rows, objects, rls, spec, rev, raced>>
        /\ served' = served + 1
        /\ actor' = [tenant |-> ctx.tenant, roles |-> ctx.roles, slot |-> req'[r]]
    BY <1>5 DEF ExportVersion, Accept, By
  <2>7. IsSlot(req'[r]) /\ req'[r] # Idle
    BY <1>2, <2>3 DEF IsSlot, Idle
  <2>8. req' = [req EXCEPT ![r] = req'[r]]
    BY <1>2, <2>1
  <2> QED
    BY <2>2, <2>3, <2>4, <2>5, <2>6, <2>7, <2>8
<1> QED
  BY <1>1, <1>3, <1>4, <1>5

SameWork(q, p) ==
    /\ p.ctx = q.ctx /\ p.ds = q.ds /\ p.ver = q.ver /\ p.tag = q.tag
    /\ p.copy = q.copy /\ p.rev = q.rev /\ p.name = q.name

Moves(r) == PutSample(r) \/ SaveProfile(r) \/ PutExport(r)

\* A slot that moves on keeps what it works on.
LEMMA MovesOne ==
    ASSUME GwInv, NEW r \in Requests, Moves(r)
    PROVE  LET q == req'[r] IN
           /\ req' = [req EXCEPT ![r] = q] /\ IsSlot(q) /\ q # Idle /\ req[r] # Idle
           /\ SameWork(req[r], q)
           /\ UNCHANGED <<rls, spec, served, rev, raced>>
           /\ actor' = [tenant |-> q.ctx.tenant, roles |-> q.ctx.roles, slot |-> req[r]]
           /\ \/ PutSample(r) /\ req[r].route = "upload" /\ q.route = "profile"
              \/ /\ SaveProfile(r) /\ req[r].route = "profile" /\ q.route = "fields"
                 /\ "fields" \in q.asked
              \/ PutExport(r) /\ req[r].route = "export" /\ q.route = "record"
<1>1. req = [s \in Requests |-> req[s]] /\ IsSlot(req[r])
  BY DEF GwInv, Shaped
<1>2. req[r] = [route |-> req[r].route, ctx |-> req[r].ctx, ds |-> req[r].ds, ver |-> req[r].ver,
                tag |-> req[r].tag, copy |-> req[r].copy, rev |-> req[r].rev,
                asked |-> req[r].asked, name |-> req[r].name]
  BY <1>1 DEF IsSlot
<1>3. ASSUME NEW route, NEW asked, route # "none",
             req' = [req EXCEPT ![r].route = route, ![r].asked = asked]
      PROVE  /\ req' = [req EXCEPT ![r] = req'[r]] /\ IsSlot(req'[r]) /\ req'[r] # Idle
             /\ SameWork(req[r], req'[r]) /\ req'[r].route = route /\ req'[r].asked = asked
  <2>1. req'[r] = [route |-> route, ctx |-> req[r].ctx, ds |-> req[r].ds, ver |-> req[r].ver,
                   tag |-> req[r].tag, copy |-> req[r].copy, rev |-> req[r].rev,
                   asked |-> asked, name |-> req[r].name]
    BY <1>1, <1>2, <1>3
  <2>2. req' = [req EXCEPT ![r] = req'[r]]
    BY <1>1, <1>3
  <2> QED
    BY <1>1, <1>3, <2>1, <2>2 DEF IsSlot, SameWork, Idle
<1>4. ASSUME NEW route, route # "none", req' = [req EXCEPT ![r].route = route]
      PROVE  req' = [req EXCEPT ![r].route = route, ![r].asked = req[r].asked]
  BY <1>1, <1>2, <1>4
<1>5. CASE PutSample(r)
  <2>1. req' = [req EXCEPT ![r].route = "profile"] /\ req[r].route = "upload"
    BY <1>5 DEF PutSample
  <2>2. UNCHANGED <<rls, spec, served, rev, raced>>
    BY <1>5 DEF PutSample
  <2>3. actor' = [tenant |-> req[r].ctx.tenant, roles |-> req[r].ctx.roles, slot |-> req[r]]
    BY <1>5 DEF PutSample, By
  <2>4. req' = [req EXCEPT ![r].route = "profile", ![r].asked = req[r].asked]
    BY <1>4, <2>1
  <2>5. req[r] # Idle
    BY <2>1 DEF Idle
  <2> QED
    BY <1>3, <1>5, <2>1, <2>2, <2>3, <2>4, <2>5 DEF SameWork
<1>6. CASE PutExport(r)
  <2>1. req' = [req EXCEPT ![r].route = "record"] /\ req[r].route = "export"
    BY <1>6 DEF PutExport
  <2>2. UNCHANGED <<rls, spec, served, rev, raced>>
    BY <1>6 DEF PutExport
  <2>3. actor' = [tenant |-> req[r].ctx.tenant, roles |-> req[r].ctx.roles, slot |-> req[r]]
    BY <1>6 DEF PutExport, By
  <2>4. req' = [req EXCEPT ![r].route = "record", ![r].asked = req[r].asked]
    BY <1>4, <2>1
  <2>5. req[r] # Idle
    BY <2>1 DEF Idle
  <2> QED
    BY <1>3, <1>6, <2>1, <2>2, <2>3, <2>4, <2>5 DEF SameWork
<1>7. CASE SaveProfile(r)
  <2> DEFINE asked == {"fields"} \cup {c \in {"target_rows"} : req[r].copy[c] = 0}
  <2>1. /\ req' = [req EXCEPT ![r].route = "fields", ![r].asked = asked]
        /\ req[r].route = "profile"
    BY <1>7 DEF SaveProfile
  <2>2. UNCHANGED <<rls, spec, served, rev, raced>>
    BY <1>7 DEF SaveProfile
  <2>3. actor' = [tenant |-> req[r].ctx.tenant, roles |-> req[r].ctx.roles, slot |-> req[r]]
    BY <1>7 DEF SaveProfile, By
  <2>4. req[r] # Idle /\ "fields" \in asked
    BY <2>1 DEF Idle
  <2> HIDE DEF asked
  <2>5. /\ req' = [req EXCEPT ![r] = req'[r]] /\ IsSlot(req'[r]) /\ req'[r] # Idle
        /\ SameWork(req[r], req'[r]) /\ req'[r].route = "fields" /\ req'[r].asked = asked
    BY <1>3, <2>1
  <2> QED
    BY <1>7, <2>1, <2>2, <2>3, <2>4, <2>5 DEF SameWork
<1> QED
  BY <1>5, <1>6, <1>7 DEF Moves

\* A step changes at most one slot: it is taken, moves on or is given back.
SlotsChange ==
    /\ req' = [r \in Requests |-> req'[r]]
    /\ \A r \in Requests : req'[r] = req[r] \/ req'[r] = Idle \/ Starts(r) \/ Moves(r)
    /\ \A r, s \in Requests : req'[r] # req[r] /\ req'[s] # req[s] => r = s

\* Every step is one of these for the slots.
LEMMA SlotsStep ==
    ASSUME GwInv, Next
    PROVE  SlotsChange
<1>1. req = [r \in Requests |-> req[r]]
  BY DEF GwInv, Shaped
<1>2. CASE UNCHANGED req
  BY <1>1, <1>2 DEF SlotsChange
<1>3. ASSUME NEW r \in Requests, NEW q, req' = [req EXCEPT ![r] = q],
             q = Idle \/ Starts(r) \/ Moves(r)
      PROVE  SlotsChange
  <2>1. req' = [s \in Requests |-> req'[s]] /\ req'[r] = q
        /\ \A s \in Requests \ {r} : req'[s] = req[s]
    BY <1>1, <1>3
  <2> QED
    BY <1>3, <2>1 DEF SlotsChange
<1>4. ASSUME NEW r \in Requests, Starts(r) \/ Moves(r) PROVE SlotsChange
  BY <1>3, <1>4, StartsOne, MovesOne
<1>5. ASSUME NEW r \in Requests, Saves(r) \/ Ends(r) \/ AddExport(r) PROVE SlotsChange
  BY <1>3, <1>5 DEF Saves, SaveUpdate, SaveFields, Ends, ProfileFails, RequestLost, AddExport
<1> QED
  BY <1>2, <1>4, <1>5, StepCases
     DEF Moves, Adds, Drops, Decides, Creates, Route, TableStep, VersionRegistered, ReportWritten

\* A revision counts the saves of an existing dataset.
LEMMA RevStep ==
    ASSUME GwInv, Next
    PROVE  /\ spec' \in [Ids -> [Columns -> Nat]] /\ rev' \in [Ids -> Nat]
           /\ \A t, d : d \in Ids /\ Owns(t, d) =>
                  \/ spec'[d] = spec[d] /\ rev'[d] = rev[d]
                  \/ rev'[d] = rev[d] + 1
<1>1. spec \in [Ids -> [Columns -> Nat]] /\ rev \in [Ids -> Nat]
  BY DEF GwInv, Shaped
<1>2. CASE UNCHANGED <<spec, rev>>
  BY <1>1, <1>2
<1>3. ASSUME NEW ctx \in Contexts, Creates(ctx)
      PROVE  /\ spec' \in [Ids -> [Columns -> Nat]] /\ UNCHANGED rev
             /\ \A t, d : d \in Ids /\ Owns(t, d) => spec'[d] = spec[d]
  <2>1. PICK id \in Ids, columns \in [Columns -> Nat], source \in {"graph", "sample",
               "description", "audio", "image", "template"} :
             /\ New(SpecRow(ctx.tenant, id, source), ctx.tenant)
             /\ spec' = [spec EXCEPT ![id] = columns]
    BY <1>3 DEF Creates
  <2>2. \A x \in rows : x.tbl = "datasets" => x.id # id
    BY <2>1 DEF New, SpecRow, Row
  <2> QED
    BY <1>1, <1>3, <2>1, <2>2 DEF Creates, Owns
<1>4. ASSUME NEW r \in Requests, Saves(r)
      PROVE  /\ spec' \in [Ids -> [Columns -> Nat]] /\ rev' \in [Ids -> Nat]
             /\ \A d \in Ids : \/ spec'[d] = spec[d] /\ rev'[d] = rev[d]
                               \/ rev'[d] = rev[d] + 1
  BY <1>4, SavesOne
<1>5. ASSUME NEW ctx \in Contexts, Adds(ctx) \/ Drops(ctx) \/ Decides(ctx)
      PROVE  UNCHANGED <<spec, rev>>
  BY <1>5 DEF Adds, Drops, Decides, Route, TableStep
<1>6. ASSUME NEW r \in Requests,
             \/ Starts(r) \/ Ends(r) \/ PutSample(r) \/ SaveProfile(r) \/ PutExport(r)
             \/ AddExport(r)
      PROVE  UNCHANGED <<spec, rev>>
  BY <1>6 DEF Starts, Route, UpdateDataset, UploadSample, ExportVersion, Ends, ProfileFails,
              RequestLost, PutSample, SaveProfile, PutExport, AddExport
<1>7. ASSUME NEW x \in rows, VersionRegistered(x) \/ ReportWritten(x)
      PROVE  UNCHANGED <<spec, rev>>
  BY <1>7 DEF VersionRegistered, ReportWritten
<1> QED
  BY <1>1, <1>2, <1>3, <1>4, <1>5, <1>6, <1>7, StepCases

\* Shapes are kept.
LEMMA ShapedStep ==
    ASSUME GwInv, Next
    PROVE  Shaped'
<1>1. \A x \in rows' : IsRow(x)
  BY RowsStep DEF RowsChange, GwInv, Shaped
<1>2. \A o \in objects' : IsObject(o)
  BY ObjectsStep DEF ObjectsChange
<1>3. \A r \in Requests : IsSlot(req'[r])
  <2>1. IsSlot(Idle)
    BY DEF Idle, IsSlot
  <2> QED
    BY <2>1, SlotsStep, StartsOne, MovesOne DEF SlotsChange, GwInv, Shaped
<1> QED
  BY <1>1, <1>2, <1>3, SlotsStep, RevStep, Grows DEF Shaped, SlotsChange

\* A slot keeps its caller's right to the dataset.
LEMMA HeldStep ==
    ASSUME GwInv, Next
    PROVE  Held'
<1> SUFFICES ASSUME NEW r \in Requests, req'[r] # Idle
             PROVE  /\ req'[r].route \in Editing \cup Exporting
                    /\ req'[r].ds \in Ids /\ Owns(req[r].ctx.tenant, req[r].ds)'
                    /\ req'[r].tag <= served'
                    /\ req'[r].route \in Editing => Permitted(req'[r].ctx, "datasets", "write")
                    /\ req'[r].ctx.roles \subseteq Role
  BY DEF Held, Permitted
<1>1. Held /\ IsSlot(req[r]) /\ served \in Nat
  BY DEF GwInv, Shaped
<1>2. CASE req'[r] = req[r]
  BY <1>1, <1>2, Grows DEF Held, IsSlot, Owns
<1>3. CASE Starts(r)
  BY <1>1, <1>3, StartsOne, Grows, KnownRoles DEF Editing, Exporting, Uploads, Owns
<1>4. CASE Moves(r)
  <2>1. /\ SameWork(req[r], req'[r]) /\ req[r] # Idle /\ UNCHANGED served
        /\ req[r].route \in {"upload", "profile", "export"}
        /\ req'[r].route \in {"profile", "fields", "record"}
        /\ req'[r].route # "record" => req[r].route \in {"upload", "profile"}
    BY <1>4, MovesOne
  <2> QED
    BY <1>1, <2>1, Grows DEF SameWork, Held, Editing, Exporting, Uploads, Owns
<1> QED
  BY <1>2, <1>3, <1>4, SlotsStep DEF SlotsChange

\* A copy gets stale only with a new revision.
LEMMA CopiesStep ==
    ASSUME GwInv, Next
    PROVE  Copies'
<1> SUFFICES ASSUME NEW r \in Requests, req'[r].route \in Editing
             PROVE  /\ req'[r].rev <= rev'[req'[r].ds]
                    /\ req'[r].rev = rev'[req'[r].ds] => req'[r].copy = spec'[req'[r].ds]
  BY DEF Copies
<1>1. /\ Held /\ Copies /\ IsSlot(req[r]) /\ rev \in [Ids -> Nat]
      /\ req[r].rev \in Nat
  BY DEF GwInv, Shaped, IsSlot
<1>2. Idle.route \notin Editing
  BY DEF Idle, Editing, Uploads
<1>3. ASSUME req[r].route \in Editing, SameWork(req[r], req'[r])
      PROVE  /\ req'[r].rev <= rev'[req'[r].ds]
             /\ req'[r].rev = rev'[req'[r].ds] => req'[r].copy = spec'[req'[r].ds]
  <2>1. /\ req[r].ds \in Ids /\ Owns(req[r].ctx.tenant, req[r].ds)
        /\ req[r].rev <= rev[req[r].ds]
        /\ req[r].rev = rev[req[r].ds] => req[r].copy = spec[req[r].ds]
    BY <1>1, <1>2, <1>3 DEF Held, Copies
  <2>2. \/ spec'[req[r].ds] = spec[req[r].ds] /\ rev'[req[r].ds] = rev[req[r].ds]
        \/ rev'[req[r].ds] = rev[req[r].ds] + 1
    BY <2>1, RevStep
  <2> QED
    BY <1>1, <1>3, <2>1, <2>2 DEF SameWork
<1>4. CASE req'[r] = req[r]
  BY <1>3, <1>4 DEF SameWork
<1>5. CASE Starts(r)
  <2>1. /\ req'[r].copy = spec[req'[r].ds] /\ req'[r].rev = rev[req'[r].ds]
        /\ UNCHANGED <<spec, rev>> /\ req'[r].ds \in Ids
    BY <1>5, StartsOne DEF Editing, Uploads
  <2> QED
    BY <1>1, <2>1
<1>6. CASE Moves(r)
  BY <1>3, <1>6, MovesOne DEF Editing, Uploads
<1> QED
  BY <1>2, <1>4, <1>5, <1>6, SlotsStep DEF SlotsChange

-----------------------------------------------------------------------------
(* References.                                                             *)

\* Nothing a row refers to goes away.
LEMMA ResolvesKept ==
    ASSUME GwInv, Next, NEW x, Resolves(x)
    PROVE  Resolves(x)'
<1>1. \A t, key : Stored(t, key) => Stored(t, key)'
  BY ObjectsStep DEF ObjectsChange, Stored
<1>2. \A y \in rows : y.tbl \in {"evaluation_runs", "dataset_versions"} =>
          \E z \in rows' : z.tbl = y.tbl /\ z.id = y.id /\ z.tenant = y.tenant
  BY RowsStep DEF RowsChange, Permanent
<1>3. x.tbl = "feedback" =>
          \E z \in rows' : /\ z.id = x.ref /\ z.tenant = x.tenant
                           /\ z.tbl = (IF x.val = "evaluation_run" THEN "evaluation_runs"
                                       ELSE "dataset_versions")
  BY <1>2 DEF Resolves
<1> QED
  BY <1>1, <1>3, Grows DEF Resolves

\* Where the new rows of two tables come from, and what new rows refer to.
LEMMA NewRows ==
    ASSUME GwInv, Next, NEW x \in rows' \ rows
    PROVE  /\ Resolves(x)'
           /\ x.tbl = "dataset_profiles" =>
                  \E r \in Requests :
                      /\ SaveProfile(r)
                      /\ x = ProfileRow(req[r].ctx.tenant, req[r].ds, req[r].tag, req[r].name)
           /\ x.tbl = "export_artifacts" =>
                  \E r \in Requests :
                      /\ req[r].route = "record"
                      /\ x.tenant = req[r].ctx.tenant /\ x.ds = req[r].ds
                      /\ x.ref = req[r].ver /\ x.val = req[r].name
<1> DEFINE Goal == /\ Resolves(x)'
                   /\ x.tbl \notin {"dataset_profiles", "export_artifacts"}
<1>1. Shaped /\ Held /\ Exports /\ \A y \in rows : Resolves(y)
  BY DEF GwInv, ReferencesResolve, Resolves, Owns
<1>2. ASSUME NEW ctx \in Contexts, Adds(ctx) PROVE Goal
  BY <1>2, ResolvesKept DEF Adds, Linked, Registries
<1>3. ASSUME NEW ctx \in Contexts, Drops(ctx) PROVE FALSE
  BY <1>3 DEF Drops
<1>4. ASSUME NEW ctx \in Contexts, Decides(ctx) PROVE Goal
  <2>1. PICK y \in rows, status \in {"approved", "rejected", "changes_requested"} :
           /\ y.tbl = "review_tasks"
           /\ rows' = (rows \ {y}) \cup {Row(y.tbl, y.id, y.tenant, y.ds, y.ref, y.ref2, status)}
    BY <1>4 DEF Decides
  <2>2. x = Row(y.tbl, y.id, y.tenant, y.ds, y.ref, y.ref2, status)
    BY <2>1
  <2>3. x.tbl = "review_tasks" /\ x.ds = y.ds /\ x.tenant = y.tenant
    BY <2>1, <2>2 DEF Row
  <2>4. Resolves(x)
    BY <1>1, <2>1, <2>3 DEF Resolves
  <2> QED
    BY <2>3, <2>4, ResolvesKept
<1>5. ASSUME NEW ctx \in Contexts, Creates(ctx) PROVE Goal
  <2>1. x.tbl = "datasets"
    BY <1>5 DEF Creates, SpecRow, Row
  <2> QED
    BY <2>1 DEF Resolves
<1>6. ASSUME NEW r \in Requests, SaveProfile(r)
      PROVE  /\ x = ProfileRow(req[r].ctx.tenant, req[r].ds, req[r].tag, req[r].name)
             /\ x.tbl = "dataset_profiles" /\ Resolves(x)'
  <2>1. x = ProfileRow(req[r].ctx.tenant, req[r].ds, req[r].tag, req[r].name)
    BY <1>6 DEF SaveProfile
  <2>2. x.tbl = "dataset_profiles"
    BY <2>1 DEF ProfileRow, Row
  <2> QED
    BY <2>1, <2>2 DEF Resolves
<1>7. ASSUME NEW r \in Requests, AddExport(r)
      PROVE  /\ req[r].route = "record"
             /\ x.tenant = req[r].ctx.tenant /\ x.ds = req[r].ds
             /\ x.ref = req[r].ver /\ x.val = req[r].name
             /\ x.tbl = "export_artifacts" /\ Resolves(x)'
  <2>1. PICK id : x = ExportRow(req[r].ctx.tenant, id, req[r].ds, req[r].ver, req[r].name)
    BY <1>7 DEF AddExport, Insert
  <2>2. /\ x.tenant = req[r].ctx.tenant /\ x.ds = req[r].ds /\ x.ref = req[r].ver
        /\ x.val = req[r].name /\ x.tbl = "export_artifacts"
    BY <2>1 DEF ExportRow, Row
  <2>3. req[r].route = "record"
    BY <1>7 DEF AddExport
  <2>4. VersionOf(x, x.ref)
    BY <1>1, <2>2, <2>3 DEF Exports, Exporting, VersionOf
  <2>5. Resolves(x)
    BY <2>2, <2>4 DEF Resolves
  <2> QED
    BY <2>2, <2>3, <2>5, ResolvesKept
<1>8. ASSUME NEW job \in rows, job.tbl = "generation_jobs", VersionRegistered(job) PROVE Goal
  <2>1. PICK id \in Fresh("dataset_versions"), n \in RowCounts, fmt \in ArtifactFormats :
           /\ GetSpec(job.tenant, job.ds) # {}
           /\ rows' = (rows \ {job}) \cup {VersionRow(job.tenant, id, job.ds, n, fmt)}
           /\ objects' = Put(job.tenant, ArtifactKey(job.ds, id), <<id, fmt>>)
    BY <1>8, Registered
  <2>2. x = VersionRow(job.tenant, id, job.ds, n, fmt)
    BY <2>1
  <2>3. x.tbl = "dataset_versions" /\ x.tenant = job.tenant /\ x.ds = job.ds /\ x.id = id
    BY <2>2 DEF VersionRow, Row
  <2>4. Stored(x.tenant, ArtifactKey(x.ds, x.id))'
    <3> DEFINE o == [tenant |-> job.tenant, key |-> ArtifactKey(job.ds, id), data |-> <<id, fmt>>]
    <3>1. o \in objects'
      BY <2>1 DEF Put
    <3>2. o.tenant = x.tenant /\ o.key = ArtifactKey(x.ds, x.id)
      BY <2>3
    <3> QED
      BY <3>1, <3>2 DEF Stored, ArtifactKey
  <2>5. Owns(x.tenant, x.ds)'
    BY <2>1, <2>3, SpecFound, Grows
  <2> QED
    BY <2>3, <2>4, <2>5 DEF Resolves
<1>9. ASSUME NEW run \in rows, run.tbl = "evaluation_runs", ReportWritten(run) PROVE Goal
  <2>1. PICK id \in Fresh("evaluation_expert_results") :
           rows' = (rows \ {run}) \cup {[run EXCEPT !.val = "reported"],
               Row("evaluation_expert_results", id, run.tenant, None, run.id, None, "score")}
    BY <1>9 DEF ReportWritten
  <2>2. CASE x = Row("evaluation_expert_results", id, run.tenant, None, run.id, None, "score")
    <3>1. x.tbl = "evaluation_expert_results"
      BY <2>2 DEF Row
    <3> QED
      BY <3>1 DEF Resolves
  <2>3. CASE x = [run EXCEPT !.val = "reported"]
    <3>1. run = [tbl |-> run.tbl, id |-> run.id, tenant |-> run.tenant, ds |-> run.ds,
                 ref |-> run.ref, ref2 |-> run.ref2, val |-> run.val]
      BY <1>1 DEF Shaped, IsRow, Row
    <3>2. /\ x.tbl = "evaluation_runs" /\ x.id = run.id /\ x.tenant = run.tenant /\ x.ds = run.ds
          /\ x.ref = run.ref /\ x.ref2 = run.ref2
      BY <1>9, <2>3, <3>1
    <3>3. VersionOf(x, x.ref)' /\ (x.ref2 # None => VersionOf(x, x.ref2)')
      <4>1. VersionOf(x, x.ref) /\ (x.ref2 # None => VersionOf(x, x.ref2))
        BY <1>1, <1>9, <3>2 DEF Resolves, VersionOf
      <4> QED
        BY <4>1, Grows
    <3>4. \A f \in {"json", "html"} : Stored(x.tenant, ReportKey(x.id, f))'
      <4>1. objects' = objects \cup
               {[tenant |-> run.tenant, key |-> ReportKey(run.id, f), data |-> <<run.id, f>>] :
                   f \in {"json", "html"}}
        BY <1>9 DEF ReportWritten
      <4> SUFFICES ASSUME NEW f \in {"json", "html"} PROVE Stored(x.tenant, ReportKey(x.id, f))'
        OBVIOUS
      <4> DEFINE o == [tenant |-> run.tenant, key |-> ReportKey(run.id, f), data |-> <<run.id, f>>]
      <4>2. o \in objects'
        BY <4>1
      <4>3. o.tenant = x.tenant /\ o.key = ReportKey(x.id, f)
        BY <3>2
      <4> QED
        BY <4>2, <4>3 DEF Stored, ReportKey
    <3> QED
      BY <3>2, <3>3, <3>4 DEF Resolves
  <2> QED
    BY <2>1, <2>2, <2>3
<1>10. CASE UNCHANGED rows
  BY <1>10
<1> QED
  BY <1>2, <1>3, <1>4, <1>5, <1>6, <1>7, <1>8, <1>9, <1>10, StepCases
     DEF Starts, UpdateDataset, UploadSample, ExportVersion, Saves, SaveUpdate, SaveFields, Ends,
         ProfileFails, RequestLost, PutSample, PutExport

\* Old references stay good, new rows have good ones.
LEMMA ReferencesStep ==
    ASSUME GwInv, Next
    PROVE  ReferencesResolve'
<1>1. \A y \in rows : Resolves(y)
  BY DEF GwInv, ReferencesResolve, Resolves, Owns
<1>2. \A y \in rows' : Resolves(y)'
  BY <1>1, ResolvesKept, NewRows
<1> QED
  BY <1>2 DEF ReferencesResolve, Resolves, Owns

\* A profile is saved by the owner of its dataset.
LEMMA ProfilesStep ==
    ASSUME GwInv, Next
    PROVE  Profiles'
<1> SUFFICES ASSUME NEW p \in rows', p.tbl = "dataset_profiles"
             PROVE  /\ p.id = p.ds /\ p.val = "s.csv" /\ Owns(p.tenant, p.ds)'
                    /\ p.ref \in Nat /\ p.ref <= served'
  BY DEF Profiles
<1>1. Profiles /\ Held /\ Shaped
  BY DEF GwInv
<1>2. CASE p \in rows
  BY <1>1, <1>2, Grows DEF Profiles, Shaped
<1>3. CASE p \notin rows
  <2>1. PICK r \in Requests : /\ SaveProfile(r)
                              /\ p = ProfileRow(req[r].ctx.tenant, req[r].ds, req[r].tag, req[r].name)
    BY <1>3, NewRows
  <2>2. req[r].route = "profile" /\ req[r].name = "s.csv"
    BY <2>1 DEF SaveProfile
  <2>3. /\ Owns(req[r].ctx.tenant, req[r].ds) /\ req[r].tag <= served /\ req[r].tag \in Nat
        /\ served \in Nat
    BY <1>1, <2>2 DEF Held, Idle, Shaped, IsSlot
  <2>4. p.id = p.ds /\ p.val = "s.csv" /\ p.tenant = req[r].ctx.tenant /\ p.ds = req[r].ds
        /\ p.ref = req[r].tag
    BY <2>1, <2>2 DEF ProfileRow, Row
  <2>5. Owns(p.tenant, p.ds)'
    BY <2>3, <2>4, Grows
  <2> QED
    BY <2>3, <2>4, <2>5, Grows
<1> QED
  BY <1>2, <1>3

-----------------------------------------------------------------------------
(* Exports.                                                                *)

\* Within an exporter the extension determines the format, so two formats of a
\* version never share a key.
LEMMA ExtensionsDiffer ==
    ASSUME NEW v, NEW f, NEW g, Formatted(v, f), Formatted(v, g),
           ExtensionOf(v, f) = ExtensionOf(v, g)
    PROVE  f = g
<1>1. CASE v.val # "graph_json"
  BY <1>1 DEF ExtensionOf
<1>2. CASE v.val = "graph_json"
  <2>1. f \in GraphFormats /\ g \in GraphFormats /\ GraphExtension(f) = GraphExtension(g)
    BY <1>2 DEF Formatted, ExtensionOf
  <2> QED
    BY <2>1 DEF GraphFormats, GraphExtension
<1> QED
  BY <1>1, <1>2

\* The object put_export writes.
LEMMA ExportPut ==
    ASSUME GwInv, NEW r \in Requests, PutExport(r)
    PROVE  LET q == req[r] IN
           \E v \in rows :
               /\ v.tbl = "dataset_versions" /\ v.id = q.ver /\ Formatted(v, q.name)
               /\ objects' = Put(q.ctx.tenant, ExportKey(q.ds, q.ver, ExtensionOf(v, q.name)),
                                 <<q.ver, q.name>>)
<1> DEFINE q == req[r]
<1>1. q.route = "export" /\ Unique /\ Exports /\ Artifacts
  BY DEF PutExport, GwInv
<1>2. PICK v \in GetVersion(q.ctx.tenant, q.ver),
           a \in GetObject(q.ctx.tenant, ArtifactKey(q.ds, q.ver)) :
         objects' = Put(q.ctx.tenant, ExportKey(q.ds, q.ver, ExtensionOf(v, q.name)),
                        Transcode(a.data, q.name))
  BY DEF PutExport
<1>3. v \in rows /\ v.tbl = "dataset_versions" /\ v.id = q.ver
  BY Sees DEF GetVersion
<1>4. Formatted(v, q.name)
  BY <1>1, <1>3 DEF Exports, Exporting, Unique
<1>5. a.data[1] = q.ver
  <2>1. a \in objects /\ a.key = <<"artifact", q.ds, q.ver, "data">>
    BY DEF GetObject, ArtifactKey
  <2> QED
    BY <1>1, <2>1 DEF Artifacts
<1>6. Transcode(a.data, q.name) = <<q.ver, q.name>>
  BY <1>5 DEF Transcode
<1> QED
  BY <1>2, <1>3, <1>4, <1>6

\* Where new objects come from: their kind tells.
LEMMA NewObjects ==
    ASSUME GwInv, Next, NEW o \in objects' \ objects
    PROVE  \/ \E r \in Requests :
                  /\ PutSample(r)
                  /\ o = [tenant |-> req[r].ctx.tenant, key |-> SampleKey(req[r].ds, req[r].name),
                          data |-> <<req[r].tag, "sample">>]
           \/ \E r \in Requests : \E v \in rows :
                  /\ PutExport(r)
                  /\ v.tbl = "dataset_versions" /\ v.id = req[r].ver /\ Formatted(v, req[r].name)
                  /\ o = [tenant |-> req[r].ctx.tenant,
                          key |-> ExportKey(req[r].ds, req[r].ver, ExtensionOf(v, req[r].name)),
                          data |-> <<req[r].ver, req[r].name>>]
           \/ o.key[1] = "artifact" /\ o.data[1] = o.key[3] /\ "worker" \in actor'.roles
           \/ o.key[1] = "report" /\ "worker" \in actor'.roles
<1>1. ASSUME NEW r \in Requests, PutSample(r)
      PROVE  o = [tenant |-> req[r].ctx.tenant, key |-> SampleKey(req[r].ds, req[r].name),
                  data |-> <<req[r].tag, "sample">>]
  BY <1>1 DEF PutSample, Put
<1>2. ASSUME NEW r \in Requests, PutExport(r)
      PROVE  \E v \in rows :
                  /\ v.tbl = "dataset_versions" /\ v.id = req[r].ver /\ Formatted(v, req[r].name)
                  /\ o = [tenant |-> req[r].ctx.tenant,
                          key |-> ExportKey(req[r].ds, req[r].ver, ExtensionOf(v, req[r].name)),
                          data |-> <<req[r].ver, req[r].name>>]
  BY <1>2, ExportPut DEF Put
<1>3. ASSUME NEW job \in rows, VersionRegistered(job)
      PROVE  o.key[1] = "artifact" /\ o.data[1] = o.key[3] /\ "worker" \in actor'.roles
  <2>1. PICK id \in Fresh("dataset_versions"), n \in RowCounts, fmt \in ArtifactFormats :
           /\ GetSpec(job.tenant, job.ds) # {}
           /\ rows' = (rows \ {job}) \cup {VersionRow(job.tenant, id, job.ds, n, fmt)}
           /\ objects' = Put(job.tenant, ArtifactKey(job.ds, id), <<id, fmt>>)
    BY <1>3, Registered
  <2>2. o = [tenant |-> job.tenant, key |-> <<"artifact", job.ds, id, "data">>, data |-> <<id, fmt>>]
    BY <2>1 DEF Put, ArtifactKey
  <2>3. actor'.roles = {"worker"}
    BY <1>3 DEF VersionRegistered
  <2> QED
    BY <2>2, <2>3
<1>4. ASSUME NEW run \in rows, ReportWritten(run)
      PROVE  o.key[1] = "report" /\ "worker" \in actor'.roles
  <2>1. PICK f \in {"json", "html"} :
           o = [tenant |-> run.tenant, key |-> <<"report", run.id, None, f>>, data |-> <<run.id, f>>]
    BY <1>4 DEF ReportWritten, ReportKey
  <2>2. actor'.roles = {"worker"}
    BY <1>4 DEF ReportWritten
  <2> QED
    BY <2>1, <2>2
<1>5. CASE UNCHANGED objects
  BY <1>5
<1> QED
  BY <1>1, <1>2, <1>3, <1>4, <1>5, StepCases
     DEF Adds, Drops, Decides, Creates, Route, TableStep, Starts, UpdateDataset, UploadSample,
         ExportVersion, Saves, SaveUpdate, SaveFields, Ends, ProfileFails, RequestLost,
         SaveProfile, AddExport

\* The artifact of a version is written once, for it.
LEMMA ArtifactsStep ==
    ASSUME GwInv, Next
    PROVE  Artifacts'
<1> SUFFICES ASSUME NEW o \in objects', o.key[1] = "artifact" PROVE o.data[1] = o.key[3]
  BY DEF Artifacts
<1>1. CASE o \in objects
  BY <1>1 DEF GwInv, Artifacts
<1>2. CASE o \notin objects
  <2>1. \A d, n : SampleKey(d, n)[1] # "artifact"
    BY DEF SampleKey
  <2>2. \A d, v, e : ExportKey(d, v, e)[1] # "artifact"
    BY DEF ExportKey
  <2> QED
    BY <1>2, <2>1, <2>2, NewObjects
<1> QED
  BY <1>1, <1>2

\* Only put_export touches the exports.
LEMMA OthersKeepExports ==
    ASSUME GwInv, Next, NEW o \in objects, o.key[1] = "export", \A r \in Requests : ~PutExport(r)
    PROVE  o \in objects'
<1>1. ASSUME NEW r \in Requests, PutSample(r) PROVE o \in objects'
  BY <1>1 DEF PutSample, Put, SampleKey
<1>2. ASSUME NEW job \in rows, VersionRegistered(job) PROVE o \in objects'
  <2>1. PICK id \in Fresh("dataset_versions"), n \in RowCounts, fmt \in ArtifactFormats :
           /\ GetSpec(job.tenant, job.ds) # {}
           /\ rows' = (rows \ {job}) \cup {VersionRow(job.tenant, id, job.ds, n, fmt)}
           /\ objects' = Put(job.tenant, ArtifactKey(job.ds, id), <<id, fmt>>)
    BY <1>2, Registered
  <2> QED
    BY <2>1 DEF Put, ArtifactKey
<1>3. ASSUME NEW run \in rows, ReportWritten(run) PROVE o \in objects'
  BY <1>3 DEF ReportWritten
<1> QED
  BY <1>1, <1>2, <1>3, StepCases
     DEF Adds, Drops, Decides, Creates, Route, TableStep, Starts, UpdateDataset, UploadSample,
         ExportVersion, Saves, SaveUpdate, SaveFields, Ends, ProfileFails, RequestLost,
         SaveProfile, AddExport

\* An export that overwrites another of the version is the same export.
LEMMA ExportedKept ==
    ASSUME GwInv, Next, NEW t, NEW d, NEW ver, NEW f, Exported(t, d, ver, f)
    PROVE  Exported(t, d, ver, f)'
<1>1. PICK v \in rows, o \in objects :
         /\ v.tbl = "dataset_versions" /\ v.id = ver /\ Formatted(v, f)
         /\ o.tenant = t /\ o.key = ExportKey(d, ver, ExtensionOf(v, f)) /\ o.data = <<ver, f>>
  BY DEF Exported
<1>2. v \in rows'
  BY <1>1, RowsStep DEF RowsChange, Permanent
<1>3. ASSUME NEW p \in objects', p.tenant = t, p.key = o.key, p.data = <<ver, f>>
      PROVE  Exported(t, d, ver, f)'
  BY <1>1, <1>2, <1>3 DEF Exported, Formatted, ExportKey, ExtensionOf
<1>4. CASE o \in objects'
  BY <1>1, <1>3, <1>4
<1>5. CASE \A r \in Requests : ~PutExport(r)
  <2>1. o.key[1] = "export"
    BY <1>1 DEF ExportKey
  <2> QED
    BY <1>4, <1>5, <2>1, OthersKeepExports
<1>6. ASSUME NEW r \in Requests, PutExport(r), o \notin objects' PROVE Exported(t, d, ver, f)'
  <2> DEFINE q == req[r]
  <2>1. PICK w \in rows :
           /\ w.tbl = "dataset_versions" /\ w.id = q.ver /\ Formatted(w, q.name)
           /\ objects' = Put(q.ctx.tenant, ExportKey(q.ds, q.ver, ExtensionOf(w, q.name)),
                             <<q.ver, q.name>>)
    BY <1>6, ExportPut
  <2> DEFINE key == ExportKey(q.ds, q.ver, ExtensionOf(w, q.name))
             p == [tenant |-> q.ctx.tenant, key |-> key, data |-> <<q.ver, q.name>>]
  <2>2. o.tenant = q.ctx.tenant /\ o.key = key
    BY <1>6, <2>1 DEF Put
  <2>3. ver = q.ver /\ ExtensionOf(v, f) = ExtensionOf(w, q.name)
    BY <1>1, <2>2 DEF ExportKey
  <2>4. v = w
    BY <1>1, <2>1, <2>3 DEF GwInv, Unique
  <2>5. f = q.name
    BY <1>1, <2>1, <2>3, <2>4, ExtensionsDiffer
  <2>6. p \in objects'
    BY <2>1 DEF Put
  <2>7. p.tenant = t /\ p.key = o.key /\ p.data = <<ver, f>>
    BY <1>1, <2>2, <2>3, <2>5
  <2> QED
    BY <1>3, <2>6, <2>7
<1> QED
  BY <1>4, <1>5, <1>6

\* The export a slot has put, and the one a row names, stay what they are.
LEMMA ExportsStep ==
    ASSUME GwInv, Next
    PROVE  Exports'
<1>1. Exports /\ \A x \in rows : x.tbl = "dataset_versions" => x \in rows'
  BY RowsStep DEF GwInv, RowsChange, Permanent
<1>2. Idle.route \notin Exporting /\ Idle.route # "record"
  BY DEF Idle, Exporting
<1>3. ASSUME NEW r \in Requests, req'[r].route \in Exporting
      PROVE  \E v \in rows' : /\ v.tbl = "dataset_versions" /\ v.id = req'[r].ver
                              /\ v.ds = req'[r].ds /\ v.tenant = req'[r].ctx.tenant
                              /\ Formatted(v, req'[r].name)
  <2>1. CASE req'[r] = req[r]
    BY <1>1, <1>3, <2>1 DEF Exports
  <2>2. CASE Starts(r)
    BY <1>1, <1>3, <2>2, StartsOne DEF Exporting
  <2>3. CASE Moves(r)
    <3>1. req[r].route \in Exporting /\ SameWork(req[r], req'[r])
      BY <1>3, <2>3, MovesOne DEF Exporting
    <3> QED
      BY <1>1, <3>1 DEF Exports, SameWork
  <2> QED
    BY <1>2, <1>3, <2>1, <2>2, <2>3, SlotsStep DEF SlotsChange
<1>4. ASSUME NEW r \in Requests, req'[r].route = "record"
      PROVE  Exported(req[r].ctx.tenant, req[r].ds, req[r].ver, req[r].name)'
  <2>1. ASSUME NEW q, q = req'[r], Exported(q.ctx.tenant, q.ds, q.ver, q.name)'
        PROVE  Exported(req[r].ctx.tenant, req[r].ds, req[r].ver, req[r].name)'
    BY <2>1 DEF Exported
  <2>2. CASE req'[r] = req[r]
    <3>1. Exported(req[r].ctx.tenant, req[r].ds, req[r].ver, req[r].name)
      BY <1>1, <1>4, <2>2 DEF Exports
    <3> SUFFICES ASSUME NEW q, q = req[r] PROVE Exported(q.ctx.tenant, q.ds, q.ver, q.name)'
      BY <2>1, <2>2
    <3> QED
      BY <3>1, ExportedKept
  <2>3. CASE Starts(r)
    BY <1>4, <2>3, StartsOne
  <2>4. CASE Moves(r)
    <3>1. PutExport(r) /\ SameWork(req[r], req'[r])
      BY <1>4, <2>4, MovesOne
    <3>2. PICK v \in rows :
             /\ v.tbl = "dataset_versions" /\ v.id = req[r].ver /\ Formatted(v, req[r].name)
             /\ objects' = Put(req[r].ctx.tenant,
                               ExportKey(req[r].ds, req[r].ver, ExtensionOf(v, req[r].name)),
                               <<req[r].ver, req[r].name>>)
      BY <3>1, ExportPut
    <3> DEFINE o == [tenant |-> req[r].ctx.tenant,
                     key |-> ExportKey(req[r].ds, req[r].ver, ExtensionOf(v, req[r].name)),
                     data |-> <<req[r].ver, req[r].name>>]
    <3>3. o \in objects' /\ v \in rows'
      BY <1>1, <3>2 DEF Put
    <3>4. /\ o.tenant = req'[r].ctx.tenant /\ o.data = <<req'[r].ver, req'[r].name>>
          /\ o.key = ExportKey(req'[r].ds, req'[r].ver, ExtensionOf(v, req'[r].name))
          /\ v.id = req'[r].ver /\ Formatted(v, req'[r].name)
      BY <3>1, <3>2 DEF SameWork
    <3> QED
      BY <3>2, <3>3, <3>4 DEF Exported, ExtensionOf, Formatted, ExportKey
  <2> QED
    BY <1>2, <1>4, <2>2, <2>3, <2>4, SlotsStep DEF SlotsChange
<1>5. ASSUME NEW e \in rows', e.tbl = "export_artifacts"
      PROVE  Exported(e.tenant, e.ds, e.ref, e.val)'
  <2>1. CASE e \in rows
    BY <1>1, <1>5, <2>1, ExportedKept DEF Exports
  <2>2. CASE e \notin rows
    <3>1. Exported(e.tenant, e.ds, e.ref, e.val)
      BY <1>1, <1>5, <2>2, NewRows DEF Exports
    <3> QED
      BY <3>1, ExportedKept
  <2> QED
    BY <2>1, <2>2
<1> QED
  BY <1>3, <1>4, <1>5 DEF Exports

-----------------------------------------------------------------------------
(* Samples, profiles and fields.                                           *)

\* An upload that starts beside another edit, or beside which one starts, is a race.
LEMMA ExclusiveStep ==
    ASSUME GwInv, Next
    PROVE  Exclusive'
<1> SUFFICES ASSUME NEW r \in Requests, NEW s \in Requests, r # s, req'[r].ds = req'[s].ds,
                    req'[r].route \in Uploads, req'[s].route \in Editing
             PROVE  req'[r].ds \in raced'
  BY DEF Exclusive
<1>1. Exclusive /\ raced \subseteq raced' /\ Idle.route \notin Editing /\ Uploads \subseteq Editing
  BY Grows DEF GwInv, Idle, Editing, Uploads
<1>2. ASSUME NEW x \in Requests, Moves(x), req'[x].route \in Editing
      PROVE  req[x].route \in Uploads /\ req'[x].ds = req[x].ds
  BY <1>2, MovesOne DEF Uploads, SameWork, Editing
<1>3. CASE req'[r] = req[r] /\ req'[s] = req[s]
  BY <1>1, <1>3 DEF Exclusive
<1>4. CASE req'[r] # req[r]
  <2>1. req'[s] = req[s]
    BY <1>4, SlotsStep DEF SlotsChange
  <2>2. CASE Starts(r)
    <3>1. /\ req'[r].route = "upload"
          /\ raced' = IF Busy(req'[r].ds, Editing) THEN raced \cup {req'[r].ds} ELSE raced
      BY <2>2, StartsOne DEF Uploads
    <3> QED
      BY <2>1, <3>1 DEF Busy
  <2>3. CASE Moves(r)
    BY <1>1, <1>2, <2>1, <2>3 DEF Exclusive
  <2> QED
    BY <1>1, <1>4, <2>2, <2>3, SlotsStep DEF SlotsChange
<1>5. CASE req'[s] # req[s]
  <2>1. req'[r] = req[r]
    BY <1>5, SlotsStep DEF SlotsChange
  <2>2. CASE Starts(s)
    <3>1. raced' = IF Busy(req'[s].ds, IF req'[s].route = "update" THEN Uploads ELSE Editing)
                   THEN raced \cup {req'[s].ds} ELSE raced
      BY <2>2, StartsOne DEF Editing, Uploads
    <3>2. Busy(req'[s].ds, Uploads) /\ Busy(req'[s].ds, Editing)
      BY <1>1, <2>1 DEF Busy
    <3> QED
      BY <3>1, <3>2
  <2>3. CASE Moves(s)
    BY <1>1, <1>2, <2>1, <2>3 DEF Exclusive
  <2> QED
    BY <1>1, <1>5, <2>2, <2>3, SlotsStep DEF SlotsChange
<1> QED
  BY <1>3, <1>4, <1>5

\* A sample changes only by an upload of its dataset.
LEMMA SampleKept ==
    ASSUME GwInv, Next, NEW t, NEW d, NEW name, NEW tag, SampleIs(t, d, name, tag),
           \A r \in Requests : PutSample(r) => req[r].ds # d
    PROVE  SampleIs(t, d, name, tag)'
<1> SUFFICES ASSUME NEW o \in objects', o.tenant = t, o.key = SampleKey(d, name)
             PROVE  o.data[1] = tag
  BY DEF SampleIs
<1>1. CASE o \in objects
  BY <1>1 DEF SampleIs
<1>2. CASE o \notin objects
  <2>1. o.key[1] = "sample" /\ o.key[2] = d
    BY DEF SampleKey
  <2>2. \A e, n : SampleKey(e, n)[2] = e
    BY DEF SampleKey
  <2>3. \A e, v, x : ExportKey(e, v, x)[1] # "sample"
    BY DEF ExportKey
  <2> QED
    BY <1>2, <2>1, <2>2, <2>3, NewObjects
<1> QED
  BY <1>1, <1>2

\* The slot's object stays until its profile is saved, unless there is a race.
LEMMA StagedStep ==
    ASSUME GwInv, Next
    PROVE  Staged'
<1> SUFFICES ASSUME NEW r \in Requests, req'[r].route = "profile", req'[r].ds \notin raced'
             PROVE  SampleIs(req[r].ctx.tenant, req[r].ds, req[r].name, req[r].tag)'
  BY DEF Staged
<1>1. Exclusive /\ Staged /\ raced \subseteq raced' /\ Idle.route # "profile"
  BY Grows DEF GwInv, Idle
<1>2. CASE req'[r] = req[r]
  <2> SUFFICES ASSUME NEW q, q = req[r] PROVE SampleIs(q.ctx.tenant, q.ds, q.name, q.tag)'
    BY <1>2 DEF SampleIs
  <2>1. SampleIs(q.ctx.tenant, q.ds, q.name, q.tag) /\ q.ds \notin raced
    BY <1>1, <1>2 DEF Staged
  <2>2. \A x \in Requests : PutSample(x) => req[x].ds # q.ds
    <3> SUFFICES ASSUME NEW x \in Requests, PutSample(x), req[x].ds = q.ds PROVE FALSE
      OBVIOUS
    <3>1. req[x].route = "upload" /\ q.route = "profile" /\ x # r
      BY <1>2 DEF PutSample
    <3> QED
      BY <1>1, <2>1, <3>1 DEF Exclusive, Uploads, Editing
  <2> QED
    BY <2>1, <2>2, SampleKept
<1>3. CASE Starts(r)
  BY <1>3, StartsOne
<1>4. CASE Moves(r)
  <2>1. PutSample(r) /\ SameWork(req[r], req'[r])
    BY <1>4, MovesOne
  <2> SUFFICES ASSUME NEW o \in objects', o.tenant = req'[r].ctx.tenant,
                      o.key = SampleKey(req'[r].ds, req'[r].name)
               PROVE  o.data[1] = req'[r].tag
    BY DEF SampleIs, SampleKey
  <2>2. o = [tenant |-> req[r].ctx.tenant, key |-> SampleKey(req[r].ds, req[r].name),
             data |-> <<req[r].tag, "sample">>]
    BY <2>1 DEF PutSample, Put, SameWork
  <2> QED
    BY <2>1, <2>2 DEF SameWork
<1> QED
  BY <1>1, <1>2, <1>3, <1>4, SlotsStep DEF SlotsChange

\* The profile saved last describes the sample of the slot that saved it.
LEMMA ProfileSaved ==
    ASSUME GwInv, Next, NEW r \in Requests, SaveProfile(r), NEW p \in rows',
           p.tbl = "dataset_profiles", p.ds = req[r].ds
    PROVE  /\ p.tenant = req[r].ctx.tenant /\ p.ref = req[r].tag /\ p.val = req[r].name
           /\ req[r].route = "profile" /\ UNCHANGED objects /\ Moves(r)
<1>1. p = ProfileRow(req[r].ctx.tenant, req[r].ds, req[r].tag, req[r].name)
  BY DEF SaveProfile
<1> QED
  BY <1>1 DEF SaveProfile, ProfileRow, Row, Moves

\* A save of an upload that did not race leaves the fields of the profiled sample.
LEMMA FieldsSaved ==
    ASSUME GwInv, NEW r \in Requests, Saves(r), NEW p \in rows, p.tbl = "dataset_profiles",
           p.ds \notin raced, p.ds = req[r].ds
    PROVE  spec'[p.ds]["fields"] >= p.ref
<1>1. /\ req[r].route \in {"update", "fields"} /\ spec'[p.ds] = Merged(req[r]) /\ IsSlot(req[r])
  BY SavesOne DEF Saves, SaveUpdate, SaveFields, GwInv, Shaped
<1>2. spec'[p.ds]["fields"] = IF "fields" \in req[r].asked THEN req[r].tag ELSE req[r].copy["fields"]
  BY <1>1, MergedTyped DEF Columns
<1>3. /\ req[r].route = "fields" => p.ref = req[r].tag /\ "fields" \in req[r].asked
      /\ req[r].route = "update" => req[r].tag >= p.ref /\ req[r].copy["fields"] >= p.ref
  BY DEF GwInv, InStep
<1>4. p.ref \in Nat
  BY DEF GwInv, Profiles
<1> QED
  BY <1>1, <1>2, <1>3, <1>4

\* Who ends a slot that was at the profile or at the fields.
LEMMA LeavesUpload ==
    ASSUME GwInv, Next, NEW r \in Requests, req[r].route \in {"profile", "fields"},
           req'[r].route # req[r].route, req[r].ds \notin raced'
    PROVE  \/ req[r].route = "profile" /\ SaveProfile(r)
           \/ req[r].route = "fields" /\ Saves(r)
<1>1. req = [s \in Requests |-> req[s]] /\ req'[r] # req[r]
  BY DEF GwInv, Shaped
<1>2. ASSUME NEW s \in Requests, NEW q, req' = [req EXCEPT ![s] = q] PROVE s = r
  BY <1>1, <1>2
<1>3. ASSUME NEW s \in Requests, Starts(s) \/ Moves(s) PROVE s = r
  BY <1>2, <1>3, StartsOne, MovesOne
<1>4. ASSUME NEW s \in Requests, Saves(s) \/ Ends(s) \/ AddExport(s) PROVE s = r
  BY <1>2, <1>4 DEF Saves, SaveUpdate, SaveFields, Ends, ProfileFails, RequestLost, AddExport
<1>5. ~Starts(r)
  BY StartsOne DEF Idle
<1>6. Moves(r) => SaveProfile(r) /\ req[r].route = "profile"
  BY MovesOne
<1>7. ~Ends(r)
  BY DEF Ends, ProfileFails, RequestLost
<1>8. ~AddExport(r)
  BY DEF AddExport
<1>9. Saves(r) => req[r].route = "fields"
  BY DEF Saves, SaveUpdate, SaveFields
<1>10. ~UNCHANGED req
  BY <1>1
<1> QED
  BY <1>3, <1>4, <1>5, <1>6, <1>7, <1>8, <1>9, <1>10, StepCases
     DEF Moves, Adds, Drops, Decides, Creates, Route, TableStep, VersionRegistered, ReportWritten

\* Object, profile and fields go through an upload together.
LEMMA InStepStep ==
    ASSUME GwInv, Next
    PROVE  InStep'
<1> SUFFICES ASSUME NEW p \in rows', p.tbl = "dataset_profiles", p.ds \notin raced'
             PROVE  /\ ~At(p.ds, {"profile"})' => SampleIs(p.tenant, p.ds, p.val, p.ref)'
                    /\ ~At(p.ds, {"fields"})' => spec'[p.ds]["fields"] >= p.ref
                    /\ \A r \in Requests : req'[r].ds = p.ds =>
                           /\ req'[r].route = "fields" =>
                                  p.ref = req'[r].tag /\ "fields" \in req'[r].asked
                           /\ req'[r].route = "update" =>
                                  req'[r].tag >= p.ref /\ req'[r].copy["fields"] >= p.ref
  BY DEF InStep
<1>1. /\ Exclusive /\ Staged /\ InStep /\ Profiles /\ Shaped /\ raced \subseteq raced'
      /\ Idle.route \notin {"fields", "update"} /\ p.ds \notin raced
  BY Grows DEF GwInv, Idle
<1>2. ASSUME NEW r \in Requests, SaveProfile(r), req[r].ds = p.ds
      PROVE  /\ SampleIs(p.tenant, p.ds, p.val, p.ref)'
             /\ At(p.ds, {"fields"})'
             /\ \A s \in Requests : req'[s].ds = p.ds =>
                    /\ req'[s].route = "fields" =>
                           p.ref = req'[s].tag /\ "fields" \in req'[s].asked
                    /\ req'[s].route = "update" =>
                           req'[s].tag >= p.ref /\ req'[s].copy["fields"] >= p.ref
  <2>1. /\ p.tenant = req[r].ctx.tenant /\ p.ref = req[r].tag /\ p.val = req[r].name
        /\ req[r].route = "profile" /\ UNCHANGED objects /\ Moves(r)
    BY <1>2, ProfileSaved
  <2>2. SampleIs(p.tenant, p.ds, p.val, p.ref)
    BY <1>1, <1>2, <2>1 DEF Staged
  <2>3. SampleIs(p.tenant, p.ds, p.val, p.ref)'
    BY <2>1, <2>2 DEF SampleIs
  <2>4. /\ req'[r].route = "fields" /\ "fields" \in req'[r].asked /\ SameWork(req[r], req'[r])
        /\ req' = [req EXCEPT ![r] = req'[r]]
    BY <2>1, MovesOne
  <2>5. At(p.ds, {"fields"})'
    BY <1>2, <2>4 DEF At, SameWork
  <2>6. ASSUME NEW s \in Requests, s # r, req'[s].ds = p.ds
        PROVE  req'[s].route \notin {"fields", "update"}
    <3>1. req'[s] = req[s]
      BY <1>1, <2>4, <2>6 DEF Shaped
    <3>2. req[s].route \notin Editing
      BY <1>1, <1>2, <2>1, <2>6, <3>1 DEF Exclusive, Uploads
    <3> QED
      BY <3>1, <3>2 DEF Editing, Uploads
  <2> QED
    BY <2>1, <2>3, <2>4, <2>5, <2>6 DEF SameWork
<1>3. CASE \A r \in Requests : SaveProfile(r) => req[r].ds # p.ds
  <2>1. p \in rows
    BY <1>3, NewRows DEF ProfileRow, Row
  <2>2. /\ ~At(p.ds, {"profile"}) => SampleIs(p.tenant, p.ds, p.val, p.ref)
        /\ ~At(p.ds, {"fields"}) => spec[p.ds]["fields"] >= p.ref
        /\ \A r \in Requests : req[r].ds = p.ds =>
               /\ req[r].route = "fields" => p.ref = req[r].tag /\ "fields" \in req[r].asked
               /\ req[r].route = "update" => req[r].tag >= p.ref /\ req[r].copy["fields"] >= p.ref
    BY <1>1, <2>1 DEF InStep
  <2>3. p.ref \in Nat /\ p.ref <= served /\ Owns(p.tenant, p.ds) /\ p.ds \in Ids /\ served \in Nat
    <3>1. p.ds = p.id /\ p.id \in Ids
      BY <1>1, <2>1 DEF Profiles, Shaped, IsRow
    <3> QED
      BY <1>1, <2>1, <3>1 DEF Profiles, Shaped
  <2>4. ASSUME ~At(p.ds, {"profile"})' PROVE SampleIs(p.tenant, p.ds, p.val, p.ref)'
    <3>1. ~At(p.ds, {"profile"})
      <4> SUFFICES ASSUME NEW r \in Requests, req[r].route = "profile", req[r].ds = p.ds PROVE FALSE
        BY DEF At
      <4>1. req'[r].route = req[r].route
        BY <1>3, LeavesUpload
      <4>2. req'[r].ds = p.ds
        BY <4>1, SlotsStep, StartsOne, MovesOne DEF SlotsChange, Idle
      <4> QED
        BY <2>4, <4>1, <4>2 DEF At
    <3>2. \A r \in Requests : PutSample(r) => req[r].ds # p.ds
      <4> SUFFICES ASSUME NEW r \in Requests, PutSample(r), req[r].ds = p.ds PROVE FALSE
        OBVIOUS
      <4>1. req'[r].route = "profile" /\ req'[r].ds = p.ds
        <5>1. Moves(r) /\ req[r].route = "upload"
          BY DEF Moves, PutSample
        <5> QED
          BY <5>1, MovesOne DEF SameWork
      <4> QED
        BY <2>4, <4>1 DEF At
    <3> QED
      BY <2>2, <3>1, <3>2, SampleKept
  <2>5. ASSUME ~At(p.ds, {"fields"})' PROVE spec'[p.ds]["fields"] >= p.ref
    <3>1. CASE \E r \in Requests : Saves(r) /\ req[r].ds = p.ds
      BY <1>1, <2>1, <3>1, FieldsSaved
    <3>2. CASE ~\E r \in Requests : Saves(r) /\ req[r].ds = p.ds
      <4>1. ~At(p.ds, {"fields"})
        <5> SUFFICES ASSUME NEW r \in Requests, req[r].route = "fields", req[r].ds = p.ds PROVE FALSE
          BY DEF At
        <5>1. req'[r].route = req[r].route
          BY <3>2, LeavesUpload
        <5>2. req'[r].ds = p.ds
          BY <5>1, SlotsStep, StartsOne, MovesOne DEF SlotsChange, Idle
        <5> QED
          BY <2>5, <5>1, <5>2 DEF At
      <4>2. spec'[p.ds] = spec[p.ds]
        <5>1. ASSUME NEW ctx \in Contexts, Creates(ctx) PROVE spec'[p.ds] = spec[p.ds]
          <6>1. PICK id \in Ids, columns \in [Columns -> Nat], source \in {"graph", "sample",
                       "description", "audio", "image", "template"} :
                     /\ New(SpecRow(ctx.tenant, id, source), ctx.tenant)
                     /\ spec' = [spec EXCEPT ![id] = columns]
            BY <5>1 DEF Creates
          <6>2. p.ds # id
            BY <2>3, <6>1 DEF New, SpecRow, Row, Owns
          <6> QED
            BY <1>1, <2>3, <6>1, <6>2 DEF Shaped
        <5>2. ASSUME NEW r \in Requests, Saves(r) PROVE spec'[p.ds] = spec[p.ds]
          BY <2>3, <3>2, <5>2, SavesOne
        <5> QED
          BY <5>1, <5>2, StepCases
             DEF Adds, Drops, Decides, Route, TableStep, Starts, UpdateDataset, UploadSample,
                 ExportVersion, Ends, ProfileFails, RequestLost, PutSample, SaveProfile, PutExport,
                 AddExport, VersionRegistered, ReportWritten
      <4> QED
        BY <2>2, <4>1, <4>2
    <3> QED
      BY <3>1, <3>2
  <2>6. ASSUME NEW r \in Requests, req'[r].ds = p.ds
        PROVE  /\ req'[r].route = "fields" => p.ref = req'[r].tag /\ "fields" \in req'[r].asked
               /\ req'[r].route = "update" => req'[r].tag >= p.ref /\ req'[r].copy["fields"] >= p.ref
    <3>1. CASE req'[r] = req[r]
      BY <2>2, <2>6, <3>1
    <3>2. CASE Starts(r)
      <4>1. CASE req'[r].route = "update"
        <5>1. /\ req'[r].copy = spec[p.ds] /\ req'[r].tag = served + 1
              /\ raced' = IF Busy(p.ds, Uploads) THEN raced \cup {p.ds} ELSE raced
          BY <2>6, <3>2, <4>1, StartsOne
        <5>2. ~At(p.ds, {"fields"})
          BY <5>1 DEF At, Busy, Uploads
        <5> QED
          BY <2>2, <2>3, <4>1, <5>1, <5>2
      <4>2. CASE req'[r].route # "update"
        BY <3>2, <4>2, StartsOne
      <4> QED
        BY <4>1, <4>2
    <3>3. CASE Moves(r)
      BY <1>3, <2>6, <3>3, MovesOne DEF SameWork
    <3> QED
      BY <1>1, <3>1, <3>2, <3>3, SlotsStep DEF SlotsChange
  <2> QED
    BY <2>4, <2>5, <2>6
<1> QED
  BY <1>2, <1>3

-----------------------------------------------------------------------------
(* The invariant.                                                          *)

\* What the initial state holds.
LEMMA InvInit == Init => GwInv
<1> SUFFICES ASSUME Init PROVE GwInv
  OBVIOUS
<1>1. PICK n \in RowCounts :
         rows = {SpecRow(First, 1, "sample"), ProfileRow(First, 1, 1, "s.csv"),
                 VersionRow(First, 1, 1, n, "parquet"), SpecRow(Second, 2, "graph"),
                 VersionRow(Second, 2, 2, n, "graph_json"), ModelRow(Second, 1, "ollama"),
                 RunRow(Second, 1, 2, 2, None), AnnotationRow(Second, 1, 2, 2),
                 ReviewRow(Second, 1, 2)}
  BY DEF Init
<1> DEFINE a == SpecRow(First, 1, "sample")
           b == ProfileRow(First, 1, 1, "s.csv")
           c == VersionRow(First, 1, 1, n, "parquet")
           d == SpecRow(Second, 2, "graph")
           e == VersionRow(Second, 2, 2, n, "graph_json")
           f == ModelRow(Second, 1, "ollama")
           g == RunRow(Second, 1, 2, 2, None)
           h == AnnotationRow(Second, 1, 2, 2)
           i == ReviewRow(Second, 1, 2)
           s == [tenant |-> First, key |-> SampleKey(1, "s.csv"), data |-> <<1, "sample">>]
           u == [tenant |-> First, key |-> ArtifactKey(1, 1), data |-> <<1, "parquet">>]
           w == [tenant |-> Second, key |-> ArtifactKey(2, 2), data |-> <<2, "graph_json">>]
<1>2. 1 \in Ids /\ 2 \in Ids
  BY InitialIds
<1>3. /\ a.tbl = "datasets" /\ a.id = 1 /\ a.tenant = First /\ IsRow(a)
      /\ b.tbl = "dataset_profiles" /\ b.id = 1 /\ b.tenant = First /\ b.ds = 1 /\ b.ref = 1
      /\ b.val = "s.csv" /\ IsRow(b)
      /\ c.tbl = "dataset_versions" /\ c.id = 1 /\ c.tenant = First /\ c.ds = 1 /\ IsRow(c)
      /\ d.tbl = "datasets" /\ d.id = 2 /\ d.tenant = Second /\ IsRow(d)
      /\ e.tbl = "dataset_versions" /\ e.id = 2 /\ e.tenant = Second /\ e.ds = 2 /\ IsRow(e)
  BY <1>2 DEF SpecRow, ProfileRow, VersionRow, Row, IsRow
<1>4. /\ f.tbl = "model_configs" /\ f.id = 1 /\ f.tenant = Second /\ IsRow(f)
      /\ g.tbl = "evaluation_runs" /\ g.id = 1 /\ g.tenant = Second /\ g.ds = 2 /\ g.ref = 2
      /\ g.ref2 = None /\ g.val = "pending" /\ IsRow(g)
      /\ h.tbl = "annotations" /\ h.id = 1 /\ h.tenant = Second /\ h.ds = 2 /\ h.ref = 2 /\ IsRow(h)
      /\ i.tbl = "review_tasks" /\ i.id = 1 /\ i.tenant = Second /\ i.ds = 2 /\ IsRow(i)
  BY <1>2 DEF ModelRow, RunRow, AnnotationRow, ReviewRow, Row, IsRow
<1>5. /\ s.tenant = First /\ s.key = SampleKey(1, "s.csv") /\ s.data[1] = 1 /\ IsObject(s)
      /\ u.tenant = First /\ u.key = ArtifactKey(1, 1) /\ u.data[1] = 1 /\ IsObject(u)
      /\ w.tenant = Second /\ w.key = ArtifactKey(2, 2) /\ w.data[1] = 2 /\ IsObject(w)
  BY DEF IsObject, SampleKey, ArtifactKey
<1>6. /\ rows = {a, b, c, d, e, f, g, h, i} /\ objects = {s, u, w}
      /\ spec = [x \in Ids |-> [y \in Columns |-> 1]] /\ rev = [x \in Ids |-> 0]
      /\ req = [r \in Requests |-> Idle] /\ served = 1 /\ raced = {}
  BY <1>1 DEF Init
<1> HIDE DEF a, b, c, d, e, f, g, h, i, s, u, w
<1>7. IsSlot(Idle) /\ Idle.route = "none"
  BY DEF Idle, IsSlot
<1>8. Shaped
  BY <1>3, <1>4, <1>5, <1>6, <1>7 DEF Shaped
<1>9. Unique
  BY <1>3, <1>4, <1>6 DEF Unique
<1>10. Held /\ Copies /\ Exclusive /\ Staged
  BY <1>6, <1>7 DEF Held, Copies, Exclusive, Staged, Editing, Uploads
<1>11. Owns(First, 1) /\ Owns(Second, 2)
  BY <1>3, <1>6 DEF Owns
<1>12. \A x \in rows : x.tbl = "dataset_profiles" => x = b
  BY <1>3, <1>4, <1>6
<1>13. Profiles
  BY <1>3, <1>6, <1>11, <1>12 DEF Profiles
<1>14. Artifacts
  BY <1>5, <1>6 DEF Artifacts, SampleKey, ArtifactKey
<1>15. InStep
  <2>1. SampleIs(First, 1, "s.csv", 1)
    BY <1>5, <1>6 DEF SampleIs, SampleKey, ArtifactKey
  <2>2. spec[1]["fields"] >= 1
    BY <1>2, <1>6 DEF Columns
  <2> QED
    BY <1>3, <1>6, <1>7, <1>12, <2>1, <2>2 DEF InStep
<1>16. Exports
  BY <1>3, <1>4, <1>6, <1>7 DEF Exports, Exporting
<1>17. \A x \in rows : Resolves(x)
  <2>1. Stored(First, ArtifactKey(1, 1)) /\ Stored(Second, ArtifactKey(2, 2))
    BY <1>5, <1>6 DEF Stored
  <2>2. \A x : x.tenant = Second /\ x.ds = 2 => VersionOf(x, 2)
    BY <1>3, <1>6 DEF VersionOf
  <2> QED
    BY <1>3, <1>4, <1>6, <1>11, <2>1, <2>2 DEF Resolves
<1>18. ReferencesResolve
  BY <1>17 DEF ReferencesResolve, Resolves, Owns
<1> QED
  BY <1>8, <1>9, <1>10, <1>13, <1>14, <1>15, <1>16, <1>18 DEF GwInv

\* Every step keeps the invariant.
LEMMA InvNext == GwInv /\ [Next]_vars => GwInv'
<1> SUFFICES ASSUME GwInv, [Next]_vars PROVE GwInv'
  OBVIOUS
<1>1. CASE Next
  <2>1. Unique'
    BY <1>1, RowsStep DEF RowsChange
  <2> QED
    BY <1>1, <2>1, ShapedStep, HeldStep, ProfilesStep, CopiesStep, ReferencesStep, ExclusiveStep,
       StagedStep, InStepStep, ArtifactsStep, ExportsStep DEF GwInv
<1>2. CASE UNCHANGED vars
  <2>1. Shaped' /\ Unique' /\ Held' /\ Profiles' /\ Copies'
    BY <1>2 DEF vars, GwInv, Shaped, Unique, Held, Profiles, Copies, Owns
  <2>2. ReferencesResolve'
    BY <1>2 DEF vars, GwInv, ReferencesResolve, VersionOf, Stored
  <2>3. Exclusive' /\ Staged' /\ InStep'
    BY <1>2 DEF vars, GwInv, Exclusive, Staged, InStep, SampleIs, At
  <2>4. Artifacts' /\ Exports'
    BY <1>2 DEF vars, GwInv, Artifacts, Exports, Exported
  <2> QED
    BY <2>1, <2>2, <2>3, <2>4 DEF GwInv
<1> QED
  BY <1>1, <1>2

\* The invariant holds in every reachable state.
THEOREM InvHolds == Spec => []GwInv
  BY InvInit, InvNext, PTL DEF Spec

-----------------------------------------------------------------------------
(* The results: states.                                                    *)

\* A row never refers to a row or an object that is missing, another tenant's
\* or, for a version, another dataset's.
THEOREM ReferencesHold == Spec => []ReferencesResolve
  BY InvHolds, PTL DEF GwInv

\* A recorded export names an object that holds its version in its format.
THEOREM ExportsMatch == Spec => []ExportMatches
<1>1. GwInv => ExportMatches
  BY DEF GwInv, Exports, Exported, ExportMatches
<1> QED
  BY <1>1, InvHolds, PTL

\* Between uploads that neither overlapped nor failed, profile, stored sample and
\* fields agree.
THEOREM SamplesInStep == Spec => []SampleInStep
<1>1. GwInv => SampleInStep
  <2> SUFFICES ASSUME GwInv, NEW p \in rows, p.tbl = "dataset_profiles", p.ds \notin raced,
                      ~Busy(p.ds, Uploads)
               PROVE  /\ \A o \in objects :
                             o.tenant = p.tenant /\ o.key = SampleKey(p.ds, p.val) => o.data[1] = p.ref
                      /\ spec[p.ds]["fields"] >= p.ref
    BY DEF SampleInStep
  <2>1. ~At(p.ds, {"profile"}) /\ ~At(p.ds, {"fields"})
    BY DEF At, Busy, Uploads
  <2> QED
    BY <2>1 DEF GwInv, InStep, SampleIs
<1> QED
  BY <1>1, InvHolds, PTL

-----------------------------------------------------------------------------
(* The results: steps.                                                     *)

\* A column that update_dataset or upload_sample was not asked to set changes only
\* if the row was saved since the request read it.
THEOREM UnaskedChanges == Spec => UnaskedChangeNeedsOverlap
<1> DEFINE Explained ==
      \A r \in rows, c \in Columns :
          r.tbl = "datasets" /\ spec'[r.id][c] # spec[r.id][c] =>
              LET q == actor'.slot IN q.ds = r.id /\ (c \in q.asked \/ rev[r.id] # q.rev)
<1>1. GwInv /\ [Next]_vars => [Explained]_vars
  <2> SUFFICES ASSUME GwInv, Next, NEW x \in rows, NEW c \in Columns, x.tbl = "datasets",
                      spec'[x.id][c] # spec[x.id][c]
               PROVE  /\ actor'.slot.ds = x.id
                      /\ c \in actor'.slot.asked \/ rev[x.id] # actor'.slot.rev
    OBVIOUS
  <2>1. x.id \in Ids /\ Owns(x.tenant, x.id) /\ spec \in [Ids -> [Columns -> Nat]] /\ Copies
    BY DEF GwInv, Shaped, IsRow, Owns
  <2>2. ASSUME NEW ctx \in Contexts, Creates(ctx) PROVE FALSE
    <3>1. PICK id \in Ids, columns \in [Columns -> Nat], source \in {"graph", "sample",
                 "description", "audio", "image", "template"} :
               /\ New(SpecRow(ctx.tenant, id, source), ctx.tenant)
               /\ spec' = [spec EXCEPT ![id] = columns]
      BY <2>2 DEF Creates
    <3>2. x.id # id
      BY <3>1 DEF New, SpecRow, Row
    <3> QED
      BY <2>1, <3>1, <3>2
  <2>3. ASSUME NEW r \in Requests, Saves(r)
        PROVE  /\ actor'.slot.ds = x.id
               /\ c \in actor'.slot.asked \/ rev[x.id] # actor'.slot.rev
    <3>1. /\ req[r].route \in Editing /\ spec'[req[r].ds] = Merged(req[r]) /\ actor'.slot = req[r]
          /\ \A i \in Ids \ {req[r].ds} : spec'[i] = spec[i]
      BY <2>3, SavesOne
    <3>2. x.id = req[r].ds
      BY <2>1, <3>1
    <3>3. c \notin req[r].asked => spec'[x.id][c] = req[r].copy[c]
      BY <3>1, <3>2, MergedTyped DEF GwInv, Shaped
    <3>4. req[r].rev = rev[req[r].ds] => req[r].copy = spec[req[r].ds]
      BY <2>1, <3>1 DEF Copies
    <3> QED
      BY <3>1, <3>2, <3>3, <3>4
  <2> QED
    BY <2>2, <2>3, StepCases
       DEF Adds, Drops, Decides, Route, TableStep, Starts, UpdateDataset, UploadSample,
           ExportVersion, Ends, ProfileFails, RequestLost, PutSample, SaveProfile, PutExport,
           AddExport, VersionRegistered, ReportWritten
<1> QED
  BY <1>1, InvHolds, PTL DEF Spec, UnaskedChangeNeedsOverlap

\* A caller without a role above viewer changes no row, object or column but by
\* an export, and only a keeper removes a provider.
THEOREM RolesLimit == Spec => RolesLimitChanges
<1> DEFINE Idler  == actor'.roles \cap {"member", "admin", "owner", "worker"} = {}
           Quiet  == /\ rows \ rows' = {} /\ spec' = spec
                     /\ \A x \in rows' \ rows : x.tbl = "export_artifacts"
                     /\ \A o \in objects' \ objects : o.key[1] = "export"
           Kept   == \A x \in rows \ rows' : x.tbl \notin Registries
           Within == /\ Idler => Quiet
                     /\ actor'.roles \cap {"admin", "owner"} = {} => Kept
<1>1. GwInv /\ [Next]_vars => [Within]_vars
  <2> SUFFICES ASSUME GwInv, Next PROVE Within
    OBVIOUS
  <2>1. ASSUME NEW ctx \in Contexts, Adds(ctx) \/ Decides(ctx) \/ Creates(ctx) PROVE Within
    <3>1. ~Idler
      BY <2>1 DEF Adds, Decides, Creates, Route, By, Writer
    <3>2. Kept
      BY <2>1 DEF Adds, Decides, Creates, Registries
    <3> QED
      BY <3>1, <3>2
  <2>2. ASSUME NEW ctx \in Contexts, Drops(ctx) PROVE Within
    <3>1. ~Idler
      BY <2>2 DEF Drops, Route, By, Writer
    <3>2. actor'.roles \cap {"admin", "owner"} = {} => Kept
      BY <2>2 DEF Drops, Route, By, Keeper, Registries
    <3> QED
      BY <3>1, <3>2
  <2>3. ASSUME NEW r \in Requests, req[r].route \in Editing, actor'.roles = req[r].ctx.roles
        PROVE  ~Idler
    <3>1. Writer(req[r].ctx)
      BY <2>3, WriteNeedsMember DEF GwInv, Held, Idle, Editing, Uploads
    <3> QED
      BY <2>3, <3>1 DEF Writer
  <2>4. ASSUME NEW r \in Requests, Starts(r) \/ Ends(r) PROVE Within
    <3>1. UNCHANGED <<rows, objects, spec>>
      BY <2>4 DEF Starts, UpdateDataset, UploadSample, ExportVersion, Ends, ProfileFails, RequestLost
    <3> QED
      BY <3>1
  <2>5. ASSUME NEW r \in Requests, Saves(r) \/ PutSample(r) \/ SaveProfile(r) PROVE Within
    <3>1. req[r].route \in Editing /\ actor'.roles = req[r].ctx.roles
      BY <2>5 DEF Saves, SaveUpdate, SaveFields, PutSample, SaveProfile, By, Editing, Uploads
    <3>2. Kept
      BY <2>5 DEF Saves, SaveUpdate, SaveFields, PutSample, SaveProfile, Registries
    <3> QED
      BY <2>3, <3>1, <3>2
  <2>6. ASSUME NEW r \in Requests, PutExport(r) PROVE Within
    <3>1. UNCHANGED <<rows, spec>>
      BY <2>6 DEF PutExport
    <3>2. ASSUME NEW o \in objects' \ objects PROVE o.key[1] = "export"
      <4>1. PICK v \in rows :
               objects' = Put(req[r].ctx.tenant,
                              ExportKey(req[r].ds, req[r].ver, ExtensionOf(v, req[r].name)),
                              <<req[r].ver, req[r].name>>)
        BY <2>6, ExportPut
      <4> QED
        BY <3>2, <4>1 DEF Put, ExportKey
    <3> QED
      BY <3>1, <3>2
  <2>7. ASSUME NEW r \in Requests, AddExport(r) PROVE Within
    <3>1. UNCHANGED <<objects, spec>> /\ rows \subseteq rows'
      BY <2>7 DEF AddExport, Insert
    <3>2. \A x \in rows' \ rows : x.tbl = "export_artifacts"
      BY <2>7 DEF AddExport, Insert, ExportRow, Row
    <3> QED
      BY <3>1, <3>2
  <2>8. ASSUME NEW x \in rows, \/ x.tbl = "generation_jobs" /\ VersionRegistered(x)
                               \/ x.tbl = "evaluation_runs" /\ ReportWritten(x)
        PROVE  Within
    <3>1. ~Idler
      BY <2>8 DEF VersionRegistered, ReportWritten
    <3>2. \A y \in rows \ rows' : y = x
      BY <2>8 DEF VersionRegistered, ReportWritten
    <3> QED
      BY <2>8, <3>1, <3>2 DEF Registries
  <2> QED
    BY <2>1, <2>2, <2>4, <2>5, <2>6, <2>7, <2>8, StepCases
<1>2. [Within]_vars => [LET gone == rows \ rows'  new == rows' \ rows  IN
         /\ actor'.roles \cap {"member", "admin", "owner", "worker"} = {} =>
                /\ gone = {} /\ spec' = spec
                /\ \A x \in new : x.tbl = "export_artifacts"
                /\ \A o \in objects' \ objects : o.key[1] = "export"
         /\ actor'.roles \cap {"admin", "owner"} = {} =>
                \A x \in gone : x.tbl \notin {"model_configs", "image_provider_configs",
                                              "video_provider_configs", "audio_provider_configs"}]_vars
  BY DEF Registries
<1> QED
  BY <1>1, <1>2, InvHolds, PTL DEF Spec, RolesLimitChanges

-----------------------------------------------------------------------------
(* The results: tenants do not interfere.                                  *)

\* What tenant t has in the tables and in the bucket stays.
Untouched(t) ==
    /\ \A x : x.tenant = t => (x \in rows <=> x \in rows')
    /\ \A o : o.tenant = t => (o \in objects <=> o \in objects')
    /\ \A x \in rows : x.tbl = "datasets" /\ x.tenant = t => spec'[x.id] = spec[x.id]

\* A step for one tenant leaves the rows, objects and columns of the others.
LEMMA OthersUntouched ==
    ASSUME GwInv, Next, NEW t, t # actor'.tenant
    PROVE  Untouched(t)
<1>1. \A x : x.tenant = t => (x \in rows <=> x \in rows')
  BY RowsStep DEF RowsChange
<1>2. \A o : o.tenant = t => (o \in objects <=> o \in objects')
  BY ObjectsStep DEF ObjectsChange
<1>3. ASSUME NEW x \in rows, x.tbl = "datasets", x.tenant = t, spec'[x.id] # spec[x.id] PROVE FALSE
  <2>1. x.id \in Ids
    BY DEF GwInv, Shaped, IsRow
  <2>2. Owns(actor.tenant, x.id)'
    BY <1>3, <2>1, SpecStep
  <2>3. x \in rows' /\ Unique'
    BY <1>1, <1>3, RowsStep DEF RowsChange
  <2> QED
    BY <1>3, <2>2, <2>3 DEF Owns, Unique
<1> QED
  BY <1>1, <1>2, <1>3 DEF Untouched

\* A query filters by tenant, so it answers from rows that stay: row-level security
\* is not needed for that.
LEMMA QueriesKept ==
    ASSUME NEW t, Untouched(t)
    PROVE  /\ ListModels(t)' = ListModels(t) /\ ListImages(t)' = ListImages(t)
           /\ ListVideos(t)' = ListVideos(t) /\ ListAudios(t)' = ListAudios(t)
           /\ ListSpecs(t)' = ListSpecs(t)
           /\ \A i : /\ GetModel(t, i)' = GetModel(t, i) /\ GetImage(t, i)' = GetImage(t, i)
                     /\ GetVideo(t, i)' = GetVideo(t, i) /\ GetAudio(t, i)' = GetAudio(t, i)
                     /\ GetSpec(t, i)' = GetSpec(t, i) /\ GetJob(t, i)' = GetJob(t, i)
                     /\ ListVersions(t, i)' = ListVersions(t, i)
                     /\ GetVersion(t, i)' = GetVersion(t, i)
                     /\ GetProfile(t, i)' = GetProfile(t, i)
                     /\ GetPertJob(t, i)' = GetPertJob(t, i)
                     /\ ListPertJobs(t, i)' = ListPertJobs(t, i)
                     /\ ListExports(t, i)' = ListExports(t, i)
                     /\ GetRun(t, i)' = GetRun(t, i) /\ ListRuns(t, i)' = ListRuns(t, i)
                     /\ GetExpertResults(t, i)' = GetExpertResults(t, i)
                     /\ GetReview(t, i)' = GetReview(t, i)
           /\ \A i, j : /\ ListAnnotations(t, i, j)' = ListAnnotations(t, i, j)
                        /\ ListFeedback(t, i, j)' = ListFeedback(t, i, j)
           /\ \A statuses : ListReviews(t, statuses)' = ListReviews(t, statuses)
           /\ \A key : GetObject(t, key)' = GetObject(t, key)
<1>1. \A x : x.tenant = t => (x \in rows <=> x \in rows')
  BY DEF Untouched
<1>2. /\ ListModels(t)' = ListModels(t) /\ ListImages(t)' = ListImages(t)
      /\ ListVideos(t)' = ListVideos(t) /\ ListAudios(t)' = ListAudios(t)
      /\ ListSpecs(t)' = ListSpecs(t)
  BY <1>1 DEF ListModels, ListImages, ListVideos, ListAudios, ListSpecs, Session
<1>3. \A i : /\ GetModel(t, i)' = GetModel(t, i) /\ GetImage(t, i)' = GetImage(t, i)
             /\ GetVideo(t, i)' = GetVideo(t, i) /\ GetAudio(t, i)' = GetAudio(t, i)
  BY <1>1 DEF GetModel, GetImage, GetVideo, GetAudio, Session
<1>4. \A i : /\ GetSpec(t, i)' = GetSpec(t, i) /\ GetJob(t, i)' = GetJob(t, i)
             /\ ListVersions(t, i)' = ListVersions(t, i) /\ GetVersion(t, i)' = GetVersion(t, i)
             /\ GetProfile(t, i)' = GetProfile(t, i) /\ GetPertJob(t, i)' = GetPertJob(t, i)
  BY <1>1 DEF GetSpec, GetJob, ListVersions, GetVersion, GetProfile, GetPertJob, Session
<1>5. \A i : /\ ListPertJobs(t, i)' = ListPertJobs(t, i) /\ ListExports(t, i)' = ListExports(t, i)
             /\ GetRun(t, i)' = GetRun(t, i) /\ ListRuns(t, i)' = ListRuns(t, i)
             /\ GetExpertResults(t, i)' = GetExpertResults(t, i)
             /\ GetReview(t, i)' = GetReview(t, i)
  BY <1>1 DEF ListPertJobs, ListExports, GetRun, ListRuns, GetExpertResults, GetReview, Session
<1>6. \A i, j : /\ ListAnnotations(t, i, j)' = ListAnnotations(t, i, j)
                /\ ListFeedback(t, i, j)' = ListFeedback(t, i, j)
  BY <1>1 DEF ListAnnotations, ListFeedback, Session
<1>7. \A statuses : ListReviews(t, statuses)' = ListReviews(t, statuses)
  BY <1>1 DEF ListReviews, Session
<1>8. \A key : GetObject(t, key)' = GetObject(t, key)
  BY DEF Untouched, GetObject
<1> QED
  BY <1>2, <1>3, <1>4, <1>5, <1>6, <1>7, <1>8

\* The routes that look rows up, and those that go on to the spec or the bucket.
LEMMA AnswersKept ==
    ASSUME NEW c, Untouched(c.tenant)
    PROVE  View(c)' = View(c)
<1> DEFINE t == c.tenant
<1>1. /\ Invoke(c)' = Invoke(c) /\ GetJobStatus(c)' = GetJobStatus(c)
      /\ DatasetVersions(c)' = DatasetVersions(c) /\ GetEvaluation(c)' = GetEvaluation(c)
  BY QueriesKept DEF Invoke, GetJobStatus, DatasetVersions, GetEvaluation, All
<1>2. /\ GetReviewTask(c)' = GetReviewTask(c) /\ PerturbationJob(c)' = PerturbationJob(c)
      /\ PertJobs(c)' = PertJobs(c) /\ Reviews(c)' = Reviews(c)
  BY QueriesKept DEF GetReviewTask, PerturbationJob, PertJobs, Reviews, All
<1>3. Annotations(c)' = Annotations(c)
  BY QueriesKept DEF Annotations, All
<1>4. Internal(t)' = Internal(t)
  BY QueriesKept DEF Internal
<1>5. \A r \in ListSpecs(t) : spec'[r.id] = spec[r.id]
  BY Sees DEF Untouched, ListSpecs
<1>6. \A r \in All([d \in Ids |-> GetSpec(t, d)]) : spec'[r.id] = spec[r.id]
  BY Sees DEF Untouched, GetSpec, All
<1>7. All([d \in Ids |-> GetSpec(t, d)])' = All([d \in Ids |-> GetSpec(t, d)])
  BY QueriesKept DEF All
<1>8. All([i \in Ids |-> GetVersion(t, i)])' = All([i \in Ids |-> GetVersion(t, i)])
  BY QueriesKept DEF All
<1>9. ListDatasets(c)' = ListDatasets(c)
  BY <1>5, QueriesKept DEF ListDatasets
<1>10. GetDataset(c)' = GetDataset(c)
  BY <1>6, <1>7 DEF GetDataset
<1>11. TaskMetrics(c)' = TaskMetrics(c)
  <2> DEFINE V == All([i \in Ids |-> GetVersion(t, i)])
             D == All([d \in Ids |-> GetSpec(t, d)])
  <2>1. V' = V /\ D' = D /\ \A r \in D : spec'[r.id] = spec[r.id]
    BY <1>6, <1>7, <1>8
  <2>2. \A e : e \in TaskMetrics(c) <=>
                   \E v \in V, r \in D : e = <<v.id, r, spec[r.id]["fields"]>>
    BY DEF TaskMetrics
  <2>3. \A e : e \in TaskMetrics(c)' <=>
                   \E v \in V', r \in D' : e = <<v.id, r, spec'[r.id]["fields"]>>
    BY DEF TaskMetrics
  <2> HIDE DEF V, D
  <2>4. \A e : e \in TaskMetrics(c)' <=> e \in TaskMetrics(c)
    BY <2>1, <2>2, <2>3
  <2> QED
    BY <2>4
<1>12. DownloadVersion(c)' = DownloadVersion(c)
  BY <1>1, QueriesKept DEF DownloadVersion
<1>13. ASSUME NEW format PROVE Report(c, format)' = Report(c, format)
  BY <1>1, QueriesKept DEF Report
<1>14. /\ ListModels(t)' = ListModels(t) /\ ListImages(t)' = ListImages(t)
       /\ ListVideos(t)' = ListVideos(t) /\ ListAudios(t)' = ListAudios(t)
  BY QueriesKept
<1> QED
  BY <1>1, <1>2, <1>3, <1>4, <1>9, <1>10, <1>11, <1>12, <1>13, <1>14 DEF View, Answer

\* A step for one tenant changes no answer a caller of another gets, whether or not
\* the database enforces row-level security.
THEOREM TenantsDoNotInterfere == Spec => Noninterference
<1> DEFINE Apart == \A c \in Contexts : c.tenant # actor'.tenant => View(c)' = View(c)
<1>1. GwInv /\ [Next]_vars => [Apart]_vars
  <2> SUFFICES ASSUME GwInv, Next, NEW c \in Contexts, c.tenant # actor'.tenant
               PROVE  View(c)' = View(c)
    OBVIOUS
  <2> QED
    BY OthersUntouched, AnswersKept
<1> QED
  BY <1>1, InvHolds, PTL DEF Spec, Noninterference
=============================================================================
