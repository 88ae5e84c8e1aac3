---------------------------- MODULE TenantStore ----------------------------
(***************************************************************************)
(* Tenancy and storage of the gateway: tokens and permissions, the tenant  *)
(* tables with row-level security, the queries of the SQL repositories,    *)
(* and the tenant-prefixed object store.                                   *)
(*                                                                         *)
(* A row is its table, its id, its tenant and the columns the routes look  *)
(* at: the dataset it belongs to, one or two references, and a word.  Each *)
(* repository method runs in one tenant_session, which is one transaction  *)
(* and here one step.  rls tells whether the database enforces the         *)
(* policies: the queries carry their own filter in case it does not.       *)
(***************************************************************************)
EXTENDS Integers

CONSTANTS Tenants,        \* organisations
          Tokens,         \* claims of the tokens the identity provider issues
          Ids             \* uuids a table's rows draw from

VARIABLES rows,           \* the rows of all tables
          objects,        \* what the bucket holds
          rls             \* whether row-level security is enforced

None == 0

ASSUME IdsAssumption == Ids \subseteq Nat \ {None}
ASSUME TokensAssumption ==
    \A k \in Tokens : {k.org, k.tenant} \subseteq Tenants \cup {"none"}

---------------------------------------------------------------------------
(* Who calls.                                                              *)

Role == {"viewer", "member", "admin", "owner"}

Scopes == {"models", "image_providers", "video_providers", "audio_providers"}

Viewer == {<<s, "read">> : s \in Scopes \cup
              {"datasets", "perturbations", "evaluations", "annotations", "reviews"}}

Member == Viewer \cup {<<"llm", "invoke">>} \cup
          {<<s, "write">> : s \in Scopes \cup
              {"datasets", "perturbations", "evaluations", "annotations", "reviews"}}

Admin == Member \cup {<<"users", "read">>} \cup {<<s, "delete">> : s \in Scopes}

PERMISSIONS == [viewer |-> Viewer, member |-> Member, admin |-> Admin,
                owner |-> Admin \cup {<<"users", "write">>, <<"tenant", "admin">>}]

\* The contexts TokenValidator.validate makes: org_id before tenant_id, a token
\* without either is refused, roles it does not know are dropped.
Contexts ==
    {[tenant |-> IF k.org # "none" THEN k.org ELSE k.tenant, roles |-> k.roles \cap Role] :
        k \in {k \in Tokens : k.org # "none" \/ k.tenant # "none"}}

Permitted(ctx, scope, verb) == \E role \in ctx.roles : <<scope, verb>> \in PERMISSIONS[role]

---------------------------------------------------------------------------
(* The tables.                                                             *)

TenantTables ==
    {"model_configs", "datasets", "generation_jobs", "dataset_versions", "dataset_profiles",
     "perturbation_jobs", "image_provider_configs", "video_provider_configs",
     "audio_provider_configs", "export_artifacts", "evaluation_runs",
     "evaluation_expert_results", "annotations", "feedback", "review_tasks"}

Row(tbl, id, t, ds, ref, ref2, val) ==
    [tbl |-> tbl, id |-> id, tenant |-> t, ds |-> ds, ref |-> ref, ref2 |-> ref2, val |-> val]

\* The rows of a table that a transaction of tenant t can see or touch.
Session(tbl, t) == {r \in rows : r.tbl = tbl /\ (rls /\ tbl \in TenantTables => r.tenant = t)}

\* A new uuid: the least id unused in the table stands for any of them.
Fresh(tbl) == LET free == Ids \ {r.id : r \in {x \in rows : x.tbl = tbl}}
              IN  {i \in free : \A j \in free : i <= j}

---------------------------------------------------------------------------
(* SqlModelRegistry and its three copies for image, video and audio.       *)

ModelRow(t, id, provider) == Row("model_configs", id, t, None, None, None, provider)
GetModel(t, id)  == {r \in Session("model_configs", t) : r.id = id /\ r.tenant = t}
ListModels(t)    == {r \in Session("model_configs", t) : r.tenant = t}

ImageRow(t, id, provider) == Row("image_provider_configs", id, t, None, None, None, provider)
GetImage(t, id)  == {r \in Session("image_provider_configs", t) : r.id = id /\ r.tenant = t}
ListImages(t)    == {r \in Session("image_provider_configs", t) : r.tenant = t}

VideoRow(t, id, provider) == Row("video_provider_configs", id, t, None, None, None, provider)
GetVideo(t, id)  == {r \in Session("video_provider_configs", t) : r.id = id /\ r.tenant = t}
ListVideos(t)    == {r \in Session("video_provider_configs", t) : r.tenant = t}

AudioRow(t, id, provider) == Row("audio_provider_configs", id, t, None, None, None, provider)
GetAudio(t, id)  == {r \in Session("audio_provider_configs", t) : r.id = id /\ r.tenant = t}
ListAudios(t)    == {r \in Session("audio_provider_configs", t) : r.tenant = t}

\* What DELETE ... WHERE id AND tenant_id removes, for each registry.
DeletedModel(t, id) == {r \in Session("model_configs", t) : r.id = id /\ r.tenant = t}
DeletedImage(t, id) == {r \in Session("image_provider_configs", t) : r.id = id /\ r.tenant = t}
DeletedVideo(t, id) == {r \in Session("video_provider_configs", t) : r.id = id /\ r.tenant = t}
DeletedAudio(t, id) == {r \in Session("audio_provider_configs", t) : r.id = id /\ r.tenant = t}

\* The default model: one of the preferred provider if there is one, else the
\* first (the order the database returns rows in is open).
PickDefaultModel(configs, preferred) ==
    LET best == {c \in configs : c.val = preferred}
    IN  IF best # {} THEN best ELSE configs

---------------------------------------------------------------------------
(* SqlDatasetRepository, SqlExportRepository.                              *)

SpecRow(t, id, source)       == Row("datasets", id, t, None, None, None, source)
GetSpec(t, d)                == {r \in Session("datasets", t) : r.id = d /\ r.tenant = t}
ListSpecs(t)                 == {r \in Session("datasets", t) : r.tenant = t}
JobRow(t, id, d)             == Row("generation_jobs", id, t, d, None, None, "pending")
GetJob(t, id)                == {r \in Session("generation_jobs", t) : r.id = id /\ r.tenant = t}
VersionRow(t, id, d, n, fmt) == Row("dataset_versions", id, t, d, n, None, fmt)
ListVersions(t, d)           == {r \in Session("dataset_versions", t) : r.ds = d /\ r.tenant = t}
GetVersion(t, v)             == {r \in Session("dataset_versions", t) : r.id = v /\ r.tenant = t}
GetProfile(t, d)             == {r \in Session("dataset_profiles", t) : r.ds = d /\ r.tenant = t}
PertRow(t, id, d, v)         == Row("perturbation_jobs", id, t, d, v, None, "pending")
GetPertJob(t, id)            == {r \in Session("perturbation_jobs", t) : r.id = id /\ r.tenant = t}
ListPertJobs(t, d)           == {r \in Session("perturbation_jobs", t) : r.ds = d /\ r.tenant = t}
ExportRow(t, id, d, v, fmt)  == Row("export_artifacts", id, t, d, v, None, fmt)
ListExports(t, d)            == {r \in Session("export_artifacts", t) : r.ds = d /\ r.tenant = t}

(* SqlEvaluationRepository.                                                *)

RunRow(t, id, d, v, refv)    == Row("evaluation_runs", id, t, d, v, refv, "pending")
GetRun(t, id)                == {r \in Session("evaluation_runs", t) : r.id = id /\ r.tenant = t}
ListRuns(t, d)               == {r \in Session("evaluation_runs", t) : r.ds = d /\ r.tenant = t}
GetExpertResults(t, run)     ==
    {r \in Session("evaluation_expert_results", t) : r.ref = run /\ r.tenant = t}

(* SqlAnnotationRepository, SqlFeedbackRepository, SqlReviewRepository.    *)

AnnotationRow(t, id, d, v)   == Row("annotations", id, t, d, v, None, "label")
ListAnnotations(t, d, v)     ==
    {r \in Session("annotations", t) : r.ds = d /\ r.ref = v /\ r.tenant = t}
\* Mutant: DELETE by id alone.
DeletedById(t, id)           == {r \in Session("annotations", t) : r.id = id}
DeletedAnnotation(t, id)     == {r \in Session("annotations", t) : r.id = id /\ r.tenant = t}
FeedbackRow(t, id, type, x)  == Row("feedback", id, t, None, x, None, type)
ListFeedback(t, type, x)     ==
    {r \in Session("feedback", t) : r.val = type /\ r.ref = x /\ r.tenant = t}
ReviewRow(t, id, d)          == Row("review_tasks", id, t, d, d, None, "pending")
GetReview(t, id)             == {r \in Session("review_tasks", t) : r.id = id /\ r.tenant = t}
ListReviews(t, statuses)     ==
    {r \in Session("review_tasks", t) : r.tenant = t /\ r.val \in statuses}
SavedReview(t, id)           == {r \in Session("review_tasks", t) : r.id = id /\ r.tenant = t}

---------------------------------------------------------------------------
(* S3ObjectStore: the keys of one tenant carry its id as a prefix.  A key  *)
(* is a kind, two numbers and an extension; data is a tuple of numbers and *)
(* words that says what was written.                                       *)

Put(t, key, data) ==
    {o \in objects : ~(o.tenant = t /\ o.key = key)}
        \cup {[tenant |-> t, key |-> key, data |-> data]}

GetObject(t, key) == {o \in objects : o.tenant = t /\ o.key = key}

=============================================================================
