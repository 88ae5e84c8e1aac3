------------------------------ MODULE Gateway ------------------------------
(***************************************************************************)
(* The gateway's dataset, provider, export, evaluation and review routes   *)
(* over the tenants' tables and objects.                                   *)
(*                                                                         *)
(* A route that awaits once is one step.  update_dataset, upload_sample    *)
(* and export_version read, await and write: they run in a request slot,   *)
(* one step per write, and other requests run in between.  A request that  *)
(* is refused changes nothing and is no step.  Each accepted request has a *)
(* number (served + 1, at most MaxRequests); a column of a dataset spec    *)
(* holds the number of the request whose value it has, 0 for the first     *)
(* value, and so does a sample.                                            *)
(***************************************************************************)
EXTENDS TenantStore

CONSTANTS Requests,       \* slots of requests that await between writes
          MaxRequests,    \* requests that are served
          Edits,          \* the sets of columns a PATCH body may name
          ReqFormats,     \* the formats an export asks for, "none" included
          RowCounts,      \* row counts of versions
          LARGE_DATASET_ROW_THRESHOLD

VARIABLES spec,           \* columns of each dataset row
          req,            \* what each slot is doing
          served,         \* requests accepted so far
          actor,          \* whose step the last one was
          rev,            \* history: saves of each dataset row
          raced           \* history: datasets with an upload that overlapped or failed

vars == <<rows, objects, rls, spec, req, served, actor, rev, raced>>

Columns == {"name", "target_rows", "fields", "directives"}

Idle == [route |-> "none", ctx |-> [tenant |-> "none", roles |-> {}], ds |-> None, ver |-> None,
         tag |-> 0, copy |-> [c \in Columns |-> 0], rev |-> 0, asked |-> {}, name |-> "none"]

---------------------------------------------------------------------------
(* Object keys, kind first.                                                *)

SampleKey(d, name)     == <<"sample", d, None, name>>
ArtifactKey(d, v)      == <<"artifact", d, v, "data">>
ExportKey(d, v, ext)   == <<"export", d, v, ext>>
ReportKey(run, format) == <<"report", run, None, format>>

---------------------------------------------------------------------------
(* Bookkeeping of a step: who took it, and the requests left.              *)

By(ctx, r) == actor' = [tenant |-> ctx.tenant, roles |-> ctx.roles, slot |-> r]

Accept(ctx, scope, verb, r) ==
    /\ served < MaxRequests
    /\ Permitted(ctx, scope, verb)
    /\ served' = served + 1
    /\ By(ctx, r)

Insert(row) == rows' = rows \cup {row}

\* A route whose only write is to the tables.
TableStep == UNCHANGED <<objects, rls, spec, req, rev, raced>>

---------------------------------------------------------------------------
(* Provider configurations.                                                *)

RegisterModel(ctx) ==
    /\ Accept(ctx, "models", "write", Idle) /\ TableStep
    /\ \E id \in Fresh("model_configs"), p \in {"gemini", "ollama"} :
           Insert(ModelRow(ctx.tenant, id, p))

RegisterImageProvider(ctx) ==
    /\ Accept(ctx, "image_providers", "write", Idle) /\ TableStep
    /\ \E id \in Fresh("image_provider_configs") : Insert(ImageRow(ctx.tenant, id, "openai-images"))

RegisterVideoProvider(ctx) ==
    /\ Accept(ctx, "video_providers", "write", Idle) /\ TableStep
    /\ \E id \in Fresh("video_provider_configs") : Insert(VideoRow(ctx.tenant, id, "external"))

RegisterAudioProvider(ctx) ==
    /\ Accept(ctx, "audio_providers", "write", Idle) /\ TableStep
    /\ \E id \in Fresh("audio_provider_configs") : Insert(AudioRow(ctx.tenant, id, "elevenlabs"))

\* Mutant: the delete route asks for models:write.
DeleteModelAsMember(ctx) ==
    /\ Accept(ctx, "models", "write", Idle) /\ TableStep
    /\ \E id \in Ids : rows' = rows \ DeletedModel(ctx.tenant, id)

DeleteModel(ctx) ==
    /\ Accept(ctx, "models", "delete", Idle) /\ TableStep
    /\ \E id \in Ids : rows' = rows \ DeletedModel(ctx.tenant, id)

DeleteImageProvider(ctx) ==
    /\ Accept(ctx, "image_providers", "delete", Idle) /\ TableStep
    /\ \E id \in Ids : rows' = rows \ DeletedImage(ctx.tenant, id)

DeleteVideoProvider(ctx) ==
    /\ Accept(ctx, "video_providers", "delete", Idle) /\ TableStep
    /\ \E id \in Ids : rows' = rows \ DeletedVideo(ctx.tenant, id)

DeleteAudioProvider(ctx) ==
    /\ Accept(ctx, "audio_providers", "delete", Idle) /\ TableStep
    /\ \E id \in Ids : rows' = rows \ DeletedAudio(ctx.tenant, id)

---------------------------------------------------------------------------
(* Datasets.                                                               *)

CreateSpec(ctx, source, columns) ==
    /\ \E id \in Fresh("datasets") :
           /\ Insert(SpecRow(ctx.tenant, id, source))
           /\ spec' = [spec EXCEPT ![id] = columns]
    /\ UNCHANGED <<objects, rls, req, rev, raced>>

\* A draft for a sample has no fields and, unless the body gives it, no target.
Draft == [c \in Columns |-> IF c \in {"fields", "target_rows"} THEN 0 ELSE served + 1]
Full  == [c \in Columns |-> served + 1]

\* The dependencies of create_dataset resolve a proposer for every body, so a
\* tenant without a model is refused whatever the source; a proposal that comes
\* back malformed or empty is refused as well.
HasModel(ctx) == PickDefaultModel(ListModels(ctx.tenant), "gemini") # {}

CreateDataset(ctx) ==
    /\ Accept(ctx, "datasets", "write", Idle)
    /\ HasModel(ctx)
    /\ \/ CreateSpec(ctx, "graph", Draft)
       \/ CreateSpec(ctx, "sample", Draft)
       \/ CreateSpec(ctx, "description", Full)

CreateAudioDataset(ctx) ==
    Accept(ctx, "datasets", "write", Idle) /\ CreateSpec(ctx, "audio", Full)

CreateImageDataset(ctx) ==
    /\ Accept(ctx, "datasets", "write", Idle)
    /\ \E labels \in BOOLEAN :
           CreateSpec(ctx, "image", [Full EXCEPT !["fields"] = IF labels THEN @ ELSE 0])

CreateFromTemplate(ctx) ==
    Accept(ctx, "datasets", "write", Idle) /\ CreateSpec(ctx, "template", Full)

Uploads == {"upload", "profile", "fields"}

Busy(d, routes) == \E r \in Requests : req[r].route \in routes /\ req[r].ds = d

\* The WHERE clause of update_spec.
UpdateSpec(t, d, columns) ==
    /\ spec' = [i \in Ids |-> IF GetSpec(t, i) # {} /\ i = d THEN columns ELSE spec[i]]
    /\ rev' = [rev EXCEPT ![d] = @ + 1]

UpdateDataset(r, ctx) ==
    /\ req[r] = Idle
    /\ \E d \in Ids, asked \in Edits :
           /\ GetSpec(ctx.tenant, d) # {}
           /\ req' = [req EXCEPT ![r] = [Idle EXCEPT
                  !.route = "update", !.ctx = ctx, !.ds = d, !.tag = served + 1,
                  !.copy = spec[d], !.rev = rev[d], !.asked = asked]]
           /\ raced' = IF Busy(d, Uploads) THEN raced \cup {d} ELSE raced
    /\ Accept(ctx, "datasets", "write", req'[r])
    /\ UNCHANGED <<rows, objects, rls, spec, rev>>

\* Mutant: directives are assigned without the test for None.
MergedDirectives(q) ==
    [c \in Columns |-> IF c \in q.asked \cup {"directives"} THEN q.tag ELSE q.copy[c]]

Merged(q) == [c \in Columns |-> IF c \in q.asked THEN q.tag ELSE q.copy[c]]

SaveUpdate(r) ==
    /\ req[r].route = "update"
    /\ UpdateSpec(req[r].ctx.tenant, req[r].ds, Merged(req[r]))
    /\ req' = [req EXCEPT ![r] = Idle]
    /\ By(req[r].ctx, req[r])
    /\ UNCHANGED <<rows, objects, rls, served, raced>>

---------------------------------------------------------------------------
(* upload_sample: check, put the object, profile it, save the profile,     *)
(* save the spec.                                                          *)

\* Empty and oversized bodies are refused before anything is written.
UploadSample(r, ctx) ==
    /\ req[r] = Idle
    /\ \E d \in Ids, name \in {"s.csv", "s.txt"} :
           /\ \E row \in GetSpec(ctx.tenant, d) : row.val = "sample"
           /\ req' = [req EXCEPT ![r] = [Idle EXCEPT
                  !.route = "upload", !.ctx = ctx, !.ds = d, !.tag = served + 1,
                  !.copy = spec[d], !.rev = rev[d], !.name = name]]
           /\ raced' = IF Busy(d, Uploads \cup {"update"}) THEN raced \cup {d} ELSE raced
    /\ Accept(ctx, "datasets", "write", req'[r])
    /\ UNCHANGED <<rows, objects, rls, spec, rev>>

PutSample(r) ==
    /\ req[r].route = "upload"
    /\ objects' = Put(req[r].ctx.tenant, SampleKey(req[r].ds, req[r].name), <<req[r].tag, "sample">>)
    /\ req' = [req EXCEPT ![r].route = "profile"]
    /\ By(req[r].ctx, req[r])
    /\ UNCHANGED <<rows, rls, spec, served, rev, raced>>

\* The extension is refused with 400, bytes that do not parse with 500: either
\* way the object stays.
ProfileFails(r) ==
    /\ req[r].route = "profile"
    /\ req' = [req EXCEPT ![r] = Idle]
    /\ raced' = raced \cup {req[r].ds}
    /\ By(req[r].ctx, req[r])
    /\ UNCHANGED <<rows, objects, rls, spec, served, rev>>

ProfileRow(t, d, tag, name) == Row("dataset_profiles", d, t, d, tag, None, name)

\* Mutant: the upsert does nothing on conflict.
KeepProfile(r) ==
    LET q == req[r] IN
    /\ q.route = "profile" /\ q.name = "s.csv"
    /\ rows' = IF GetProfile(q.ctx.tenant, q.ds) # {} THEN rows
               ELSE rows \cup {ProfileRow(q.ctx.tenant, q.ds, q.tag, q.name)}
    /\ req' = [req EXCEPT ![r].route = "fields", ![r].asked = {"fields"}]
    /\ By(q.ctx, q)
    /\ UNCHANGED <<objects, rls, spec, served, rev, raced>>

\* An upsert on the dataset's id; the columns the upload then sets in the spec.
SaveProfile(r) ==
    LET q == req[r] IN
    /\ q.route = "profile" /\ q.name = "s.csv"
    /\ rows' = (rows \ {x \in rows : x.tbl = "dataset_profiles" /\ x.ds = q.ds})
                   \cup {ProfileRow(q.ctx.tenant, q.ds, q.tag, q.name)}
    /\ req' = [req EXCEPT ![r].route = "fields",
                          ![r].asked = {"fields"} \cup
                              {c \in {"target_rows"} : q.copy[c] = 0}]
    /\ By(q.ctx, q)
    /\ UNCHANGED <<objects, rls, spec, served, rev, raced>>

SaveFields(r) ==
    /\ req[r].route = "fields"
    /\ UpdateSpec(req[r].ctx.tenant, req[r].ds, Merged(req[r]))
    /\ req' = [req EXCEPT ![r] = Idle]
    /\ By(req[r].ctx, req[r])
    /\ UNCHANGED <<rows, objects, rls, served, raced>>

---------------------------------------------------------------------------
(* Launching work, and what the workers write for it.                      *)

\* A tabular dataset needs fields, text and graph ones a model of the tenant.
StartGeneration(ctx) ==
    /\ Accept(ctx, "datasets", "write", Idle) /\ TableStep
    /\ \E d \in Ids, id \in Fresh("generation_jobs"), review \in BOOLEAN :
           \E row \in GetSpec(ctx.tenant, d) :
           /\ row.val \in {"sample", "template", "description"} => spec[d]["fields"] # 0
           /\ row.val = "graph" =>
                  \/ HasModel(ctx)
                  \/ \E m \in Ids : GetModel(ctx.tenant, m) # {}
           /\ \/ /\ ~review
                 /\ Insert(JobRow(ctx.tenant, id, d))
              \/ /\ review
                 /\ \E rid \in Fresh("review_tasks") :
                        rows' = rows \cup {JobRow(ctx.tenant, id, d), ReviewRow(ctx.tenant, rid, d)}

LaunchPerturbation(ctx) ==
    /\ Accept(ctx, "perturbations", "write", Idle) /\ TableStep
    /\ \E d \in Ids, v \in Ids, id \in Fresh("perturbation_jobs") :
           /\ GetSpec(ctx.tenant, d) # {}
           /\ v \in {x.id : x \in ListVersions(ctx.tenant, d)}
           /\ Insert(PertRow(ctx.tenant, id, d, v))

StartEvaluation(ctx) ==
    /\ Accept(ctx, "evaluations", "write", Idle) /\ TableStep
    /\ \E d \in Ids, v \in Ids, refv \in Ids \cup {None}, id \in Fresh("evaluation_runs") :
           LET ids == {x.id : x \in ListVersions(ctx.tenant, d)} IN
           /\ v \in ids
           /\ refv # None => refv \in ids
           /\ Insert(RunRow(ctx.tenant, id, d, v, refv))

\* A worker registers a version of a dataset that has a job, as the artifact
\* format of its modality; a report and its results for a run.
VersionRegistered(job) ==
    /\ \E id \in Fresh("dataset_versions"), n \in RowCounts :
       \E row \in GetSpec(job.tenant, job.ds) :
           LET fmt == CASE row.val = "graph" -> "graph_json"
                        [] row.val = "image" -> "image_manifest"
                        [] row.val = "audio" -> "audio_manifest"
                        [] OTHER -> "parquet"
           IN  /\ rows' = (rows \ {job}) \cup {VersionRow(job.tenant, id, job.ds, n, fmt)}
               /\ objects' = Put(job.tenant, ArtifactKey(job.ds, id), <<id, fmt>>)
    /\ actor' = [tenant |-> job.tenant, roles |-> {"worker"}, slot |-> Idle]
    /\ UNCHANGED <<rls, spec, req, served, rev, raced>>

ReportWritten(run) ==
    /\ run.val = "pending"
    /\ \E id \in Fresh("evaluation_expert_results") :
           rows' = (rows \ {run}) \cup {[run EXCEPT !.val = "reported"],
                Row("evaluation_expert_results", id, run.tenant, None, run.id, None, "score")}
    /\ objects' = objects \cup
           {[tenant |-> run.tenant, key |-> ReportKey(run.id, f), data |-> <<run.id, f>>] :
               f \in {"json", "html"}}
    /\ actor' = [tenant |-> run.tenant, roles |-> {"worker"}, slot |-> Idle]
    /\ UNCHANGED <<rls, spec, req, served, rev, raced>>

Worker == \E x \in rows : \/ x.tbl = "generation_jobs" /\ VersionRegistered(x)
                          \/ x.tbl = "evaluation_runs" /\ ReportWritten(x)

---------------------------------------------------------------------------
(* Annotations, feedback, reviews.                                         *)

\* Mutant: the version's dataset is not compared with the path.
AnnotationOnAnyVersion(ctx) ==
    /\ Accept(ctx, "annotations", "write", Idle) /\ TableStep
    /\ \E d \in Ids, v \in Ids, id \in Fresh("annotations") :
           /\ GetSpec(ctx.tenant, d) # {} /\ GetVersion(ctx.tenant, v) # {}
           /\ Insert(AnnotationRow(ctx.tenant, id, d, v))

CreateAnnotation(ctx) ==
    /\ Accept(ctx, "annotations", "write", Idle) /\ TableStep
    /\ \E d \in Ids, v \in Ids, id \in Fresh("annotations") :
           /\ GetSpec(ctx.tenant, d) # {}
           /\ \E x \in GetVersion(ctx.tenant, v) : x.ds = d
           /\ Insert(AnnotationRow(ctx.tenant, id, d, v))

DeleteAnnotation(ctx) ==
    /\ Accept(ctx, "annotations", "write", Idle) /\ TableStep
    /\ \E id \in Ids : /\ DeletedAnnotation(ctx.tenant, id) # {}
                       /\ rows' = rows \ DeletedAnnotation(ctx.tenant, id)

CreateFeedback(ctx) ==
    /\ Accept(ctx, "annotations", "write", Idle) /\ TableStep
    /\ \E x \in Ids, id \in Fresh("feedback") :
           \/ /\ GetVersion(ctx.tenant, x) # {}
              /\ Insert(FeedbackRow(ctx.tenant, id, "dataset_version", x))
           \/ /\ GetRun(ctx.tenant, x) # {}
              /\ Insert(FeedbackRow(ctx.tenant, id, "evaluation_run", x))

\* One decision at a time; GenerationReview has the overlapping ones.
DecideReview(ctx) ==
    /\ Accept(ctx, "reviews", "write", Idle) /\ TableStep
    /\ \E id \in Ids, status \in {"approved", "rejected", "changes_requested"} :
           /\ \E x \in GetReview(ctx.tenant, id) : x.val = "pending"
           /\ rows' = (rows \ SavedReview(ctx.tenant, id)) \cup
                          {[x EXCEPT !.val = status] : x \in SavedReview(ctx.tenant, id)}

---------------------------------------------------------------------------
(* export_version, PyArrowExporter and GraphExporter.                      *)

TabularFormats == {"csv", "json", "parquet", "arrow"}

\* Mutant: OWL is stored under the extension of RDF/XML.
GraphExtensionOwl(fmt) == CASE fmt \in {"rdfxml", "owl"} -> "rdf"
                            [] fmt = "graph_json" -> "json"
                            [] OTHER -> fmt

GraphExtension(fmt) == CASE fmt = "graph_json" -> "json"
                         [] fmt = "rdfxml" -> "rdf"
                         [] fmt = "neo4j-csv" -> "zip"
                         [] fmt = "graph-parquet" -> "parquet"
                         [] OTHER -> fmt

GraphFormats == {"graph_json", "owl", "graphml", "gexf", "cypher", "neo4j-csv", "npz",
                 "graph-parquet", "ttl", "nt", "jsonld", "rdfxml"}

ResolveFormat(rowCount, requested) ==
    CASE requested # "none" -> requested
      [] rowCount > LARGE_DATASET_ROW_THRESHOLD -> "parquet"
      [] OTHER -> "csv"

\* The format an export is made in, or "refused": a format of the other exporter
\* answers 400, a source that is neither parquet nor jsonl raises.
ExportAs(version, requested) ==
    IF version.val = "graph_json"
    THEN LET f == IF requested = "none" THEN "graph_json" ELSE requested
         IN  IF f \in GraphFormats THEN f ELSE "refused"
    ELSE LET f == ResolveFormat(version.ref, requested)
         IN  IF f \in TabularFormats /\ version.val \in {"parquet", "jsonl"} THEN f ELSE "refused"

ExtensionOf(version, fmt) == IF version.val = "graph_json" THEN GraphExtension(fmt) ELSE fmt

\* The artifact's bytes in another format.
Transcode(artifact, fmt) == <<artifact[1], fmt>>

ExportVersion(r, ctx) ==
    /\ req[r] = Idle
    /\ \E d \in Ids, requested \in ReqFormats : \E v \in ListVersions(ctx.tenant, d) :
           /\ requested \in TabularFormats \cup GraphFormats \cup {"none"}
           /\ ExportAs(v, requested) # "refused"
           /\ GetObject(ctx.tenant, ArtifactKey(d, v.id)) # {}
           /\ req' = [req EXCEPT ![r] = [Idle EXCEPT
                  !.route = "export", !.ctx = ctx, !.ds = d, !.ver = v.id, !.tag = served + 1,
                  !.name = ExportAs(v, requested)]]
    /\ Accept(ctx, "datasets", "read", req'[r])
    /\ UNCHANGED <<rows, objects, rls, spec, rev, raced>>

PutExport(r) ==
    LET q == req[r] IN
    /\ q.route = "export"
    /\ \E v \in GetVersion(q.ctx.tenant, q.ver),
          a \in GetObject(q.ctx.tenant, ArtifactKey(q.ds, q.ver)) :
           objects' = Put(q.ctx.tenant, ExportKey(q.ds, q.ver, ExtensionOf(v, q.name)),
                          Transcode(a.data, q.name))
    /\ req' = [req EXCEPT ![r].route = "record"]
    /\ By(q.ctx, q)
    /\ UNCHANGED <<rows, rls, spec, served, rev, raced>>

AddExport(r) ==
    LET q == req[r] IN
    /\ q.route = "record"
    /\ \E id \in Fresh("export_artifacts") : Insert(ExportRow(q.ctx.tenant, id, q.ds, q.ver, q.name))
    /\ req' = [req EXCEPT ![r] = Idle]
    /\ By(q.ctx, q)
    /\ UNCHANGED <<objects, rls, spec, served, rev, raced>>

\* The gateway stops, or a write of the slot raises: what it wrote stays.
RequestLost(r) ==
    /\ req[r].route \in {"update", "upload", "fields", "export", "record"}
    /\ req' = [req EXCEPT ![r] = Idle]
    /\ raced' = raced \cup {req[r].ds}
    /\ By(req[r].ctx, req[r])
    /\ UNCHANGED <<rows, objects, rls, spec, served, rev>>

---------------------------------------------------------------------------
(* What a caller can read: the answers of the GET routes.                  *)

Answer(ctx, scope, result) == IF Permitted(ctx, scope, "read") THEN result ELSE {}

All(get) == UNION {get[i] : i \in Ids}

Invoke(ctx)          == All([m \in Ids |-> GetModel(ctx.tenant, m)])
ListDatasets(ctx)    == {<<r, spec[r.id]>> : r \in ListSpecs(ctx.tenant)}
GetDataset(ctx)      == {<<r, spec[r.id]>> : r \in All([d \in Ids |-> GetSpec(ctx.tenant, d)])}
GetJobStatus(ctx)    == All([j \in Ids |-> GetJob(ctx.tenant, j)])
DatasetVersions(ctx) == All([d \in Ids |-> ListVersions(ctx.tenant, d)])
DownloadVersion(ctx) ==
    UNION {GetObject(ctx.tenant, ArtifactKey(v.ds, v.id)) : v \in DatasetVersions(ctx)}
TaskMetrics(ctx)     == {<<v.id, r, spec[r.id]["fields"]>> :
    v \in All([i \in Ids |-> GetVersion(ctx.tenant, i)]),
    r \in All([d \in Ids |-> GetSpec(ctx.tenant, d)])}
GetEvaluation(ctx)   == All([i \in Ids |-> GetRun(ctx.tenant, i)])
Report(ctx, format)  == UNION {GetObject(ctx.tenant, ReportKey(x.id, format)) :
    x \in {x \in GetEvaluation(ctx) : x.val = "reported"}}
Annotations(ctx)     ==
    UNION {All([v \in Ids |-> ListAnnotations(ctx.tenant, d, v)]) : d \in Ids}
Reviews(ctx)         == ListReviews(ctx.tenant, {"pending", "approved", "rejected", "changes_requested"})
GetReviewTask(ctx)   == All([i \in Ids |-> GetReview(ctx.tenant, i)])
PerturbationJob(ctx) == All([i \in Ids |-> GetPertJob(ctx.tenant, i)])
PertJobs(ctx)        == All([d \in Ids |-> ListPertJobs(ctx.tenant, d)])

\* Repository reads that only workers and tests use.
Internal(t) == UNION {UNION {GetProfile(t, i), ListExports(t, i), ListRuns(t, i),
                             GetExpertResults(t, i), ListFeedback(t, "dataset_version", i),
                             ListFeedback(t, "evaluation_run", i), GetImage(t, i),
                             GetVideo(t, i), GetAudio(t, i)} : i \in Ids}

View(ctx) ==
    <<Answer(ctx, "models", ListModels(ctx.tenant)),
      Answer(ctx, "image_providers", ListImages(ctx.tenant)),
      Answer(ctx, "video_providers", ListVideos(ctx.tenant)),
      Answer(ctx, "audio_providers", ListAudios(ctx.tenant)),
      IF Permitted(ctx, "llm", "invoke") THEN Invoke(ctx) ELSE {},
      Answer(ctx, "datasets", ListDatasets(ctx)), Answer(ctx, "datasets", GetDataset(ctx)),
      Answer(ctx, "datasets", GetJobStatus(ctx)), Answer(ctx, "datasets", DatasetVersions(ctx)),
      Answer(ctx, "datasets", DownloadVersion(ctx)), Answer(ctx, "evaluations", TaskMetrics(ctx)),
      Answer(ctx, "evaluations", GetEvaluation(ctx)),
      Answer(ctx, "evaluations", Report(ctx, "json")),
      Answer(ctx, "evaluations", Report(ctx, "html")),
      Answer(ctx, "annotations", Annotations(ctx)), Answer(ctx, "reviews", Reviews(ctx)),
      Answer(ctx, "reviews", GetReviewTask(ctx)),
      Answer(ctx, "perturbations", PerturbationJob(ctx)),
      Answer(ctx, "perturbations", PertJobs(ctx)), Internal(ctx.tenant)>>

---------------------------------------------------------------------------
(* The state earlier requests left: one tenant with a sampled dataset,     *)
(* another with a graph, each with a version, and the second also with a   *)
(* model, an evaluation under way, an annotation and a review task.        *)

ASSUME InitialIds == {1, 2} \subseteq Ids

First  == CHOOSE t \in Tenants : TRUE
Second == CHOOSE t \in Tenants : t # First

Init ==
    /\ rls \in BOOLEAN
    /\ \E n \in RowCounts :
           rows = {SpecRow(First, 1, "sample"), ProfileRow(First, 1, 1, "s.csv"),
                   VersionRow(First, 1, 1, n, "parquet"), SpecRow(Second, 2, "graph"),
                   VersionRow(Second, 2, 2, n, "graph_json"), ModelRow(Second, 1, "ollama"),
                   RunRow(Second, 1, 2, 2, None), AnnotationRow(Second, 1, 2, 2),
                   ReviewRow(Second, 1, 2)}
    /\ objects = {[tenant |-> First, key |-> SampleKey(1, "s.csv"), data |-> <<1, "sample">>],
                  [tenant |-> First, key |-> ArtifactKey(1, 1), data |-> <<1, "parquet">>],
                  [tenant |-> Second, key |-> ArtifactKey(2, 2), data |-> <<2, "graph_json">>]}
    /\ spec = [d \in Ids |-> [c \in Columns |-> 1]]
    /\ req = [r \in Requests |-> Idle]
    /\ served = 1
    /\ actor = [tenant |-> First, roles |-> {}, slot |-> Idle]
    /\ rev = [d \in Ids |-> 0]
    /\ raced = {}

Providers(ctx) ==
    \/ RegisterModel(ctx) \/ RegisterImageProvider(ctx)
    \/ RegisterVideoProvider(ctx) \/ RegisterAudioProvider(ctx)
    \/ DeleteModel(ctx) \/ DeleteImageProvider(ctx)
    \/ DeleteVideoProvider(ctx) \/ DeleteAudioProvider(ctx)

Datasets(ctx) ==
    \/ CreateDataset(ctx) \/ CreateAudioDataset(ctx) \/ CreateImageDataset(ctx)
    \/ CreateFromTemplate(ctx)
    \/ StartGeneration(ctx) \/ LaunchPerturbation(ctx) \/ StartEvaluation(ctx)

People(ctx) ==
    CreateAnnotation(ctx) \/ DeleteAnnotation(ctx) \/ CreateFeedback(ctx) \/ DecideReview(ctx)

Slots(r) ==
    \/ \E ctx \in Contexts : UpdateDataset(r, ctx) \/ UploadSample(r, ctx) \/ ExportVersion(r, ctx)
    \/ SaveUpdate(r) \/ PutSample(r) \/ ProfileFails(r) \/ SaveProfile(r) \/ SaveFields(r)
    \/ PutExport(r) \/ AddExport(r) \/ RequestLost(r)

Next ==
    \/ \E ctx \in Contexts : Providers(ctx) \/ Datasets(ctx) \/ People(ctx)
    \/ \E r \in Requests : Slots(r)
    \/ Worker

Spec == Init /\ [][Next]_vars

---------------------------------------------------------------------------
(* Properties.                                                             *)

\* Tenants do not interfere: a step taken for one tenant changes nothing that a
\* caller of another can read through any route or repository method, whether
\* or not the database enforces row-level security (the explicit tenant_id
\* filters that registry.py calls defense-in-depth).
Noninterference ==
    [][\A c \in Contexts : c.tenant # actor'.tenant => View(c)' = View(c)]_vars

VersionOf(r, v) == \E x \in rows : /\ x.tbl = "dataset_versions" /\ x.id = v
                                   /\ x.ds = r.ds /\ x.tenant = r.tenant

Stored(t, key) == \E o \in objects : o.tenant = t /\ o.key = key

\* Every reference a row holds leads to a row or an object of the same tenant
\* and, for a version, of the same dataset: the 404 checks of the routes, and
\* the report that get_evaluation_report fetches once a run names it.
ReferencesResolve ==
    \A r \in rows :
        /\ r.tbl \in {"annotations", "perturbation_jobs", "export_artifacts", "evaluation_runs"} =>
               VersionOf(r, r.ref)
        /\ r.tbl = "evaluation_runs" =>
               /\ r.ref2 # None => VersionOf(r, r.ref2)
               /\ r.val = "reported" => \A f \in {"json", "html"} : Stored(r.tenant, ReportKey(r.id, f))
        /\ r.tbl = "dataset_versions" => Stored(r.tenant, ArtifactKey(r.ds, r.id))
        /\ r.tbl \in {"dataset_versions", "generation_jobs", "review_tasks"} =>
               \E x \in rows : x.tbl = "datasets" /\ x.id = r.ds /\ x.tenant = r.tenant
        /\ r.tbl = "feedback" =>
               \E x \in rows : /\ x.id = r.ref /\ x.tenant = r.tenant
                               /\ x.tbl = (IF r.val = "evaluation_run" THEN "evaluation_runs"
                                           ELSE "dataset_versions")

\* A caller who is only a viewer leaves nothing behind but exports ("a derived
\* read ... not a mutation of the dataset itself", export_routes.py), and a
\* provider configuration goes away only at the hands of an admin or owner.
RolesLimitChanges ==
    [][LET gone == rows \ rows'  new == rows' \ rows  IN
       /\ actor'.roles \cap {"member", "admin", "owner", "worker"} = {} =>
              /\ gone = {} /\ spec' = spec
              /\ \A x \in new : x.tbl = "export_artifacts"
              /\ \A o \in objects' \ objects : o.key[1] = "export"
       /\ actor'.roles \cap {"admin", "owner"} = {} =>
              \A x \in gone : x.tbl \notin {"model_configs", "image_provider_configs",
                                            "video_provider_configs", "audio_provider_configs"}]_vars

\* update_dataset and upload_sample save the whole row they read: a column the
\* request did not set changes only if another request saved the row in between.
UnaskedChangeNeedsOverlap ==
    [][\A r \in rows, c \in Columns :
           r.tbl = "datasets" /\ spec'[r.id][c] # spec[r.id][c] =>
               LET q == actor'.slot IN q.ds = r.id /\ (c \in q.asked \/ rev[r.id] # q.rev)]_vars

\* Between uploads, unless some overlapped or failed, the profile describes the
\* sample that is stored under its key, and the fields are that sample's or a
\* later edit's: the from-sample generators read all three.
SampleInStep ==
    \A p \in rows :
        p.tbl = "dataset_profiles" /\ p.ds \notin raced /\ ~Busy(p.ds, Uploads) =>
            /\ \A o \in objects :
                   o.tenant = p.tenant /\ o.key = SampleKey(p.ds, p.val) => o.data[1] = p.ref
            /\ spec[p.ds]["fields"] >= p.ref

\* The object a recorded export names holds that version in that format, although
\* a repeated export overwrites it and the key knows only the extension.
ExportMatches ==
    \A e \in rows : e.tbl = "export_artifacts" =>
        \E v \in rows, o \in objects :
            /\ v.tbl = "dataset_versions" /\ v.id = e.ref
            /\ o.tenant = e.tenant /\ o.key = ExportKey(e.ds, e.ref, ExtensionOf(v, e.val))
            /\ o.data = <<e.ref, e.val>>

=============================================================================
