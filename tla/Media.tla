------------------------------- MODULE Media -------------------------------
(***************************************************************************)
(* generate_shards and assemble of the tabular, text, image, audio and     *)
(* video handlers, with the generators and provider adapters they call,    *)
(* for one request whose shards ShardPlan plans.                           *)
(*                                                                         *)
(* The server may give up on an attempt of generate_shards and start the   *)
(* next one while the first still runs and writes; the tenant may change   *)
(* its provider configuration at any time.  A row, image or clip is a      *)
(* record of what tells two of them apart: its index, label, seed,         *)
(* provider configuration and format.                                      *)
(***************************************************************************)
EXTENDS ShardPlan, SequencesExt

CONSTANTS Modalities,    \* the modalities requested
          MaxItems,      \* the largest request that is carried out
          MaxTries,      \* attempts of generate_shards
          Configs,       \* provider configurations a tenant may have first in its list
          Formats,       \* audio formats a provider answers with
          LabelChoices,       \* label choices of an image spec, as a sequence
          Salts,         \* hash salts of the worker processes
          Directives,    \* whether a tabular spec carries generation directives
          Fields,        \* field names of a text spec, as sequences
          Replies,       \* rows the model may answer a batch prompt with
          BatchSize,     \* batch_size directive
          MaxAttempts,   \* max_attempts directive
          MaxPolls       \* max_poll_attempts

ASSUME ModalitiesAssumption == Modalities \subseteq {"tabular", "text", "image", "audio", "video"}
ASSUME TriesAssumption == MaxTries \in Nat
ASSUME FieldsAssumption == \A names \in Fields : names \in Seq(ToSet(names))

\* _int_directive; a negative number of attempts makes none.
ASSUME DirectivesAssumption == BatchSize \in Int /\ MaxAttempts \in Nat

VARIABLES modality,
          fields,        \* of the text spec
          config,        \* first provider configuration of the tenant
          changed,       \* history: the tenant changed it
          tries,         \* attempts of generate_shards
          asm,           \* the attempt of assemble
          store          \* the objects of this request

mediaVars == <<vars, modality, fields, config, changed, tries, asm, store>>

Item(index, label, seed, by, fmt) ==
    [index |-> index, label |-> label, seed |-> seed, by |-> by, fmt |-> fmt]

Fresh == [at |-> "off", lost |-> FALSE, by |-> "none", i |-> 1, items |-> <<>>, todo |-> <<>>,
          calls |-> 0, polls |-> 0, short |-> 0]

Tries == 1..MaxTries

\* An attempt whose code runs, whether or not the server still waits for it.
Runs(n, phase) == tries[n].at = phase

Cut(n) == shards[tries[n].i]

MediaInit ==
    /\ Init
    /\ modality \in Modalities
    /\ fields \in (IF modality = "text" THEN Fields ELSE {<<>>})
    /\ config \in Configs
    /\ changed = FALSE
    /\ tries = [n \in Tries |-> Fresh]
    /\ asm = [at |-> "off", j |-> 1, items |-> <<>>, todo |-> <<>>]
    /\ store = [k \in {} |-> <<>>]

---------------------------------------------------------------------------
(* Object keys: kind, number, extension.                                   *)

ShardKey(i) == <<"shard", i, "">>
ArtifactKey == <<"artifact", 0, "">>
ManifestKey == <<"manifest", 0, "json">>

\* Mutant: clips are numbered within their shard.
ClipKeyInShard(i, item) == <<"clip", item.index - shards[i].start, item.fmt>>

ClipKey(i, item) == <<"clip", item.index, item.fmt>>

PutObject(key, value) ==
    store' = [k \in DOMAIN store \cup {key} |-> IF k = key THEN value ELSE store[k]]

---------------------------------------------------------------------------
(* The generators.  Indices and seeds are relative to the request's seed.  *)

Indices(cut) == [j \in 1..cut.count |-> cut.start + j - 1]

\* TabularSampler under DirectiveGenerator: the sampled row is a function of
\* seed, shard and position; which rows a directive overwrites also depends on
\* hash(field_name), which every process salts anew.
TabularRow(i, index, salt) ==
    Item(index, IF Directives THEN (salt + index) % 2 ELSE 0, i, "none", "parquet")

TabularShard(i, salt) == [j \in 1..shards[i].count |-> TabularRow(i, Indices(shards[i])[j], salt)]

\* ImagePromptBuilder.build and ImageGenerator: labels rotate by item index.
ImageLabel(index) == IF LabelChoices = <<>> THEN 0 ELSE LabelChoices[(index % Len(LabelChoices)) + 1]

ImageShard(i, by) ==
    [j \in 1..shards[i].count |->
        LET x == Indices(shards[i])[j] IN Item(x, ImageLabel(x), i + x, by, "png")]

\* AudioDatasetGenerator: prompts and labels by row index, one format per answer.
AudioShards(i) ==
    {[j \in 1..shards[i].count |->
        LET x == Indices(shards[i])[j] IN Item(x, x, x, "none", fmt[j])] :
            fmt \in [1..shards[i].count -> Formats]}

VideoItem(index, by) == Item(index, 0, index, by, "mp4")

---------------------------------------------------------------------------
(* TextGenerator.  A reply is a sequence of rows [key, pad]: key is the    *)
(* primary field without the white space around it (pad tells whether      *)
(* there was some), Blank, TooLong, or Malformed for an element that is no *)
(* object with every field.                                                *)

Blank == 0
TooLong == -1
Malformed == -2

Row == [key : Nat \cup {Blank, TooLong, Malformed}, pad : BOOLEAN]

ASSUME RepliesAssumption == \A reply \in Replies : reply \in Seq(Row)

ShapeFields == <<[shape |-> "classification", need |-> {"text", "label"}, key |-> "text"],
                 [shape |-> "qa", need |-> {"question", "answer"}, key |-> "question"],
                 [shape |-> "summarization", need |-> {"document", "summary"}, key |-> "document"],
                 [shape |-> "chat", need |-> {"instruction", "response"}, key |-> "instruction"]>>

\* detect_shape and primary_field in one: "none" stands for fields[0] of nothing,
\* which raises.
PrimaryField(names) ==
    LET has == ToSet(names)
        fit == {s \in DOMAIN ShapeFields : ShapeFields[s].need \subseteq has}
    IN  CASE fit # {} -> ShapeFields[CHOOSE s \in fit : \A t \in fit : s <= t].key
          [] fit = {} /\ "messages" \in has -> "messages"
          [] names = <<>> -> "none"
          [] OTHER -> names[1]

ThisBatch(n) == LET left == Cut(n).count - Len(tries[n].items)
                IN  IF left < BatchSize THEN left ELSE BatchSize

PassesQuality(row) == row.key \notin {Blank, TooLong}

IsDuplicate(rows, row) == \E j \in DOMAIN rows : rows[j].key = row.key

\* The rows of a reply that are kept, one after the other, up to count.
Keep(rows, reply, count) ==
    FoldLeft(LAMBDA kept, row :
                 IF Len(kept) >= count \/ row.key = Malformed \/ ~PassesQuality(row)
                        \/ IsDuplicate(kept, row)
                 THEN kept ELSE Append(kept, row),
             rows, reply)

---------------------------------------------------------------------------
(* Attempts of generate_shards.                                            *)

Frame == UNCHANGED <<vars, modality, fields, config, changed, asm>>

\* The first attempt, or the next one once the last raised or was given up.
StartTry(n) ==
    /\ pc = "done" /\ target <= MaxItems
    /\ Runs(n, "off")
    /\ n > 1 => tries[n - 1].at = "raised" \/ tries[n - 1].lost
    /\ tries' = [tries EXCEPT ![n].at = "shard", ![n].by = config]
    /\ Frame /\ UNCHANGED store

GiveUp(n) ==
    /\ tries[n].at \notin {"off", "raised", "done"}
    /\ ~tries[n].lost
    /\ n < MaxTries
    /\ tries' = [tries EXCEPT ![n].lost = TRUE]
    /\ Frame /\ UNCHANGED store

\* A missing registry, provider, model or field, an error of a provider, of Ray
\* or of the object store.
Raise(n) ==
    /\ tries[n].at \notin {"off", "raised", "done"}
    /\ tries' = [tries EXCEPT ![n].at = "raised"]
    /\ Frame /\ UNCHANGED store

\* The shard's object is written last; then the next shard, or the keys.
PutShard(n, value) ==
    /\ PutObject(ShardKey(tries[n].i), value)
    /\ tries' = [tries EXCEPT ![n] = [Fresh EXCEPT
           !.at = IF tries[n].i = Len(shards) THEN "done" ELSE "shard",
           !.lost = tries[n].lost, !.by = tries[n].by, !.i = tries[n].i + 1]]
    /\ Frame

GenerateTabular(n) ==
    /\ modality = "tabular" /\ Runs(n, "shard")
    /\ \E salt \in Salts : PutShard(n, TabularShard(tries[n].i, salt))

GenerateImages(n) ==
    /\ modality = "image" /\ Runs(n, "shard")
    /\ PutShard(n, ImageShard(tries[n].i, tries[n].by))

\* Text: an empty shard is an empty table, else the loop over batches begins.
StartText(n) ==
    /\ modality = "text" /\ Runs(n, "shard")
    /\ IF Cut(n).count <= 0
       THEN PutShard(n, <<>>)
       ELSE /\ tries' = [tries EXCEPT ![n].at = IF PrimaryField(fields) = "none" THEN "raised" ELSE "text"]
            /\ Frame /\ UNCHANGED store

Looping(n) ==
    Runs(n, "text") /\ tries[n].calls < MaxAttempts /\ Len(tries[n].items) < Cut(n).count

\* A reply that parses to an array.
TextBatch(n) ==
    /\ Looping(n)
    /\ \E reply \in Replies :
           LET kept == Keep(tries[n].items, reply, Cut(n).count)
               got  == Len(kept) - Len(tries[n].items)
           IN  tries' = [tries EXCEPT ![n].items = kept, ![n].calls = @ + 1,
                   ![n].short = @ + (IF got < ThisBatch(n) THEN ThisBatch(n) - got ELSE 0)]
    /\ Frame /\ UNCHANGED store

\* Mutant: a reply that does not parse ends the loop.
EndOnUnparseable(n) ==
    /\ Looping(n)
    /\ tries' = [tries EXCEPT ![n].calls = MaxAttempts, ![n].short = @ + ThisBatch(n)]
    /\ Frame /\ UNCHANGED store

\* A reply that does not parse, or is no array, costs its attempt.
TextUnparseable(n) ==
    /\ Looping(n)
    /\ tries' = [tries EXCEPT ![n].calls = @ + 1, ![n].short = @ + ThisBatch(n)]
    /\ Frame /\ UNCHANGED store

\* Without a row the generator raises; a short shard is written as it is.
EndText(n) ==
    /\ Runs(n, "text") /\ ~Looping(n)
    /\ tries[n].items # <<>>
    /\ PutShard(n, tries[n].items)

NoText(n) ==
    /\ Runs(n, "text") /\ ~Looping(n)
    /\ tries[n].items = <<>>
    /\ Raise(n)

\* Audio: the whole shard is synthesized, then clip after clip is stored.
Synthesize(n) ==
    /\ modality = "audio" /\ Runs(n, "shard")
    /\ \E items \in AudioShards(tries[n].i) :
           tries' = [tries EXCEPT ![n].at = "clips", ![n].items = items, ![n].todo = items]
    /\ Frame /\ UNCHANGED store

\* Video: one prediction per item, polled until it is final.
StartPrediction(n) ==
    /\ modality = "video" /\ Runs(n, "shard")
    /\ Len(tries[n].items) < Cut(n).count
    /\ tries' = [tries EXCEPT ![n].at = "poll", ![n].polls = 0]
    /\ Frame /\ UNCHANGED store

\* Mutant: a prediction seen processing has its polls counted anew.
PollRecounted(n) ==
    /\ Runs(n, "poll") /\ tries[n].polls < MaxPolls
    /\ \E status \in {"starting", "processing", "succeeded", "failed", "canceled"} :
           tries' = [tries EXCEPT ![n].polls = IF status = "processing" THEN 0 ELSE @ + 1,
                         ![n].at = CASE status \in {"starting", "processing"} -> "poll"
                                     [] status = "succeeded" -> "download"
                                     [] OTHER -> "raised"]
    /\ Frame /\ UNCHANGED store

\* failed raises VideoProviderError; canceled is final too and has no output to
\* download, so the request for it raises.
Poll(n) ==
    /\ Runs(n, "poll") /\ tries[n].polls < MaxPolls
    /\ \E status \in {"starting", "processing", "succeeded", "failed", "canceled"} :
           tries' = [tries EXCEPT ![n].polls = @ + 1,
                         ![n].at = CASE status \in {"starting", "processing"} -> "poll"
                                     [] status = "succeeded" -> "download"
                                     [] OTHER -> "raised"]
    /\ Frame /\ UNCHANGED store

PollsSpent(n) ==
    /\ Runs(n, "poll") /\ tries[n].polls = MaxPolls
    /\ Raise(n)

Download(n) ==
    /\ Runs(n, "download")
    /\ tries' = [tries EXCEPT ![n].at = "shard",
           ![n].items = Append(@, VideoItem(Cut(n).start + Len(@), tries[n].by))]
    /\ Frame /\ UNCHANGED store

VideosReady(n) ==
    /\ modality = "video" /\ Runs(n, "shard")
    /\ Len(tries[n].items) = Cut(n).count
    /\ tries' = [tries EXCEPT ![n].at = "clips", ![n].todo = tries[n].items]
    /\ Frame /\ UNCHANGED store

PutClip(n) ==
    /\ Runs(n, "clips") /\ tries[n].todo # <<>>
    /\ PutObject(ClipKey(tries[n].i, Head(tries[n].todo)), <<Head(tries[n].todo)>>)
    /\ tries' = [tries EXCEPT ![n].todo = Tail(@)]
    /\ Frame

PutFragment(n) ==
    /\ Runs(n, "clips") /\ tries[n].todo = <<>>
    /\ PutShard(n, tries[n].items)

TryStep(n) ==
    \/ GenerateTabular(n) \/ GenerateImages(n)
    \/ StartText(n) \/ TextBatch(n) \/ TextUnparseable(n) \/ EndText(n) \/ NoText(n)
    \/ Synthesize(n) \/ StartPrediction(n) \/ Poll(n) \/ PollsSpent(n) \/ Download(n)
    \/ VideosReady(n) \/ PutClip(n) \/ PutFragment(n)

---------------------------------------------------------------------------
(* assemble.                                                               *)

Returned == \E n \in Tries : tries[n].at = "done" /\ ~tries[n].lost

AsmFrame == UNCHANGED <<vars, modality, fields, config, changed, tries>>

StartAssembly ==
    /\ asm.at = "off" /\ Returned
    /\ asm' = [asm EXCEPT !.at = "read"]
    /\ AsmFrame /\ UNCHANGED store

ReadShard ==
    /\ asm.at = "read" /\ asm.j <= Len(shards)
    /\ asm' = [asm EXCEPT !.j = @ + 1, !.items = @ \o store[ShardKey(asm.j)]]
    /\ AsmFrame /\ UNCHANGED store

\* The entries that sort puts before entry i: it is stable.
Before(items, i) ==
    {j \in DOMAIN items : items[j].index < items[i].index \/ (items[j].index = items[i].index /\ j < i)}

\* The manifest's entries in index order.
Sorted(items) ==
    [k \in DOMAIN items |-> items[CHOOSE i \in DOMAIN items : Cardinality(Before(items, i)) = k - 1]]

\* An image is unpacked from its shard before the manifest is written.
UnpackImages ==
    /\ asm.at = "read" /\ asm.j > Len(shards) /\ modality = "image"
    /\ asm' = [asm EXCEPT !.at = "unpack", !.todo = asm.items]
    /\ AsmFrame /\ UNCHANGED store

PutImage ==
    /\ asm.at = "unpack" /\ asm.todo # <<>>
    /\ PutObject(ClipKey(1, Head(asm.todo)), <<Head(asm.todo)>>)
    /\ asm' = [asm EXCEPT !.todo = Tail(@)]
    /\ AsmFrame

PutManifest ==
    /\ \/ asm.at = "read" /\ asm.j > Len(shards) /\ modality \in {"audio", "video"}
       \/ asm.at = "unpack" /\ asm.todo = <<>>
    /\ PutObject(ManifestKey, Sorted(asm.items))
    /\ asm' = [asm EXCEPT !.at = "done"]
    /\ AsmFrame

\* Tables are concatenated in shard order; text then gets its own manifest.
PutTable ==
    /\ asm.at = "read" /\ asm.j > Len(shards) /\ modality \in {"tabular", "text"}
    /\ PutObject(ArtifactKey, asm.items)
    /\ asm' = [asm EXCEPT !.at = IF modality = "text" THEN "written" ELSE "done"]
    /\ AsmFrame

PutTextManifest ==
    /\ asm.at = "written"
    /\ PutObject(ManifestKey, <<Len(asm.items)>>)
    /\ asm' = [asm EXCEPT !.at = "done"]
    /\ AsmFrame

Assembly == \/ StartAssembly \/ ReadShard \/ UnpackImages \/ PutImage \/ PutManifest
            \/ PutTable \/ PutTextManifest

\* The tenant registers or deletes a provider; list() then starts with another.
ChangeConfig ==
    /\ ~changed /\ \E n \in Tries : tries[n].at # "off"
    /\ config' \in Configs \ {config}
    /\ changed' = TRUE
    /\ UNCHANGED <<vars, modality, fields, tries, asm, store>>

PlanStep == Next /\ UNCHANGED <<modality, fields, config, changed, tries, asm, store>>

MediaNext ==
    \/ PlanStep
    \/ \E n \in Tries : StartTry(n) \/ GiveUp(n) \/ Raise(n) \/ TryStep(n)
    \/ Assembly
    \/ ChangeConfig

\* The worker runs its code; timeouts, errors and changes need not happen.
MediaSpec ==
    /\ MediaInit /\ [][MediaNext]_mediaVars
    /\ WF_mediaVars(PlanStep) /\ WF_mediaVars(Assembly)
    /\ \A n \in Tries : WF_mediaVars(StartTry(n)) /\ WF_mediaVars(TryStep(n))

---------------------------------------------------------------------------
(* Properties.                                                             *)

\* The assembled dataset has every index of the plan exactly once and in order,
\* whichever attempts wrote its shards, and each entry of a manifest names a
\* stored clip that is the one it describes: same index and seed and, unless
\* the configuration changed while an abandoned attempt still wrote, the same
\* provider.
DatasetComplete ==
    asm.at = "done" /\ modality # "text" =>
        LET key == IF modality = "tabular" THEN ArtifactKey ELSE ManifestKey
            out == store[key]
        IN  /\ Len(out) = IF target > 0 THEN target ELSE 0
            /\ \A j \in DOMAIN out :
                   /\ out[j].index = j - 1
                   /\ modality # "tabular" =>
                        /\ <<"clip", j - 1, out[j].fmt>> \in DOMAIN store
                        /\ LET clip == store[<<"clip", j - 1, out[j].fmt>>][1] IN
                           /\ clip.index = j - 1 /\ clip.seed = out[j].seed
                           /\ clip.by = out[j].by \/ (changed /\ \E n \in Tries : tries[n].lost)

\* A text shard keeps no blank, overlong or repeated row and at most count; the
\* rows it lacks are rows a reply failed to deliver, or more than the batches
\* it may ask for can hold; the field compared is one of the spec's.
TextShardSound ==
    modality = "text" => \A n \in Tries : Runs(n, "text") =>
        LET rows == tries[n].items  cap == BatchSize * MaxAttempts IN
        /\ Len(rows) <= Cut(n).count
        /\ \A a, b \in DOMAIN rows : rows[a].key > 0 /\ (rows[a].key = rows[b].key => a = b)
        /\ ~Looping(n) => \/ Len(rows) + tries[n].short >= cap
                          \/ Len(rows) + tries[n].short >= Cut(n).count
        /\ PrimaryField(fields) \in ToSet(fields)

\* Every request that is carried out is assembled or has its attempts raise:
\* the batch loop and the polling loop end whatever the model and the video API
\* answer.
Completes ==
    <>(\/ asm.at = "done"
       \/ target > MaxItems
       \/ tries[MaxTries].at = "raised")

\* c6-design.md says of directives that they are "reproducible given the same
\* seed+shard": an attempt that repeats a tabular shard writes the same rows.
Reproducible ==
    [][modality = "tabular" =>
           \A k \in DOMAIN store : k[1] = "shard" => store'[k] = store[k]]_mediaVars
=============================================================================
