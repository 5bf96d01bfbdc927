-------------------------------- MODULE Config --------------------------------
(***************************************************************************)
(* The seven files of core/config: what each parser reads and refuses, and   *)
(* what _validate says of the files together.                               *)
(*                                                                         *)
(* An error or a warning is a place: the section, the indices of the entry   *)
(* in its lists, and the key.  Wording is left out.                         *)
(***************************************************************************)
EXTENDS Reader

CONSTANTS
    Suffix      \* path of a model |-> its weight format

At(section, index, keys) == {<<section, index, key>> : key \in keys}

\* A section that has been read: read pairs what was written with what was read.
Section(section, index, raw, schema, known) ==
    [errors |-> At(section, index, Refused(raw, schema) \cup Unknown(raw, known)),
     warnings |-> {},
     value |-> Values(raw, schema),
     read |-> {[raw |-> raw, value |-> Values(raw, schema)]}]

Strict(section, index, raw, schema) == Section(section, index, raw, schema, DOMAIN schema)

\* A value, and the error list and the warnings that the readers of its parts share.
Joined(parts, value) ==
    [errors |-> UNION {parts[i].errors : i \in DOMAIN parts},
     warnings |-> UNION {parts[i].warnings : i \in DOMAIN parts},
     value |-> value,
     read |-> UNION {parts[i].read : i \in DOMAIN parts}]

ValuesOf(parts) == [i \in DOMAIN parts |-> parts[i].value]

\* Entries whose name an earlier one has.
Repeated(parts, key) ==
    {i \in DOMAIN parts :
        /\ parts[i].value[key] # Blank
        /\ \E j \in 1..(i - 1) : parts[j].value[key] = parts[i].value[key]}

\* "*" and null name no single thing; what they stand for is up to the caller.
Items(v) == IF Is(v, "list") THEN v[2] ELSE <<>>
Set(v) == Range(Items(v))

\* The entries of a list: a name that an earlier one has is an error of the later.
Entries(section, parts, key) ==
    [Joined(parts, ValuesOf(parts)) EXCEPT !.errors =
        @ \cup UNION {At(section, <<i>>, {key}) : i \in Repeated(parts, key)}]

Nowhere == <<"", <<>>, "">>
Unreadable == [errors |-> {Nowhere}, warnings |-> {}, value |-> <<>>, read |-> {}]

\* models, cameras and rules: a list, and not an empty one.
FilledList(section, parts, key) ==
    IF parts # <<>> THEN Entries(section, parts, key) ELSE Unreadable

-----------------------------------------------------------------------------
(* device.yaml and api.yaml.                                               *)

DeviceSchema ==
    [id |-> <<"pattern", "id">>, name |-> <<"string">>, location |-> <<"string">>,
     environment |-> <<"enum", <<"production", "development">> >>,
     max_cameras |-> <<"integer", 1>>,
     log_level |-> <<"enum", <<"DEBUG", "INFO", "WARNING", "ERROR">> >>,
     heartbeat |-> <<"section">>, health_file |-> <<"section">>]
HeartbeatSchema ==
    [enabled |-> <<"boolean">>, interval_seconds |-> <<"integer", 1>>,
     table |-> <<"pattern", "table">>]
HealthFileSchema ==
    [enabled |-> <<"boolean">>, path |-> <<"string">>, interval_seconds |-> <<"integer", 1>>]

ParseDevice(raw) ==
    LET top == Strict("device", <<>>, raw, DeviceSchema)
    IN  Joined(<< top, Strict("heartbeat", <<>>, top.value.heartbeat, HeartbeatSchema),
                  Strict("health_file", <<>>, top.value.health_file, HealthFileSchema) >>,
               top.value)

ApiSchema ==
    [branch_id |-> <<"pattern", "uuid">>, key |-> <<"pattern", "key">>,
     url |-> <<"pattern", "url">>,
     ingest |-> <<"section">>, buffer |-> <<"section">>, request |-> <<"section">>]
IngestSchema == [batch_size |-> <<"integer", 1>>, flush_interval_seconds |-> <<"integer", 1>>]
BufferSchema ==
    [path |-> <<"string">>, max_size_mb |-> <<"integer", 1>>,
     retry_interval_seconds |-> <<"integer", 1>>, delete_after_hours |-> <<"integer", 0>>]
RequestSchema ==
    [timeout_seconds |-> <<"integer", 1>>, max_consecutive_failures |-> <<"integer", 1>>]

\* The one file whose parser takes any key.
Lax(section, raw, schema) ==
    Section(section, <<>>, raw, schema, DOMAIN schema \cup DOMAIN Fields(raw))

ParseApi(raw) ==
    LET top == Lax("api", raw, ApiSchema)
        buffer == Lax("buffer", top.value.buffer, BufferSchema)
        joined == Joined(<< top, Lax("ingest", top.value.ingest, IngestSchema), buffer,
                            Lax("request", top.value.request, RequestSchema) >>,
                         top.value)
    IN  [joined EXCEPT !.warnings =
            IF buffer.value.path[2] \in Matches["/tmp"] THEN At("buffer", <<>>, {"path"}) ELSE {}]

-----------------------------------------------------------------------------
(* models.yaml.                                                            *)

ModelSchema ==
    [id |-> <<"pattern", "id">>, name |-> <<"string">>, version |-> <<"string">>,
     path |-> <<"string">>, runtime |-> <<"enum", <<"ultralytics", "deepstream">> >>,
     accelerator |-> <<"enum", <<"auto", "cpu", "cuda", "mps", "coreml">> >>,
     classes |-> <<"string_list">>, confidence_threshold |-> <<"share">>,
     iou_threshold |-> <<"share">>, input_size |-> <<"int_pair", 1>>,
     use_tracker |-> <<"boolean">>, tracker |-> <<"string">>, half |-> <<"boolean">>,
     ds_infer_config |-> <<"optional_string">>]

Ultralytics == Str("ultralytics")
DeepStream == Str("deepstream")

\* _FORMAT_SUPPORT: what a format can run on, nothing when the runtime cannot load it.
Accelerators(runtime, suffix) ==
    CASE runtime = Ultralytics /\ suffix \in {".pt", ".onnx"} -> {"auto", "cpu", "cuda", "mps"}
      [] runtime = Ultralytics /\ suffix = ".mlpackage"       -> {"coreml"}
      [] runtime = Ultralytics /\ suffix = ".tflite"          -> {"cpu"}
      [] suffix = ".engine"                                   -> {"cuda"}
      [] runtime = DeepStream /\ suffix = ".onnx"             -> {"cuda"}
      [] OTHER                                                -> {}

SuffixOf(path) == IF path[2] \in DOMAIN Suffix THEN Suffix[path[2]] ELSE ""

\* _check_format, by the placeholder when the runtime or the accelerator was refused.
BadFormat(m) ==
    LET allowed == Accelerators(m.runtime, SuffixOf(m.path))
    IN  IF m.path = Blank THEN {}
        ELSE IF allowed = {} THEN {"path"}
        ELSE IF m.accelerator[2] \notin allowed THEN {"accelerator"} ELSE {}

\* Keys of a model that do not go together.
Mismatched(m) ==
    BadFormat(m)
        \cup {k \in {"accelerator"} : m.runtime = DeepStream /\ m.accelerator # Str("cuda")}
        \cup {k \in {"ds_infer_config"} : m.runtime = DeepStream /\ m.ds_infer_config = Null}

\* What a model asks for in vain, from values that were read and not replaced.
InVain(m, refused) ==
    {k \in {"ds_infer_config"} : m.runtime # DeepStream /\ m.ds_infer_config # Null}
        \cup {k \in {"input_size"} \ refused : \E v \in Set(m.input_size) : v[2] % 32 # 0}
        \cup {k \in {"half"} \ refused :
                 /\ m.half = Bool(TRUE) /\ m.path # Blank
                 /\ m.accelerator[2] \in {"cuda", "auto"} => SuffixOf(m.path) = ".engine"}

ParseModel(index, raw) ==
    LET m == Strict("models", index, raw, ModelSchema)
    IN  [m EXCEPT !.errors = @ \cup At("models", index, Mismatched(m.value)),
                  !.warnings = At("models", index, InVain(m.value, Refused(raw, ModelSchema)))]

ParseModels(raw) ==
    FilledList("models", [i \in DOMAIN Items(raw) |-> ParseModel(<<i>>, Items(raw)[i])], "id")

-----------------------------------------------------------------------------
(* cameras.yaml.                                                           *)

CameraSchema ==
    [id |-> <<"pattern", "id">>, name |-> <<"string">>, source |-> <<"camera_source">>,
     enabled |-> <<"boolean">>, fps_target |-> <<"integer", 1>>, model_id |-> <<"string">>,
     classes |-> <<"string_list_or_all">>, zones |-> <<"list_or_all">>]
ZoneSchema == [name |-> <<"pattern", "table">>, polygon |-> <<"polygon">>]
RouteSchema == [classes |-> <<"string_list_or_all">>, raw_table |-> <<"string">>]

\* The keys of a schema that are read only when they are there.
IfThere(raw, schema) == [key \in {k \in DOMAIN schema : Has(raw, k)} |-> schema[key]]

ParseCamera(index, raw) ==
    LET there == IfThere(raw, [raw_table |-> <<"string">>, routing |-> <<"list_or_all">>])
        own == Section("cameras", index, raw, CameraSchema ++ there,
                       DOMAIN CameraSchema \cup {"raw_table", "routing"})
        routing == IF Has(raw, "routing") THEN own.value.routing ELSE Null
        Zone(j) == Strict("zones", index \o <<j>>, Items(own.value.zones)[j], ZoneSchema)
        Route(j) == Strict("routing", index \o <<j>>, Items(routing)[j], RouteSchema)
        zones == Entries("zones", [j \in DOMAIN Items(own.value.zones) |-> Zone(j)], "name")
        routes == [j \in DOMAIN Items(routing) |-> Route(j)]
        joined == Joined(<< own, zones, Joined(routes, ValuesOf(routes)) >>,
                         own.value ++ [areas |-> zones.value, routes |-> ValuesOf(routes),
                                       table |-> Get(raw, "raw_table")])
    IN  [joined EXCEPT
            !.errors = @ \cup At("cameras", index,
                {k \in {""} : Cardinality(DOMAIN there) # 1} \cup
                {k \in {"routing"} : routing = All}),
            !.warnings = @ \cup At("cameras", index,
                {k \in {"fps_target"} : own.value.fps_target[2] > 30})]

ParseCameras(raw) ==
    FilledList("cameras", [i \in DOMAIN Items(raw) |-> ParseCamera(<<i>>, Items(raw)[i])], "id")

-----------------------------------------------------------------------------
(* rules.yaml.                                                             *)

RuleSchema ==
    [name |-> <<"pattern", "id">>, class |-> <<"string">>, cameras |-> <<"list_or_all">>,
     zones |-> <<"list_or_all">>, min_confidence |-> <<"share_or_null">>,
     cooldown_seconds |-> <<"integer", 0>>, notify |-> <<"boolean">>,
     severity |-> <<"enum", <<"critical", "warning", "info">> >>,
     notifications_table |-> <<"pattern_or_null", "table">>, message |-> <<"string">>,
     enabled |-> <<"boolean">>]
WindowSchema ==
    [after |-> <<"pattern_or_null", "time">>, before |-> <<"pattern_or_null", "time">>]

AllDay == Null

ParseRule(index, raw) ==
    LET there == IfThere(raw, [schedule |-> <<"section">>])
        own == Section("rules", index, raw, RuleSchema ++ there,
                       DOMAIN RuleSchema \cup {"schedule"})
        window == Strict("schedule", index, own.value.schedule, WindowSchema)
        ends == window.value
        daily == IF there = <<>> \/ Null \in {ends.after, ends.before} THEN AllDay
                 ELSE Mapping(ends)
        joined == Joined(IF there = <<>> THEN <<own>> ELSE <<own, window>>,
                         own.value ++ [window |-> daily])
    IN  [joined EXCEPT !.errors = @
            \cup At("rules", index, {k \in {"message"} :
                      own.value.message[2] \in Matches["unknown placeholder"]})
            \cup At("schedule", index, {k \in {"before"} :
                      there # <<>> /\ ends.after = ends.before /\ ends.after # Null})]

ParseRules(raw) ==
    LET parts == [i \in DOMAIN Items(raw) |-> ParseRule(<<i>>, Items(raw)[i])]
        rules == FilledList("rules", parts, "name")
    IN  [rules EXCEPT !.errors = @ \cup
            {p \in {Nowhere} : \A i \in DOMAIN rules.value : rules.value[i].enabled # Bool(TRUE)}]

-----------------------------------------------------------------------------
(* notifications.yaml and collection.yaml.                                 *)

\* A list that must be there and may be empty.
AnyList(section, raw, parts, key) ==
    IF Is(raw, "list") THEN Entries(section, parts, key) ELSE Unreadable

WebhookSchema ==
    [name |-> <<"pattern", "id">>, url |-> <<"pattern", "url">>, enabled |-> <<"boolean">>,
     timeout_seconds |-> <<"integer", 1>>, rules |-> <<"string_list_or_all">>,
     severities |-> <<"string_list_or_all">>]

ParseWebhook(index, raw) ==
    LET webhook == Strict("webhooks", index, raw, WebhookSchema)
        unknown == {s \in Set(webhook.value.severities) :
                        s[2] \notin {"critical", "warning", "info"}}
    IN  [webhook EXCEPT !.errors = @ \cup
            At("webhooks", index, {k \in {"severities"} : unknown # {}})]

ParseNotifications(raw) ==
    LET top == Section("notifications", <<>>, raw, [log |-> <<"section">>], {"log", "webhooks"})
        list == Get(raw, "webhooks")
        parts == [i \in DOMAIN Items(list) |-> ParseWebhook(<<i>>, Items(list)[i])]
        webhooks == AnyList("webhooks", list, parts, "name")
    IN  Joined(<< top, Strict("log", <<>>, top.value.log, [enabled |-> <<"boolean">>]), webhooks >>,
               webhooks.value)

SessionSchema ==
    [id |-> <<"pattern", "id">>, camera |-> <<"string">>, enabled |-> <<"boolean">>,
     max_frames |-> <<"integer", 0>>, schedule |-> <<"section">>, sampling |-> <<"section">>,
     filters |-> <<"section">>, save |-> <<"section">>]
ScheduleSchema ==
    WindowSchema ++ [start_date |-> <<"pattern_or_null", "date">>,
                     end_date |-> <<"pattern_or_null", "date">>]
SamplingSchema ==
    [mode |-> <<"enum", <<"interval", "on_detection", "random">> >>,
     interval_seconds |-> <<"integer_or_null", 1>>, frames_per_minute |-> <<"integer_or_null", 1>>]
FiltersSchema ==
    [classes |-> <<"string_list_or_all">>, min_confidence |-> <<"share">>,
     min_detections |-> <<"integer", 0>>]
SaveSchema == [annotated |-> <<"boolean">>, raw |-> <<"boolean">>, metadata |-> <<"boolean">>]

\* One end behind the other, of the window of a day (strictly) and of days.
Backwards(s) ==
    {k \in {"before"} : Null \notin {s.after, s.before}
                            /\ Rank[s.after[2]] >= Rank[s.before[2]]}
        \cup {k \in {"end_date"} : Null \notin {s.start_date, s.end_date}
                                       /\ Rank[s.start_date[2]] > Rank[s.end_date[2]]}

\* A mode without its rate.
Rateless(s) ==
    {k \in {"interval_seconds"} : s.mode = Str("interval") /\ s[k] = Null}
        \cup {k \in {"frames_per_minute"} : s.mode = Str("random") /\ s[k] = Null}

ParseSession(index, raw) ==
    LET own == Strict("sessions", index, raw, SessionSchema)
        Part(key, schema) == Strict(key, index, own.value[key], schema)
        schedule == Part("schedule", ScheduleSchema)
        sampling == Part("sampling", SamplingSchema)
        filters == Part("filters", FiltersSchema)
        save == Part("save", SaveSchema)
        joined == Joined(<< own, schedule, sampling, filters, save >>,
                         own.value ++ [rate |-> sampling.value, wanted |-> filters.value])
    IN  [joined EXCEPT !.errors = @
            \cup At("schedule", index, Backwards(schedule.value))
            \cup At("sampling", index, Rateless(sampling.value))
            \cup At("sessions", index, {k \in {"save"} : Bool(TRUE) \notin Range(save.value)})]

NotConfigured == [errors |-> {}, warnings |-> {}, value |-> <<>>, read |-> {}]

ParseCollection(raw) ==
    LET top == Section("collection", <<>>, raw, [output_dir |-> <<"string">>],
                       {"output_dir", "sessions"})
        list == Get(raw, "sessions")
        parts == [i \in DOMAIN Items(list) |-> ParseSession(<<i>>, Items(list)[i])]
        sessions == AnyList("sessions", list, parts, "id")
    IN  IF raw = Null THEN NotConfigured
        ELSE Joined(<< top, sessions >>, sessions.value)

-----------------------------------------------------------------------------
(* load_section and the order of load_config.                              *)

FileNames ==
    <<"device", "api", "models", "cameras", "rules", "notifications", "collection">>

\* The section of a file, whose contents may be Missing, broken YAML, nothing, no
\* mapping, or a mapping without it.
Parse(name, contents) ==
    LET raw == Get(contents, name)
    IN  IF name = "collection" /\ (contents = Null \/ (Is(contents, "map") /\ raw = Missing))
        THEN NotConfigured
        ELSE IF ~ Is(contents, "map") \/ raw = Missing THEN Unreadable
        ELSE CASE name = "device"        -> ParseDevice(raw)
               [] name = "api"           -> ParseApi(raw)
               [] name = "models"        -> ParseModels(raw)
               [] name = "cameras"       -> ParseCameras(raw)
               [] name = "rules"         -> ParseRules(raw)
               [] name = "notifications" -> ParseNotifications(raw)
               [] name = "collection"    -> ParseCollection(raw)
=============================================================================
