------------------------------ MODULE Deployment ------------------------------
(***************************************************************************)
(* From the files of an operator to the first detection: load_config file   *)
(* by file, _validate, the models and trackers of the enabled cameras, and   *)
(* a detection on its way over class filter, zone and rules to its table.    *)
(*                                                                         *)
(* The time of day, confidence and cooldown of the rules are those of        *)
(* Alerts, and left out here.                                              *)
(***************************************************************************)
EXTENDS Config, Zones

CONSTANTS
    Configs,      \* the files an operator may leave: name |-> contents, and under
                  \* "trackers" the config of BoxMOT by its path
    Shown(_),     \* the boxes of interest for each of them
    Names,        \* path of weights or of nvinfer's config |-> the classes it names
    Algorithms,   \* name |-> its defaults and the common options it does not take
    Common        \* COMMON_DEFAULTS; of a default only its type matters

\* A list of YAML is a sequence, and an int a whole number.
IsSequence(v) == Items(v) \in Seq(Set(v))
IsTyped(v) == IsSequence(v) /\ \A n \in Set(v) : Is(n, "int") => n[2] \in Int

AreasAreTyped(cam) ==
    /\ IsSequence(Get(cam, "zones"))
    /\ \A zone \in Set(Get(cam, "zones")) :
          LET polygon == Get(zone, "polygon")
          IN  IsSequence(polygon) /\ \A point \in Set(polygon) : IsTyped(point)

ASSUME DeploymentAssumption ==
    /\ \A a \in DOMAIN Algorithms : Algorithms[a].excluded \subseteq DOMAIN Common
    /\ \A c \in Configs :
          LET cameras == Get(Get(c, "cameras"), "cameras")
          IN  /\ IsSequence(cameras)
              /\ \A cam \in Set(cameras) : AreasAreTyped(cam) /\ IsSequence(Get(cam, "routing"))
              /\ Shown(c) \subseteq Boxes

VARIABLES
    config,     \* what is written
    status,     \* "loading", "refused", "accepted", "idle", "failed" or "running"
    cfg,        \* what has been read of it, file by file
    problems, warnings,
    profiles,   \* camera |-> the options its BoxMOT tracker runs with
    sight       \* what became of the detection, once there is one

startup == <<config, status, cfg, problems, warnings, profiles>>
allVars == <<startup, sight, vars>>

Yes == Bool(TRUE)

-----------------------------------------------------------------------------
(* What has been read.                                                     *)

ModelList == cfg["models"].value
Cams == cfg["cameras"].value
Rules == cfg["rules"].value
Webhooks == cfg["notifications"].value
Sessions == cfg["collection"].value

Enabled(list) == {i \in DOMAIN list : list[i].enabled = Yes}
EnabledCams == {Cams[i] : i \in Enabled(Cams)}
EnabledRules == {Rules[i] : i \in Enabled(Rules)}

Known(id) == \E i \in DOMAIN ModelList : ModelList[i].id = id
ModelOf(cam) == ModelList[CHOOSE i \in DOMAIN ModelList : ModelList[i].id = cam.model_id]
CamNamed(id) == Cams[CHOOSE i \in DOMAIN Cams : Cams[i].id = id]

\* The classes of a camera once _validate has resolved "*".
Classes(cam) ==
    IF cam.classes = All THEN IF Known(cam.model_id) THEN Set(ModelOf(cam).classes) ELSE {}
    ELSE Set(cam.classes)

Covered(cam) ==
    UNION {IF cam.routes[j].classes = All THEN Classes(cam) ELSE Set(cam.routes[j].classes) :
              j \in DOMAIN cam.routes}

\* rules.yaml takes items of any kind for names, by their text.
Text(v) == IF Is(v, "str") THEN v ELSE Str(ToString(v[Len(v)]))
Named(v) == {Text(item) : item \in Set(v)}

ZoneNames(cams) == UNION {{cam.areas[j].name : j \in DOMAIN cam.areas} : cam \in cams}

-----------------------------------------------------------------------------
(* _validate.                                                              *)

UsedModels == {ModelOf(cam) : cam \in {c \in EnabledCams : Known(c.model_id)}}

CameraErrors ==
    {<<"max_cameras", Blank>> : n \in {n \in {cfg["device"].value.max_cameras[2]} :
                                          Cardinality(Enabled(Cams)) > n}}
        \cup {<<"model_id", cam.id>> : cam \in {c \in Range(Cams) : ~ Known(c.model_id)}}
        \cup {<<"classes", cam.id>> :
                 cam \in {c \in Range(Cams) :
                     Known(c.model_id) /\ ~ Classes(c) \subseteq Set(ModelOf(c).classes)}}
        \cup {<<"routing", cam.id>> :
                 cam \in {c \in Range(Cams) :
                     /\ Known(c.model_id)
                     /\ \E j \in DOMAIN c.routes :
                           ~ Set(c.routes[j].classes) \subseteq Set(ModelOf(c).classes)}}

\* Mutant of FileErrors: the file of the tracker is not looked for.
FileErrorsNoTracker ==
    {<<"path", m.id>> : m \in {m \in UsedModels : m.path[2] \notin OnDisk}}
        \cup {<<"ds_infer_config", m.id>> :
                 m \in {m \in UsedModels : /\ m.runtime = DeepStream
                                           /\ m.ds_infer_config[2] \notin OnDisk}}

FileErrors ==
    {<<"path", m.id>> : m \in {m \in UsedModels : m.path[2] \notin OnDisk}}
        \cup {<<"tracker", m.id>> :
                 m \in {m \in UsedModels : m.use_tracker = Yes /\ m.tracker[2] \notin OnDisk}}
        \cup {<<"ds_infer_config", m.id>> :
                 m \in {m \in UsedModels : /\ m.runtime = DeepStream
                                           /\ m.ds_infer_config[2] \notin OnDisk}}

\* What a rule, webhook or session names: everything there is, and what is active.
AllOf == [camera |-> {c.id : c \in Range(Cams)},
          class |-> UNION {Set(m.classes) : m \in Range(ModelList)},
          zone |-> ZoneNames(Range(Cams)),
          rule |-> {r.name : r \in Range(Rules)}]
Active == [camera |-> {c.id : c \in EnabledCams},
           class |-> UNION {Classes(c) : c \in EnabledCams},
           zone |-> ZoneNames(EnabledCams),
           rule |-> {r.name : r \in EnabledRules}]

\* Mutant of Inactive: an inactive name is not worth a warning.
InactiveSilent(kind, names) == {}

Unheard(kind, names) == names \ AllOf[kind]
Inactive(kind, names) == (names \cap AllOf[kind]) \ Active[kind]

\* The references of each rule and webhook: <<kind, whose, names>>.
References ==
    {<<"camera", r.name, Named(r.cameras)>> : r \in EnabledRules}
        \cup {<<"class", r.name, {r.class} \ {All}>> : r \in EnabledRules}
        \cup {<<"zone", r.name, Named(r.zones)>> : r \in EnabledRules}
        \cup {<<"rule", Webhooks[i].name, Set(Webhooks[i].rules)>> : i \in Enabled(Webhooks)}

SessionErrors ==
    {<<"session", Sessions[i].id>> :
        i \in {i \in DOMAIN Sessions :
            \/ Sessions[i].camera \notin AllOf.camera
            \/ ~ Set(Sessions[i].wanted.classes) \subseteq Classes(CamNamed(Sessions[i].camera))}}

ValidationErrors ==
    CameraErrors \cup FileErrors \cup SessionErrors
        \cup {<<ref[1], ref[2]>> : ref \in {r \in References : Unheard(r[1], r[3]) # {}}}

\* Classes of a camera that none of its routes takes.
Uncovered ==
    UNION {{<<"uncovered", cam.id, class>> : class \in Classes(cam) \ Covered(cam)} :
              cam \in {c \in Range(Cams) : Known(c.model_id) /\ c.routes # <<>>}}

ValidationWarnings ==
    Uncovered
        \cup {<<"inactive", ref[1], ref[2]>> :
                 ref \in {r \in References : Inactive(r[1], r[3]) # {}}}
        \cup {<<"inactive", "session", Sessions[i].id>> :
                 i \in {i \in Enabled(Sessions) : Sessions[i].camera \notin Active.camera}}

-----------------------------------------------------------------------------
(* The config of a BoxMOT tracker.                                         *)

\* Any content that is false in Python is no content.
NoContent == {Null, Blank, List(<<>>), Bool(FALSE), Whole(0)}
Contents(m) ==
    LET raw == Get(Get(config, "trackers"), m.tracker[2])
    IN  IF raw \in NoContent THEN Mapping(<<>>) ELSE raw

SectionKeys == {"common", "reid", "params", "algorithms"}
ReidKeys == {"reid_weights", "reid_backend", "reid_device", "reid_half"}
IsNew(raw) == \E key \in SectionKeys : Has(raw, key)

GetOr(raw, key, default) == IF Has(raw, key) THEN Get(raw, key) ELSE default
AlgorithmName(raw) == GetOr(raw, "algorithm", Str(IF IsNew(raw) THEN "bytetrack" ELSE "botsort"))
Supported(raw) == Is(AlgorithmName(raw), "str") /\ AlgorithmName(raw)[2] \in DOMAIN Algorithms
Algorithm(raw) == Algorithms[AlgorithmName(raw)[2]]

\* The options of the selected algorithm: params, its entry in the all-profiles layout,
\* or whatever is left of a flat file.
Configured(raw) ==
    IF ~ IsNew(raw)
    THEN Mapping(Restrict(Fields(raw), DOMAIN Fields(raw) \ (ReidKeys \cup {"algorithm"})))
    ELSE IF Has(raw, "algorithms") THEN Get(Get(raw, "algorithms"), AlgorithmName(raw)[2])
    ELSE GetOr(raw, "params", Mapping(<<>>))
CommonOf(raw) == IF IsNew(raw) THEN GetOr(raw, "common", Mapping(<<>>)) ELSE Mapping(<<>>)

ReidOf(raw) ==
    LET Option(key) == IF IsNew(raw) THEN key ELSE "reid_" \o key
        from == IF IsNew(raw) THEN GetOr(raw, "reid", Mapping(<<>>)) ELSE raw
    IN  [weights |-> GetOr(from, Option("weights"), Str("osnet")),
         backend |-> GetOr(from, Option("backend"), Str("pytorch")),
         device |-> GetOr(from, Option("device"), Str("auto")),
         half |-> GetOr(from, Option("half"), Bool(FALSE))]

\* resolve_params: both kinds of options over the defaults.
Written(raw) == Fields(Configured(raw)) ++ Fields(CommonOf(raw))
Defaults(raw) == Algorithm(raw).defaults ++ Common

\* Mutant of Options: the common section goes last.
OptionsCommonLast(raw) ==
    Restrict(Fields(CommonOf(raw)) ++ Fields(Configured(raw)) ++ Defaults(raw),
             DOMAIN Defaults(raw) \ Algorithm(raw).excluded)

Options(raw) ==
    Restrict(Written(raw) ++ Defaults(raw), DOMAIN Defaults(raw) \ Algorithm(raw).excluded)

\* _validate_types.
Fits(v, default) ==
    CASE v = Null \/ default = Null -> TRUE
      [] Is(default, "float")       -> IsNumber(v)
      [] OTHER                      -> Is(v, default[1])

MisfitReid(raw) ==
    LET reid == ReidOf(raw)
    IN  \/ IsNew(raw) /\ ~ DOMAIN Fields(GetOr(raw, "reid", Mapping(<<>>))) \subseteq DOMAIN reid
        \/ ~ IsText(reid.weights)
        \/ reid.backend \notin {Str("pytorch"), Str("tensorrt")}
        \/ reid.device \notin {Str("auto"), Str("cpu"), Str("cuda"), Str("mps")}
        \/ ~ Is(reid.half, "bool")

MisfitSections(raw) ==
    \/ ~ DOMAIN Fields(raw) \subseteq SectionKeys \cup {"algorithm"}
    \/ Has(raw, "params") /\ Has(raw, "algorithms")
    \/ \E key \in SectionKeys : Has(raw, key) /\ ~ Is(Get(raw, key), "map")
    \/ Has(raw, "algorithms") /\ ~ DOMAIN Fields(Get(raw, "algorithms")) \subseteq DOMAIN Algorithms
    \/ ~ Is(Configured(raw), "map")

MisfitOptions(raw) ==
    \/ ~ DOMAIN Fields(CommonOf(raw)) \subseteq DOMAIN Common
    \/ ~ DOMAIN Fields(Configured(raw)) \subseteq DOMAIN Defaults(raw)
    \/ \E key \in DOMAIN Options(raw) : ~ Fits(Options(raw)[key], Defaults(raw)[key])

\* What _load_config raises for.
Misfit(raw) ==
    \/ ~ Is(raw, "map")
    \/ ~ Supported(raw)
    \/ IsNew(raw) /\ MisfitSections(raw)
    \/ MisfitOptions(raw)
    \/ MisfitReid(raw)

-----------------------------------------------------------------------------
(* Startup.                                                                *)

\* load_config, one file after the other.
LoadFile ==
    LET name == FileNames[Cardinality(DOMAIN cfg) + 1]
    IN  /\ status = "loading"
        /\ Cardinality(DOMAIN cfg) < Len(FileNames)
        /\ \E parsed \in {Parse(name, Get(config, name))} :
              /\ warnings' = warnings \cup parsed.warnings
              /\ \/ /\ parsed.errors = {}
                    /\ cfg' = cfg ++ [n \in {name} |-> parsed]
                    /\ UNCHANGED <<status, problems>>
                 \/ /\ parsed.errors # {}
                    /\ status' = "refused"
                    /\ problems' = parsed.errors
                    /\ UNCHANGED cfg
        /\ UNCHANGED <<config, profiles, sight, vars>>

Validate ==
    /\ status = "loading"
    /\ Cardinality(DOMAIN cfg) = Len(FileNames)
    /\ problems' = ValidationErrors
    /\ status' = IF problems' = {} THEN "accepted" ELSE "refused"
    /\ warnings' = warnings \cup ValidationWarnings
    /\ UNCHANGED <<config, cfg, profiles, sight, vars>>

Tracked ==
    {cam \in EnabledCams : /\ Known(cam.model_id)
                           /\ ModelOf(cam).runtime = Ultralytics
                           /\ ModelOf(cam).use_tracker = Yes}

\* What the registry and build_camera_runtime would raise for, or do without.
Obstacles(cam) ==
    LET m == ModelOf(cam)
    IN  IF ~ Known(cam.model_id) THEN {"model"}
        ELSE {x \in {"weights"} : m.path[2] \notin OnDisk}
             \cup {x \in {"accelerator"} :
                      m.accelerator[2] \notin Accelerators(m.runtime, SuffixOf(m.path))}
             \cup {x \in {"nvinfer"} : m.runtime = DeepStream
                                          /\ (m.ds_infer_config = Null
                                              \/ m.ds_infer_config[2] \notin OnDisk)}
             \cup {x \in {"tracker"} : m.use_tracker = Yes /\ m.tracker[2] \notin OnDisk}
             \cup {x \in {"profile"} : cam \in Tracked /\ m.tracker[2] \in OnDisk /\ Misfit(Contents(m))}

\* main.run up to the pipelines.
Start ==
    /\ status = "accepted"
    /\ IF EnabledCams = {}
       THEN status' = "idle" /\ UNCHANGED <<problems, profiles>>
       ELSE /\ problems' = UNION {Obstacles(cam) : cam \in EnabledCams}
            /\ status' = IF problems' = {} THEN "running" ELSE "failed"
            /\ profiles' = IF problems' # {} THEN profiles
                           ELSE [id \in {cam.id : cam \in Tracked} |->
                                    Options(Contents(ModelOf(CamNamed(id))))]
    /\ UNCHANGED <<config, cfg, warnings, sight, vars>>

-----------------------------------------------------------------------------
(* A detection.                                                            *)

NamedBy(m) == Names[IF m.runtime = DeepStream THEN m.ds_infer_config[2] ELSE m.path[2]]

\* A DeepStream camera does not open when it wants a class its labels do not have.
Opens(cam) == ModelOf(cam).runtime = DeepStream => Classes(cam) \subseteq NamedBy(ModelOf(cam))

\* The classes of what comes out of the model: with no class of the camera in the
\* weights the filter is empty, which lets everything through; a tracker knows the
\* classes of models.yaml only.
Emitted(cam) ==
    LET m == ModelOf(cam)
        wanted == Classes(cam) \cap NamedBy(m)
        detected == IF wanted = {} THEN NamedBy(m) ELSE wanted
    IN  IF cam \notin Tracked THEN detected
        ELSE {IF class \in Set(m.classes) THEN class ELSE Str("unknown") : class \in detected}

\* Coordinates in pixels, as Zones has them.
Polygons(cam) ==
    [j \in DOMAIN cam.areas |->
        [k \in DOMAIN Items(cam.areas[j].polygon) |->
            LET point == Items(cam.areas[j].polygon)[k][2]
            IN  <<Pixel * point[1][2], Pixel * point[2][2]>>]]

ZoneName(cam, event) ==
    IF cam.areas = <<>> THEN Str("full_frame")
    ELSE IF event.zone = 0 THEN Str("unzoned")
    ELSE cam.areas[event.zone].name

\* filter_and_tag, for any time of day.
Matching(cam, class, zone) ==
    {r \in EnabledRules :
        /\ r.cameras = All \/ cam.id \in Named(r.cameras)
        /\ r.class \in {All, class}
        /\ r.zones = All \/ zone \in Named(r.zones)}

\* Mutant of RouteTable: the classes of the first entry only.
RouteTableFirst(cam, class) ==
    IF cam.table # Missing THEN cam.table
    ELSE IF cam.routes[1].classes = All \/ class \in Set(cam.routes[1].classes)
    THEN cam.routes[1].raw_table ELSE Null

\* _route_table.
RouteTable(cam, class) ==
    LET fitting == {j \in DOMAIN cam.routes :
                       cam.routes[j].classes = All \/ class \in Set(cam.routes[j].classes)}
    IN  IF cam.table # Missing THEN cam.table
        ELSE IF fitting = {} THEN Null
        ELSE cam.routes[CHOOSE j \in fitting : \A k \in fitting : j <= k].raw_table

\* _process, for one detection.
Detect(cam) ==
    /\ status = "running" /\ sight = {}
    /\ Opens(cam)
    /\ \E class \in Emitted(cam), box \in Shown(config) :
          LET x == AnchorX(box)
              y == AnchorY(box, class[2])
              event == [x |-> x, y |-> y, zone |-> AssignZone(x, y, zones')]
              zone == ZoneName(cam, event)
          IN  /\ zones' = Polygons(cam)
              /\ inf' = [box |-> box, class |-> class[2]]
              /\ events' = {event}
              /\ sight' = {[camera |-> cam.id, class |-> class, zone |-> zone,
                            rules |-> {r.name : r \in Matching(cam, class, zone)},
                            table |-> RouteTable(cam, class)]}
    /\ UNCHANGED startup

DeploymentInit ==
    /\ config \in Configs
    /\ status = "loading"
    /\ cfg = <<>> /\ problems = {} /\ warnings = {} /\ profiles = <<>>
    /\ sight = {}
    /\ zones = <<>> /\ inf = "nobody" /\ events = {}

Watch == \E cam \in EnabledCams : Detect(cam)

DeploymentNext == LoadFile \/ Validate \/ Start \/ (status = "running" /\ Watch)

DeploymentSpec == DeploymentInit /\ [][DeploymentNext]_allVars

-----------------------------------------------------------------------------
(* Safety.                                                                 *)

\* Two clauses of Zones: detections in a tiled frame are in one zone each, and inside
\* means inside, for the polygons that came out of the file.
ZoneIsRight == (zones \in Layouts => ExactlyOneZone) /\ InsideMeansInside

AsWritten(section) ==
    \A key \in DOMAIN section.value :
        \/ section.value[key] = Get(section.raw, key)
        \/ key = "ds_infer_config" /\ section.value[key] = Null

\* "Those placeholders never survive", and "there are no defaults": every value that
\* was accepted is the one that is written, but for the key that may be left out; and
\* no option of a tracker's file is swallowed or overruled, but for the common options
\* its algorithm does not take.
WrittenIsUsed ==
    /\ \A name \in DOMAIN cfg : \A section \in cfg[name].read : AsWritten(section)
    /\ \A id \in DOMAIN profiles :
          LET raw == Contents(ModelOf(CamNamed(id)))
          IN  \A key \in (DOMAIN Fields(Configured(raw)) \cup DOMAIN Fields(CommonOf(raw)))
                             \ Algorithm(raw).excluded :
                profiles[id][key] = IF Has(Configured(raw), key) THEN Get(Configured(raw), key)
                                    ELSE Get(CommonOf(raw), key)

\* "This should have been caught by config validation": a config that is accepted starts,
\* except for what is wrong inside a tracker's file, which nobody opens before.
AcceptedStarts == status = "failed" => problems = {"profile"}

\* "Those detections will be skipped": one that a rule lets pass and that has no table
\* was warned of, if it is of a class its camera asks for.
StoredOrWarned ==
    \A seen \in sight :
        \/ seen.rules = {}
        \/ seen.table # Null
        \/ seen.class \notin Classes(CamNamed(seen.camera))
        \/ <<"uncovered", seen.camera, seen.class>> \in warnings

Filters(r) == {k \in {"cameras", "zones", "class"} : r[k] # All}
Places(cam) == IF cam.areas = <<>> THEN {Str("full_frame")} ELSE ZoneNames({cam})

\* "The rule would silently never fire": a rule with one condition that nothing was said
\* about has a detection it fires for, on a camera that runs.
QuietRuleFires ==
    status = "running" =>
        \A r \in EnabledRules :
            \/ Cardinality(Filters(r)) > 1
            \/ \E kind \in {"camera", "class", "zone"} : <<"inactive", kind, r.name>> \in warnings
            \/ \E cam \in EnabledCams : \E class \in Classes(cam), zone \in Places(cam) :
                  r \in Matching(cam, class, zone)
=============================================================================
