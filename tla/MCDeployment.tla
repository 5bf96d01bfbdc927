----------------------------- MODULE MCDeployment -----------------------------
(* Instances of Deployment for TLC: a valid config of two models, three       *)
(* cameras, three rules, a webhook and a session, and what one or two changes  *)
(* make of it.                                                               *)
EXTENDS Deployment, MCZones

RECURSIVE Put(_, _, _), PathsIn(_), After(_, _)

\* The node with v at the path; Missing takes the key or the item away.
Put(node, path, v) ==
    IF path = <<>> THEN v
    ELSE LET key == Head(path)
             new == Put(IF Is(node, "list") THEN node[2][key] ELSE Get(node, key), Tail(path), v)
         IN  IF Is(node, "list")
             THEN List(IF new = Missing THEN RemoveAt(node[2], key) ELSE ReplaceAt(node[2], key, new))
             ELSE Mapping(IF new = Missing THEN Restrict(Fields(node), DOMAIN Fields(node) \ {key})
                          ELSE (key :> new) @@ Fields(node))

PathsIn(node) ==
    {<<>>} \cup
    (IF Is(node, "map") \/ Is(node, "list")
     THEN UNION {{<<key>> \o rest : rest \in PathsIn(node[2][key])} : key \in DOMAIN node[2]}
     ELSE {})

-----------------------------------------------------------------------------
(* The words of the files.                                                 *)

Plain == {"people", "night", "door", "yard", "attic", "all", "near", "cars", "hook", "s1", "t1",
          "t2", "t3", "z1", "z2", "z3", "z4", "loft", "odd", "7"}
Patterns ==
    "id" :> Plain @@ "table" :> Plain @@
    "time" :> {"08:00", "18:00"} @@ "date" :> {"2026-01-01", "2025-12-31"} @@ "uuid" :> {"uuid"} @@
    "url" :> {"https://api"} @@ "key" :> {"long key"} @@ "stream" :> {"rtsp://cam"} @@
    "digits" :> {"7"} @@ "/tmp" :> {"/tmp/db"} @@ "unknown placeholder" :> {"{who}"}
Order == "08:00" :> 8 @@ "18:00" :> 18 @@ "2025-12-31" :> 1 @@ "2026-01-01" :> 2
Disk == {"people.onnx", "night.engine", "lite.tflite", "m.mlpackage", "tracker.yaml", "nvdcf.yml",
         "infer.txt"}
Formats ==
    "people.onnx" :> ".onnx" @@ "gone.pt" :> ".pt" @@ "night.engine" :> ".engine" @@
    "lite.tflite" :> ".tflite" @@ "m.mlpackage" :> ".mlpackage"
ClassNames ==
    "people.onnx" :> {Str("person"), Str("car")} @@ "night.engine" :> {Str("bus")} @@
    "lite.tflite" :> {Str("person")} @@ "m.mlpackage" :> {Str("person"), Str("car")} @@
    "infer.txt" :> {Str("person"), Str("bus")}

TwoAlgorithms ==
    "bytetrack" :> [defaults |-> [frame_rate |-> Whole(30)], excluded |-> {}] @@
    "botsort" :> [defaults |-> [with_reid |-> Yes, width |-> Null], excluded |-> {"det_thresh"}]
CommonOptions == [det_thresh |-> Percent(30), per_class |-> Bool(FALSE), asso_func |-> Str("iou")]

-----------------------------------------------------------------------------
(* A valid config.                                                         *)

Reporting(a, b, c) == Mapping([enabled |-> a, interval_seconds |-> b] @@ c)

Device == Mapping(
    [id |-> Str("odd"), name |-> Str("n"), location |-> Str("l"),
     environment |-> Str("production"), max_cameras |-> Whole(2), log_level |-> Str("INFO"),
     heartbeat |-> Reporting(Yes, Whole(30), [table |-> Str("t1")]),
     health_file |-> Reporting(Yes, Whole(30), [path |-> Str("p")])])

Api == Mapping(
    [branch_id |-> Str("uuid"), key |-> Str("long key"), url |-> Str("https://api"),
     ingest |-> Mapping([batch_size |-> Whole(5), flush_interval_seconds |-> Whole(5)]),
     buffer |-> Mapping([path |-> Str("db"), max_size_mb |-> Whole(5),
                         retry_interval_seconds |-> Whole(5), delete_after_hours |-> Whole(0)]),
     request |-> Mapping([timeout_seconds |-> Whole(5), max_consecutive_failures |-> Whole(5)])])

Model(id, path, runtime, accelerator, classes, tracker) ==
    [id |-> Str(id), name |-> Str("n"), version |-> Str("v"), path |-> Str(path),
     runtime |-> Str(runtime), accelerator |-> Str(accelerator), classes |-> List(classes),
     confidence_threshold |-> Percent(50), iou_threshold |-> Percent(50),
     input_size |-> List(<<Whole(640), Whole(640)>>), use_tracker |-> Yes,
     tracker |-> Str(tracker), half |-> Bool(FALSE)]
People == Mapping(Model("people", "people.onnx", "ultralytics", "auto",
                        <<Str("person"), Str("car")>>, "tracker.yaml"))
Night == Mapping(Model("night", "night.engine", "deepstream", "cuda",
                       <<Str("bus"), Str("person")>>, "nvdcf.yml")
                   @@ [ds_infer_config |-> Str("infer.txt")])

Camera(id, model, classes, table, zoneList) ==
    Mapping([id |-> Str(id), name |-> Str("n"), source |-> Str("rtsp://cam"), enabled |-> Yes,
             fps_target |-> Whole(5), model_id |-> Str(model), classes |-> classes,
             zones |-> zoneList] @@ table)
Route(classes, table) == Mapping([classes |-> classes, raw_table |-> Str(table)])
Zone(name, polygon) ==
    Mapping([name |-> Str(name),
             polygon |-> List(<<>> \o [k \in DOMAIN polygon |->
                List(<<Whole(polygon[k][1] \div Pixel), Whole(polygon[k][2] \div Pixel)>>)])])
ZoneList(layout) ==
    List(<<>> \o [j \in DOMAIN layout |-> Zone(<<"z1", "z2", "z3", "z4">>[j], layout[j])])
Single == [raw_table |-> Str("t3")]

Door(layout) ==
    Camera("door", "people", All,
           [routing |-> List(<<Route(List(<<Str("person")>>), "t1"), Route(All, "t2")>>)],
           ZoneList(layout))
Yard == Camera("yard", "night", List(<<Str("bus")>>), Single, All)
Attic == Put(Camera("attic", "people", List(<<Str("car")>>), Single,
                    List(<<Zone("loft", Slanted[1])>>)), <<"enabled">>, Bool(FALSE))

Rule(name, class, cameras, zoneList) ==
    Mapping([name |-> Str(name), class |-> class, cameras |-> cameras, zones |-> zoneList,
             min_confidence |-> Null, cooldown_seconds |-> Whole(0), notify |-> Yes,
             severity |-> Str("info"), notifications_table |-> Str("t1"),
             message |-> Str("m"), enabled |-> Yes])
NightRule == Put(Rule("near", All, All, List(<<Str("z1")>>)), <<"schedule">>,
                 Mapping([after |-> Str("18:00"), before |-> Str("08:00")]))

Webhook ==
    Mapping([name |-> Str("hook"), url |-> Str("https://api"), enabled |-> Yes,
             timeout_seconds |-> Whole(5), rules |-> List(<<Str("all")>>),
             severities |-> List(<<Str("info")>>)])
CollectorSession ==
    Mapping([id |-> Str("s1"), camera |-> Str("door"), enabled |-> Yes, max_frames |-> Whole(0),
             schedule |-> Mapping([after |-> Str("08:00"), before |-> Str("18:00"),
                                   start_date |-> Null, end_date |-> Str("2026-01-01")]),
             sampling |-> Mapping([mode |-> Str("interval"), interval_seconds |-> Whole(5),
                                   frames_per_minute |-> Null]),
             filters |-> Mapping([classes |-> List(<<Str("person")>>),
                                  min_confidence |-> Percent(50), min_detections |-> Whole(0)]),
             save |-> Mapping([annotated |-> Bool(FALSE), raw |-> Yes, metadata |-> Yes])])

Tracker == Mapping(
    [algorithm |-> Str("botsort"),
     common |-> Mapping([det_thresh |-> Percent(50), asso_func |-> Str("iou")]),
     params |-> Mapping([with_reid |-> Yes, asso_func |-> Str("giou")]),
     reid |-> Mapping([backend |-> Str("pytorch")])])

File(name, raw) == name :> Mapping(name :> raw)
Valid(layout) == Mapping(
    File("device", Device) @@ File("api", Api) @@
    File("models", List(<<People, Night>>)) @@
    File("cameras", List(<<Door(layout), Yard, Attic>>)) @@
    File("rules", List(<<Rule("all", All, All, All), NightRule,
                         Rule("cars", Str("car"), List(<<Str("door")>>), All)>>)) @@
    File("notifications", Mapping([log |-> Mapping([enabled |-> Yes]),
                                   webhooks |-> List(<<Webhook>>)])) @@
    File("collection", Mapping([output_dir |-> Str("o"),
                                sessions |-> List(<<CollectorSession>>)])) @@
    "trackers" :> Mapping("tracker.yaml" :> Tracker))

Base == Valid(Slanted)

-----------------------------------------------------------------------------
(* What an operator may make of it.                                        *)

\* Changes are pairs of a path and a value.
After(files, changes) ==
    IF changes = <<>> THEN files
    ELSE After(CHOOSE n \in {Put(files, changes[1][1], changes[1][2])} : TRUE, Tail(changes))
Changed(changes) == After(Base, changes)

\* Any value in any place.
Odd ==
    {Missing, Null, Yes, Whole(-1), Whole(0), Whole(7), Nan, Percent(50), Percent(150), Blank,
     All, Str("odd"), Str("7"), List(<<>>), List(<<Blank>>), List(<<Whole(7), Whole(7)>>),
     List(<<Str("car"), Str("car")>>), List(<<List(<<Whole(7)>>)>>), Mapping(<<>>)}
Spots == PathsIn(Base) \ {<<>>, <<"trackers">>, <<"trackers", "tracker.yaml">>}
OneOdd == {<< <<path, v>> >> : path \in Spots, v \in Odd}

NodeAt(node, path) == FoldLeft(LAMBDA n, key : n[2][key], node, path)
OneTypo == {<< <<path \o <<"typo">>, Yes>> >> : path \in {p \in Spots : Is(NodeAt(Base, p), "map")}}

\* Several changes at once.
In(name, i, key) == <<name, name, i, key>>
InPart(name, part, i, key) == <<name, name, part, i, key>>
Strings(strings) == List(<<>> \o [i \in DOMAIN strings |-> Str(strings[i])])

On(camera, b) == <<In("cameras", camera, "enabled"), Bool(b)>>
Switched == {<<On(1, door), On(2, yard), On(3, attic)>> : door, yard, attic \in BOOLEAN}
Limits ==
    {Append(cams, << <<"device", "device", "max_cameras">>, Whole(n)>>) : cams \in Switched, n \in 1..3}

RuleScopes ==
    {cams \o << <<In("rules", 1, "cameras"), c>>, <<In("rules", 1, "zones"), z>>,
                <<In("rules", 1, "class"), class>> >> :
        cams \in Switched, c \in {All, Strings(<<"attic">>), Strings(<<"door", "yard">>)},
        z \in {All, Strings(<<"loft">>), Strings(<<"z1">>)}, class \in {All, Str("car"), Str("bus")}}

ModelFormats ==
    {<< <<In("models", 1, "runtime"), runtime>>, <<In("models", 1, "accelerator"), Str(acc)>>,
        <<In("models", 1, "path"), Str(path)>>, <<In("models", 1, "ds_infer_config"), infer>>,
        <<In("models", 1, "half"), Bool(half)>> >> :
        runtime \in {Ultralytics, DeepStream}, acc \in {"auto", "cpu", "cuda", "mps", "coreml"},
        path \in {"people.onnx", "lite.tflite", "gone.pt", "night.engine", "m.mlpackage", "odd"},
        infer \in {Missing, Str("infer.txt"), Str("gone.txt")}, half \in BOOLEAN}

\* The classes of a model, of a camera and of its routes, and those in the weights.
ClassSets ==
    {<< <<In("models", 1, "classes"), Strings(known)>>, <<In("cameras", 1, "classes"), asked>>,
        <<In("cameras", 1, "routing"), List(<<Route(Strings(routed), "t1")>> \o more)>>,
        <<In("models", 1, "use_tracker"), Bool(tracking)>>,
        << <<"rules", "rules">>, List(<<Rule("all", All, All, All)>>)>>,
        << <<"collection">>, Null>> >> :
        known \in {<<"person", "car">>, <<"bus">>, <<"bus", "car">>},
        asked \in {All, Strings(<<"car">>), Strings(<<"bus">>)},
        routed \in {<<"car">>, <<"bus", "person">>}, more \in {<<>>, <<Route(All, "t2")>>},
        tracking \in BOOLEAN}

TrackerFiles ==
    {Null, Missing, Str("odd"),
     Mapping([common |-> Mapping(<<>>)]),
     Mapping([algorithm |-> Str("botsort"), det_thresh |-> Percent(50), width |-> Whole(7),
              reid_half |-> Yes]),
     Mapping([with_reid |-> Yes, frame_rate |-> Whole(7)]),
     Mapping([algorithm |-> Str("bytetrack"), frame_rate |-> Whole(7), reid_device |-> Str("cpu")]),
     Mapping([algorithm |-> Str("odd"), params |-> Mapping(<<>>)]),
     Mapping([algorithms |-> Mapping([bytetrack |-> Mapping([frame_rate |-> Whole(7)])])]),
     Mapping([algorithm |-> Str("botsort"),
              algorithms |-> Mapping([bytetrack |-> Mapping([frame_rate |-> Whole(7)])])]),
     Mapping([algorithms |-> Mapping([odd |-> Mapping(<<>>)])]),
     Mapping([params |-> Mapping([frame_rate |-> Whole(7)]), algorithms |-> Mapping(<<>>)]),
     Mapping([params |-> Mapping([frame_rate |-> Percent(50)])]),
     Mapping([common |-> Mapping([frame_rate |-> Whole(7)])]),
     Mapping([common |-> Mapping([per_class |-> Null]), params |-> Mapping([per_class |-> Yes])]),
     Mapping([reid |-> Mapping([backend |-> Str("odd")])]),
     Mapping([reid |-> Mapping([device |-> Str("mps"), half |-> Whole(0)])])}
Trackings ==
    {<< << <<"trackers", "tracker.yaml">>, file>>, <<In("models", 1, "use_tracker"), Bool(tracking)>>,
        <<In("models", 1, "tracker"), Str(path)>> >> :
        file \in TrackerFiles, tracking \in BOOLEAN, path \in {"tracker.yaml", "nvdcf.yml", "gone.yml"}}

Window(after, before) == Mapping([after |-> after, before |-> before])
Eight == Str("08:00")
Samplings ==
    {<< <<InPart("collection", "sessions", 1, "camera"), Str(camera)>>,
        <<InPart("collection", "sessions", 1, "sampling"),
          Mapping([mode |-> Str(mode), interval_seconds |-> rate, frames_per_minute |-> perMinute])>>,
        <<InPart("collection", "sessions", 1, "schedule"),
          Mapping([after |-> Eight, before |-> Str(before),
                   start_date |-> Str("2026-01-01"), end_date |-> Str(end)])>> >> :
        camera \in {"door", "attic", "odd"}, mode \in {"interval", "on_detection", "random"},
        rate \in {Null, Whole(7)}, perMinute \in {Null, Whole(7)}, before \in {"08:00", "18:00"},
        end \in {"2025-12-31", "2026-01-01"}}

No == Bool(FALSE)
Rest ==
    {<< <<In("cameras", 2, "id"), Str("door")>> >>,
     << <<In("models", 2, "id"), Str("people")>> >>,
     << <<In("rules", 2, "name"), Str("all")>> >>,
     << << <<"cameras", "cameras", 1, "zones", 2, "name">>, Str("z1")>> >>,
     << <<In("rules", 2, "enabled"), No>>,
        <<InPart("notifications", "webhooks", 1, "rules"), Strings(<<"near">>)>> >>,
     << <<In("rules", 1, "enabled"), No>>, <<In("rules", 2, "enabled"), No>>,
        <<In("rules", 3, "enabled"), No>> >>,
     << <<In("rules", 2, "schedule"), Window(Eight, Eight)>> >>,
     << <<In("rules", 2, "schedule"), Window(Null, Eight)>> >>,
     << <<In("rules", 1, "message"), Str("{who}")>> >>,
     << << <<"api", "api", "buffer", "path">>, Str("/tmp/db")>> >>,
     << <<In("cameras", 1, "raw_table"), Str("t1")>> >>,
     << <<In("cameras", 1, "fps_target"), Whole(60)>> >>,
     << <<In("cameras", 1, "zones"), All>> >>,
     << <<In("models", 1, "tracker"), Str("gone.yml")>>, <<In("models", 2, "tracker"), Str("gone.yml")>> >>,
     << <<InPart("collection", "sessions", 1, "save"),
          Mapping([annotated |-> No, raw |-> No, metadata |-> No])>> >>}

\* The tilings of Zones, for the camera at the door.
Tilings == {Valid(layout) : layout \in FourLayouts}
Retiled == {<< <<In("cameras", 1, "zones"), ZoneList(layout)>> >> : layout \in FourLayouts}

Changes ==
    UNION {OneOdd, OneTypo, Limits, RuleScopes, ModelFormats, ClassSets, Trackings, Samplings,
           Rest, Retiled}
AllConfigs == {Changed(changes) : changes \in Changes}

FewBoxes == {[x1 |-> 0, x2 |-> 8, y1 |-> 0, y2 |-> 8], [x1 |-> 10, x2 |-> 20, y1 |-> 8, y2 |-> 16]}

\* Every box of whole pixels, up to one pixel over each edge of the frame.
Across == {i \in -Pixel..(FrameW + Pixel) : i % Pixel = 0}
Down == {i \in -Pixel..(FrameH + Pixel) : i % Pixel = 0}
EveryBox ==
    {b \in [x1 : Across, x2 : Across, y1 : Down, y2 : Down] : b.x1 <= b.x2 /\ b.y1 <= b.y2}
BoxesShown(files) == IF files \in Tilings THEN EveryBox ELSE FewBoxes
=============================================================================
