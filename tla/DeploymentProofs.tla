---------------------------- MODULE DeploymentProofs ---------------------------
(***************************************************************************)
(* Proofs about the ray casting and the anchor of Zones, for every polygon    *)
(* and frame, and about Deployment: what the readers, parsers and _validate   *)
(* promise of any config, and what follows for a running system.              *)
(***************************************************************************)
EXTENDS Deployment, FiniteSetTheorems, WellFoundedInduction, TLAPS

\* A zone that is drawn as a rectangle, from the corner at the top left.
Rectangle(x0, y0, x1, y1) == << <<x0, y0>>, <<x1, y0>>, <<x1, y1>>, <<x0, y1>> >>

-----------------------------------------------------------------------------

\* What the multiplied quotient says of an upright edge.
LEMMA Upright ==
    ASSUME NEW d \in Int, NEW e \in Int
    PROVE  /\ d > 0 => (0 - e * d > 0 <=> e < 0)
           /\ d < 0 => (0 - e * d < 0 <=> e < 0)
<1>1. CASE e = 0
    BY <1>1
<1>2. CASE e > 0
    <2>1. /\ d > 0 => e * d > 0
          /\ d < 0 => e * d < 0
        BY <1>2
    <2> QED
        BY <1>2, <2>1
<1>3. CASE e < 0
    <2>1. /\ d > 0 => e * d < 0
          /\ d < 0 => e * d > 0
        BY <1>3
    <2> QED
        BY <1>3, <2>1
<1> QED
    BY <1>1, <1>2, <1>3

\* The edges of a rectangle: the level ones never cross the ray, the upright ones
\* do when they are right of the point and the point is between their ends, of
\* which the upper one counts and the lower one does not.
LEMMA EdgesOfRectangle ==
    ASSUME NEW x \in Int, NEW y \in Int, NEW x0 \in Int, NEW y0 \in Int,
           NEW x1 \in Int, NEW y1 \in Int, y0 < y1
    PROVE  /\ ~ Crosses(x, y, <<x0, y0>>, <<x1, y0>>)
           /\ ~ Crosses(x, y, <<x1, y0>>, <<x0, y0>>)
           /\ Crosses(x, y, <<x1, y0>>, <<x1, y1>>) <=> y0 <= y /\ y < y1 /\ x < x1
           /\ Crosses(x, y, <<x1, y1>>, <<x1, y0>>) <=> y0 <= y /\ y < y1 /\ x < x1
<1>1. /\ ~ Crosses(x, y, <<x0, y0>>, <<x1, y0>>)
      /\ ~ Crosses(x, y, <<x1, y0>>, <<x0, y0>>)
    BY DEF Crosses
<1>2. (x1 - x1) * (y - y0) = 0 /\ (x1 - x1) * (y - y1) = 0
    OBVIOUS
<1>3. Crosses(x, y, <<x1, y0>>, <<x1, y1>>) <=> y0 <= y /\ y < y1 /\ x < x1
    <2> DEFINE d == y1 - y0
               e == x - x1
    <2>1. Crosses(x, y, <<x1, y0>>, <<x1, y1>>)
            <=> ((y0 > y) # (y1 > y)) /\ 0 - e * d > 0
        BY <1>2 DEF Crosses
    <2>2. 0 - e * d > 0 <=> e < 0
        BY Upright
    <2> QED
        BY <2>1, <2>2
<1>4. Crosses(x, y, <<x1, y1>>, <<x1, y0>>) <=> y0 <= y /\ y < y1 /\ x < x1
    <2> DEFINE d == y0 - y1
               e == x - x1
    <2>1. Crosses(x, y, <<x1, y1>>, <<x1, y0>>)
            <=> ((y1 > y) # (y0 > y)) /\ 0 - e * d < 0
        BY <1>2 DEF Crosses
    <2>2. 0 - e * d < 0 <=> e < 0
        BY Upright
    <2> QED
        BY <2>1, <2>2
<1> QED
    BY <1>1, <1>3, <1>4

-----------------------------------------------------------------------------
(* Theorems.                                                               *)

\* point_in_polygon (core/zone/zone.py) of a rectangle: the left and the upper
\* border belong to it, the right and the lower one to the neighbour.
THEOREM RectangleIsHalfOpen ==
    ASSUME NEW x \in Int, NEW y \in Int, NEW x0 \in Int, NEW y0 \in Int,
           NEW x1 \in Int, NEW y1 \in Int, x0 < x1, y0 < y1
    PROVE  PointInPolygon(x, y, Rectangle(x0, y0, x1, y1))
            <=> x0 <= x /\ x < x1 /\ y0 <= y /\ y < y1
<1> DEFINE polygon == Rectangle(x0, y0, x1, y1)
           edge(i) == Crosses(x, y, polygon[i], Before(polygon, i))
           crossings == {i \in DOMAIN polygon : edge(i)}
           level == y0 <= y /\ y < y1
<1>1. /\ DOMAIN polygon = {1, 2, 3, 4}
      /\ polygon[1] = <<x0, y0>> /\ polygon[2] = <<x1, y0>>
      /\ polygon[3] = <<x1, y1>> /\ polygon[4] = <<x0, y1>>
      /\ Len(polygon) = 4
    BY DEF Rectangle
<1>2. /\ Before(polygon, 1) = <<x0, y1>> /\ Before(polygon, 2) = <<x0, y0>>
      /\ Before(polygon, 3) = <<x1, y0>> /\ Before(polygon, 4) = <<x1, y1>>
    BY <1>1 DEF Before
<1> HIDE DEF polygon
<1>3. /\ edge(1) <=> level /\ x < x0
      /\ edge(3) <=> level /\ x < x1
    <2>1. Crosses(x, y, <<x0, y0>>, <<x0, y1>>) <=> y0 <= y /\ y < y1 /\ x < x0
        BY EdgesOfRectangle
    <2>2. Crosses(x, y, <<x1, y1>>, <<x1, y0>>) <=> y0 <= y /\ y < y1 /\ x < x1
        BY EdgesOfRectangle
    <2>3. /\ edge(1) <=> Crosses(x, y, <<x0, y0>>, <<x0, y1>>)
          /\ edge(3) <=> Crosses(x, y, <<x1, y1>>, <<x1, y0>>)
        BY <1>1, <1>2, Zenon
    <2> QED
        BY <2>1, <2>2, <2>3
<1>4. ~ edge(2) /\ ~ edge(4)
    <2>1. ~ Crosses(x, y, <<x1, y0>>, <<x0, y0>>)
        BY DEF Crosses
    <2>2. ~ Crosses(x, y, <<x0, y1>>, <<x1, y1>>)
        BY DEF Crosses
    <2> QED
        BY <1>1, <1>2, <2>1, <2>2
<1>5. crossings = {i \in {1, 3} : edge(i)}
    BY <1>1, <1>4
<1>6. CASE ~ edge(3)
    <2>1. crossings = {}
        BY <1>3, <1>5, <1>6
    <2>2. Cardinality(crossings) = 0
        BY <2>1, FS_EmptySet
    <2> QED
        BY <1>3, <1>6, <2>2 DEF PointInPolygon, polygon
<1>7. CASE edge(3) /\ ~ edge(1)
    <2>1. crossings = {3}
        BY <1>5, <1>7
    <2>2. Cardinality(crossings) = 1
        BY <2>1, FS_Singleton
    <2> QED
        BY <1>3, <1>7, <2>2 DEF PointInPolygon, polygon
<1>8. CASE edge(1)
    <2>1. crossings = {1} \cup {3} /\ 3 \notin {1}
        BY <1>3, <1>5, <1>8
    <2>2. IsFiniteSet({1}) /\ Cardinality({1}) = 1
        BY FS_Singleton
    <2>3. Cardinality(crossings) = 2
        BY <2>1, <2>2, FS_AddElement
    <2> QED
        BY <1>3, <1>8, <2>3 DEF PointInPolygon, polygon
<1> QED
    BY <1>6, <1>7, <1>8

\* Two rectangles that share a border: a point of the two is in exactly one of
\* them, wherever the border is.
THEOREM NoSeamNoOverlap ==
    ASSUME NEW x \in Int, NEW y \in Int, NEW x0 \in Int, NEW y0 \in Int,
           NEW x1 \in Int, NEW x2 \in Int, NEW y1 \in Int,
           x0 < x1, x1 < x2, y0 < y1
    PROVE  LET left == PointInPolygon(x, y, Rectangle(x0, y0, x1, y1))
               right == PointInPolygon(x, y, Rectangle(x1, y0, x2, y1))
               both == PointInPolygon(x, y, Rectangle(x0, y0, x2, y1))
           IN  /\ both <=> left \/ right
               /\ ~ (left /\ right)
<1>1. x0 < x2
    OBVIOUS
<1>2. PointInPolygon(x, y, Rectangle(x0, y0, x1, y1))
        <=> x0 <= x /\ x < x1 /\ y0 <= y /\ y < y1
    BY RectangleIsHalfOpen
<1>3. PointInPolygon(x, y, Rectangle(x1, y0, x2, y1))
        <=> x1 <= x /\ x < x2 /\ y0 <= y /\ y < y1
    BY RectangleIsHalfOpen
<1>4. PointInPolygon(x, y, Rectangle(x0, y0, x2, y1))
        <=> x0 <= x /\ x < x2 /\ y0 <= y /\ y < y1
    BY <1>1, RectangleIsHalfOpen
<1> QED
    BY <1>2, <1>3, <1>4

\* enrich (core/pipeline/enricher.py): the anchor of a box with its middle in view is
\* above the last row of pixels and left of the last column, where a zone that is drawn
\* to the edge of the frame contains it, although the feet may be on the edge or beyond.
\* A box within the frame has its middle in view unless it begins in the last two
\* columns or rows of pixels.
THEOREM AnchorInView ==
    ASSUME NEW b \in Boxes, NEW class
    PROVE  /\ MiddleInView(b) => InView(AnchorX(b), AnchorY(b, class))
           /\ (/\ b.x1 >= 0 /\ b.x2 <= FrameW /\ b.y1 >= 0 /\ b.y2 <= FrameH
               /\ b.x1 < FrameW - 2 * Pixel /\ b.y1 < FrameH - 2 * Pixel)
                 => MiddleInView(b)
<1>1. /\ b.x1 \in Int /\ b.x2 \in Int /\ b.x1 <= b.x2
      /\ b.y1 \in Int /\ b.y2 \in Int /\ b.y1 <= b.y2
    BY DEF Boxes
<1>2. FrameW \in Nat /\ FrameH \in Nat
    BY ZonesAssumption
<1>3. ASSUME MiddleInView(b)
      PROVE  InView(AnchorX(b), AnchorY(b, class))
    <2>1. /\ (b.x1 + b.x2) \div 2 \in 0..(FrameW - Pixel - 1)
          /\ (b.y1 + b.y2) \div 2 \in 0..(FrameH - Pixel - 1)
        BY <1>3 DEF MiddleInView, InView
    <2>2. CASE FeetCutOff(b) \/ class # "person"
        BY <2>1, <2>2 DEF InView, AnchorX, AnchorY
    <2>3. CASE ~ FeetCutOff(b) /\ class = "person"
        <3>1. b.y2 \in 0..(FrameH - Pixel - 1)
            BY <1>1, <1>2, <2>1, <2>3 DEF FeetCutOff, Pixel
        <3> QED
            BY <2>1, <2>3, <3>1 DEF InView, AnchorX, AnchorY
    <2> QED
        BY <2>2, <2>3
<1>4. ASSUME b.x1 >= 0, b.x2 <= FrameW, b.y1 >= 0, b.y2 <= FrameH,
             b.x1 < FrameW - 2 * Pixel, b.y1 < FrameH - 2 * Pixel
      PROVE  MiddleInView(b)
    BY <1>1, <1>2, <1>4 DEF MiddleInView, InView, Pixel
<1> QED
    BY <1>3, <1>4, Zenon

-----------------------------------------------------------------------------
(* What the readers make of a value.                                       *)

Readers ==
    {"string", "pattern", "integer", "share", "boolean", "enum", "share_or_null",
     "integer_or_null", "pattern_or_null", "optional_string", "camera_source", "int_pair",
     "string_list", "list_or_all", "string_list_or_all", "polygon", "section"}

Keeps(read, v) == ~ read.refused => read.value = v

LEMMA ScalarsKeep ==
    ASSUME NEW v, NEW arg
    PROVE  /\ Keeps(String(v), v) /\ Keeps(Pattern(v, arg), v) /\ Keeps(Integer(v, arg), v)
           /\ Keeps(Share(v), v) /\ Keeps(Boolean(v), v) /\ Keeps(Enum(v, arg), v)
           /\ Keeps(CameraSource(v), v) /\ Keeps(IntPair(v, arg), v)
BY DEF Keeps, String, Pattern, Integer, Share, Boolean, Enum, CameraSource, IntPair, Good, Bad

LEMMA NullIsKept ==
    ASSUME NEW v, NEW read, Keeps(read, v)
    PROVE  Keeps(OrNull(v, read), v)
BY DEF Keeps, OrNull, Good, Bad

LEMMA ListsKeep ==
    ASSUME NEW v
    PROVE  /\ Keeps(StringList(v), v) /\ Keeps(ListOrAll(v), v)
           /\ Keeps(StringListOrAll(v), v) /\ Keeps(Polygon(v), v)
<1>1. \A keep : Keeps(Kept(v, keep), v)
    BY DEF Keeps, Kept, Good, Bad
<1>2. \A read : read = Bad(List(<<>>)) => Keeps(read, v)
    BY DEF Keeps, Bad
<1>3. Keeps(ListOrAll(v), v)
    BY DEF Keeps, ListOrAll, Good, Bad
<1> QED
    BY <1>1, <1>2, <1>3, Zenon DEF StringList, StringListOrAll, Polygon

\* A reader that does not refuse a value returns it, but for the one of a key that
\* may be left out.
LEMMA ReadKeeps ==
    ASSUME NEW reader, reader[1] \in Readers, NEW v, ~ Read(reader, v).refused
    PROVE  \/ Read(reader, v).value = v
           \/ reader[1] = "optional_string" /\ Read(reader, v).value = Null
<1> DEFINE arg == reader[2]
<1> SUFFICES ASSUME reader[1] # "optional_string"
             PROVE  Keeps(Read(reader, v), v)
    <2>1. CASE reader[1] = "optional_string"
        <3>1. Read(reader, v) = OptionalString(v)
            BY <2>1 DEF Read
        <3> QED
            BY <2>1, <3>1, ScalarsKeep DEF OptionalString, OrNull, Keeps, Good, Bad
    <2> QED
        BY <2>1 DEF Keeps
<1>1. /\ reader[1] = "string" => Read(reader, v) = String(v)
      /\ reader[1] = "pattern" => Read(reader, v) = Pattern(v, arg)
      /\ reader[1] = "integer" => Read(reader, v) = Integer(v, arg)
      /\ reader[1] = "share" => Read(reader, v) = Share(v)
      /\ reader[1] = "boolean" => Read(reader, v) = Boolean(v)
      /\ reader[1] = "enum" => Read(reader, v) = Enum(v, arg)
      /\ reader[1] = "share_or_null" => Read(reader, v) = OrNull(v, Share(v))
      /\ reader[1] = "integer_or_null" => Read(reader, v) = OrNull(v, Integer(v, arg))
      /\ reader[1] = "pattern_or_null" => Read(reader, v) = OrNull(v, Pattern(v, arg))
      /\ reader[1] = "camera_source" => Read(reader, v) = CameraSource(v)
      /\ reader[1] = "int_pair" => Read(reader, v) = IntPair(v, arg)
      /\ reader[1] = "string_list" => Read(reader, v) = StringList(v)
      /\ reader[1] = "list_or_all" => Read(reader, v) = ListOrAll(v)
      /\ reader[1] = "string_list_or_all" => Read(reader, v) = StringListOrAll(v)
      /\ reader[1] = "polygon" => Read(reader, v) = Polygon(v)
      /\ reader[1] = "section"
            => Read(reader, v) = IF Is(v, "map") THEN Good(v) ELSE Bad(Mapping(<<>>))
    BY Zenon DEF Read
<1>2. Keeps(IF Is(v, "map") THEN Good(v) ELSE Bad(Mapping(<<>>)), v)
    BY DEF Keeps, Good, Bad
<1>3. reader[1] \in Readers \ {"optional_string"}
    OBVIOUS
<1> QED
    BY <1>1, <1>2, <1>3, ScalarsKeep, NullIsKept, ListsKeep DEF Readers

-----------------------------------------------------------------------------
(* What the parsers make of a file.                                        *)

\* Only ds_infer_config may be left out.
Sensible(schema) ==
    \A key \in DOMAIN schema :
        /\ schema[key][1] \in Readers
        /\ schema[key][1] = "optional_string" => key = "ds_infer_config"

\* Nothing has been replaced in what is read without an error.
Sound(part) == part.errors = {} => \A section \in part.read : AsWritten(section)

\* A section without an error is a mapping, and no key of it was refused.
LEMMA SectionReads ==
    ASSUME NEW section, NEW index, NEW raw, NEW schema, NEW known,
           Section(section, index, raw, schema, known).errors = {}
    PROVE  \A key \in DOMAIN schema :
              /\ ~ Read(schema[key], Get(raw, key)).refused
              /\ Section(section, index, raw, schema, known).value[key]
                    = Read(schema[key], Get(raw, key)).value
<1>1. Refused(raw, schema) = {}
    BY DEF Section, At
<1> QED
    BY <1>1 DEF Refused, Section, Values

LEMMA SectionIsSound ==
    ASSUME NEW section, NEW index, NEW raw, NEW schema, NEW known, Sensible(schema)
    PROVE  Sound(Section(section, index, raw, schema, known))
<1> DEFINE part == Section(section, index, raw, schema, known)
<1> SUFFICES ASSUME part.errors = {}
             PROVE  AsWritten([raw |-> raw, value |-> Values(raw, schema)])
    BY DEF Sound, Section
<1>1. ASSUME NEW key \in DOMAIN schema
      PROVE  \/ Values(raw, schema)[key] = Get(raw, key)
             \/ key = "ds_infer_config" /\ Values(raw, schema)[key] = Null
    <2>1. ~ Read(schema[key], Get(raw, key)).refused
        BY SectionReads
    <2>2. \/ Read(schema[key], Get(raw, key)).value = Get(raw, key)
          \/ /\ schema[key][1] = "optional_string"
             /\ Read(schema[key], Get(raw, key)).value = Null
        BY <2>1, ReadKeeps DEF Sensible
    <2> QED
        BY <2>2 DEF Sensible, Values
<1> QED
    BY <1>1 DEF AsWritten, Values

LEMMA StrictIsSound ==
    ASSUME NEW section, NEW index, NEW raw, NEW schema, Sensible(schema)
    PROVE  Sound(Strict(section, index, raw, schema))
BY SectionIsSound DEF Strict

LEMMA LaxIsSound ==
    ASSUME NEW section, NEW raw, NEW schema, Sensible(schema)
    PROVE  Sound(Lax(section, raw, schema))
BY SectionIsSound DEF Lax

LEMMA JoinedIsSound ==
    ASSUME NEW parts, NEW value, \A i \in DOMAIN parts : Sound(parts[i])
    PROVE  Sound(Joined(parts, value))
BY DEF Joined, Sound

LEMMA StricterIsSound ==
    ASSUME NEW part, NEW other, Sound(part),
           other.read = part.read, other.errors = {} => part.errors = {}
    PROVE  Sound(other)
BY DEF Sound

LEMMA EntriesAreSound ==
    ASSUME NEW section, NEW parts, NEW key, \A i \in DOMAIN parts : Sound(parts[i])
    PROVE  Sound(Entries(section, parts, key))
<1>1. Sound(Joined(parts, ValuesOf(parts)))
    BY JoinedIsSound
<1>2. /\ Entries(section, parts, key).read = Joined(parts, ValuesOf(parts)).read
      /\ Entries(section, parts, key).errors = {} => Joined(parts, ValuesOf(parts)).errors = {}
    BY DEF Entries, Joined
<1> QED
    BY <1>1, <1>2, StricterIsSound

LEMMA ListsAreSound ==
    ASSUME NEW section, NEW raw, NEW parts, NEW key, \A i \in DOMAIN parts : Sound(parts[i])
    PROVE  Sound(FilledList(section, parts, key)) /\ Sound(AnyList(section, raw, parts, key))
<1>1. Sound(Unreadable)
    BY DEF Sound, Unreadable
<1> QED
    BY <1>1, EntriesAreSound DEF FilledList, AnyList

LEMMA MergedIsSensible ==
    ASSUME NEW f, NEW g, Sensible(f), Sensible(g)
    PROVE  Sensible(f ++ g)
BY DEF Sensible, ++

LEMMA SchemasAreSensible ==
    /\ Sensible(DeviceSchema) /\ Sensible(HeartbeatSchema) /\ Sensible(HealthFileSchema)
    /\ Sensible(ApiSchema) /\ Sensible(IngestSchema) /\ Sensible(BufferSchema)
    /\ Sensible(RequestSchema) /\ Sensible(ModelSchema)
    /\ Sensible(CameraSchema) /\ Sensible(ZoneSchema) /\ Sensible(RouteSchema)
    /\ Sensible(RuleSchema) /\ Sensible(WindowSchema) /\ Sensible(WebhookSchema)
    /\ Sensible(SessionSchema) /\ Sensible(ScheduleSchema) /\ Sensible(SamplingSchema)
    /\ Sensible(FiltersSchema) /\ Sensible(SaveSchema)
    /\ Sensible([log |-> <<"section">>]) /\ Sensible([enabled |-> <<"boolean">>])
    /\ Sensible([output_dir |-> <<"string">>])
<1>1. /\ Sensible(DeviceSchema) /\ Sensible(HeartbeatSchema) /\ Sensible(HealthFileSchema)
      /\ Sensible(ApiSchema) /\ Sensible(IngestSchema) /\ Sensible(BufferSchema)
      /\ Sensible(RequestSchema)
    BY DEF Sensible, Readers, DeviceSchema, HeartbeatSchema, HealthFileSchema, ApiSchema,
           IngestSchema, BufferSchema, RequestSchema
<1>2. Sensible(ModelSchema)
    BY DEF Sensible, Readers, ModelSchema
<1>3. /\ Sensible(CameraSchema) /\ Sensible(ZoneSchema) /\ Sensible(RouteSchema)
    BY DEF Sensible, Readers, CameraSchema, ZoneSchema, RouteSchema
<1>4. /\ Sensible(RuleSchema) /\ Sensible(WindowSchema) /\ Sensible(WebhookSchema)
    BY DEF Sensible, Readers, RuleSchema, WindowSchema, WebhookSchema
<1>5. /\ Sensible(SessionSchema) /\ Sensible(SamplingSchema)
      /\ Sensible(FiltersSchema) /\ Sensible(SaveSchema)
      /\ Sensible([log |-> <<"section">>]) /\ Sensible([enabled |-> <<"boolean">>])
      /\ Sensible([output_dir |-> <<"string">>])
    BY DEF Sensible, Readers, SessionSchema, SamplingSchema, FiltersSchema, SaveSchema
<1>6. Sensible(ScheduleSchema)
    <2>1. Sensible([start_date |-> <<"pattern_or_null", "date">>,
                    end_date |-> <<"pattern_or_null", "date">>])
        BY DEF Sensible, Readers
    <2> QED
        BY <1>4, <2>1, MergedIsSensible DEF ScheduleSchema
<1> QED
    BY <1>1, <1>2, <1>3, <1>4, <1>5, <1>6

\* The keys that are read when they are there.
LEMMA SometimesThere ==
    ASSUME NEW raw, NEW schema, NEW more, Sensible(schema), Sensible(more)
    PROVE  Sensible(schema ++ IfThere(raw, more))
<1>1. Sensible(IfThere(raw, more))
    BY DEF Sensible, IfThere
<1> QED
    BY <1>1, MergedIsSensible

LEMMA DeviceIsSound ==
    ASSUME NEW raw
    PROVE  Sound(ParseDevice(raw))
<1> DEFINE top == Strict("device", <<>>, raw, DeviceSchema)
           beat == Strict("heartbeat", <<>>, top.value.heartbeat, HeartbeatSchema)
           file == Strict("health_file", <<>>, top.value.health_file, HealthFileSchema)
<1>1. Sound(top) /\ Sound(beat) /\ Sound(file)
    BY SchemasAreSensible, StrictIsSound
<1> HIDE DEF top, beat, file
<1>2. Sound(Joined(<<top, beat, file>>, top.value))
    BY <1>1, JoinedIsSound
<1> QED
    BY <1>2 DEF ParseDevice, top, beat, file

LEMMA ApiIsSound ==
    ASSUME NEW raw
    PROVE  Sound(ParseApi(raw))
<1> DEFINE top == Lax("api", raw, ApiSchema)
           ingest == Lax("ingest", top.value.ingest, IngestSchema)
           buffer == Lax("buffer", top.value.buffer, BufferSchema)
           request == Lax("request", top.value.request, RequestSchema)
           joined == Joined(<<top, ingest, buffer, request>>, top.value)
<1>1. Sound(top) /\ Sound(ingest) /\ Sound(buffer) /\ Sound(request)
    BY SchemasAreSensible, LaxIsSound
<1>2. Sound(joined)
    <2> HIDE DEF top, ingest, buffer, request
    <2> QED
        BY <1>1, JoinedIsSound
<1>3. /\ ParseApi(raw).errors = joined.errors
      /\ ParseApi(raw).read = joined.read
    BY DEF ParseApi, Joined
<1> QED
    BY <1>2, <1>3, StricterIsSound

LEMMA ModelsAreSound ==
    ASSUME NEW raw
    PROVE  Sound(ParseModels(raw))
<1>1. ASSUME NEW index, NEW item
      PROVE  Sound(ParseModel(index, item))
    <2>1. Sound(Strict("models", index, item, ModelSchema))
        BY SchemasAreSensible, StrictIsSound
    <2>2. /\ ParseModel(index, item).read = Strict("models", index, item, ModelSchema).read
          /\ ParseModel(index, item).errors = {}
                => Strict("models", index, item, ModelSchema).errors = {}
        BY DEF ParseModel, Strict, Section
    <2> QED
        BY <2>1, <2>2, StricterIsSound
<1> DEFINE parts == [i \in DOMAIN Items(raw) |-> ParseModel(<<i>>, Items(raw)[i])]
<1>2. \A i \in DOMAIN parts : Sound(parts[i])
    BY <1>1
<1> QED
    BY <1>2, ListsAreSound DEF ParseModels

LEMMA CamerasAreSound ==
    ASSUME NEW raw
    PROVE  Sound(ParseCameras(raw))
<1>1. ASSUME NEW index, NEW item
      PROVE  Sound(ParseCamera(index, item))
    <2> DEFINE there == IfThere(item, [raw_table |-> <<"string">>, routing |-> <<"list_or_all">>])
               own == Section("cameras", index, item, CameraSchema ++ there,
                              DOMAIN CameraSchema \cup {"raw_table", "routing"})
               routing == IF Has(item, "routing") THEN own.value.routing ELSE Null
               areas == [j \in DOMAIN Items(own.value.zones) |->
                            Strict("zones", index \o <<j>>, Items(own.value.zones)[j], ZoneSchema)]
               routes == [j \in DOMAIN Items(routing) |->
                            Strict("routing", index \o <<j>>, Items(routing)[j], RouteSchema)]
               regions == Entries("zones", areas, "name")
               entry == Joined(routes, ValuesOf(routes))
               value == own.value ++ [areas |-> regions.value, routes |-> ValuesOf(routes),
                                      table |-> Get(item, "raw_table")]
               joined == Joined(<<own, regions, entry>>, value)
    <2>1. Sound(own)
        <3>1. Sensible([raw_table |-> <<"string">>, routing |-> <<"list_or_all">>])
            BY DEF Sensible, Readers
        <3> QED
            BY <3>1, SchemasAreSensible, SometimesThere, SectionIsSound
    <2>2. (\A j \in DOMAIN areas : Sound(areas[j])) /\ (\A j \in DOMAIN routes : Sound(routes[j]))
        BY SchemasAreSensible, StrictIsSound
    <2>3. Sound(regions) /\ Sound(entry)
        <3> HIDE DEF areas, routes
        <3> QED
            BY <2>2, EntriesAreSound, JoinedIsSound
    <2>4. Sound(joined)
        <3> HIDE DEF own, regions, entry, value
        <3> QED
            BY <2>1, <2>3, JoinedIsSound
    <2>5. /\ ParseCamera(index, item).errors = {} => joined.errors = {}
          /\ ParseCamera(index, item).read = joined.read
        <3> DEFINE more == At("cameras", index,
                              {k \in {""} : Cardinality(DOMAIN there) # 1} \cup
                              {k \in {"routing"} : routing = All})
                   warned == At("cameras", index,
                                {k \in {"fps_target"} : own.value.fps_target[2] > 30})
        <3>1. ParseCamera(index, item)
                = [joined EXCEPT !.errors = @ \cup more, !.warnings = @ \cup warned]
            BY Zenon DEF ParseCamera
        <3> HIDE DEF own, regions, entry, value, more, warned
        <3> QED
            BY <3>1 DEF Joined
    <2> QED
        BY <2>4, <2>5, StricterIsSound
<1> DEFINE parts == [i \in DOMAIN Items(raw) |-> ParseCamera(<<i>>, Items(raw)[i])]
<1>2. \A i \in DOMAIN parts : Sound(parts[i])
    BY <1>1
<1> QED
    BY <1>2, ListsAreSound DEF ParseCameras

LEMMA RulesAreSound ==
    ASSUME NEW raw
    PROVE  Sound(ParseRules(raw))
<1>1. ASSUME NEW index, NEW item
      PROVE  Sound(ParseRule(index, item))
    <2> DEFINE there == IfThere(item, [schedule |-> <<"section">>])
               own == Section("rules", index, item, RuleSchema ++ there,
                              DOMAIN RuleSchema \cup {"schedule"})
               window == Strict("schedule", index, own.value.schedule, WindowSchema)
               ends == window.value
               daily == IF there = <<>> \/ Null \in {ends.after, ends.before} THEN AllDay
                        ELSE Mapping(ends)
               value == own.value ++ [window |-> daily]
               joined == Joined(IF there = <<>> THEN <<own>> ELSE <<own, window>>, value)
    <2>1. Sound(own) /\ Sound(window)
        <3>1. Sensible([schedule |-> <<"section">>])
            BY DEF Sensible, Readers
        <3> QED
            BY <3>1, SchemasAreSensible, SometimesThere, SectionIsSound, StrictIsSound
    <2>2. Sound(joined)
        <3> HIDE DEF own, window, value
        <3> QED
            BY <2>1, JoinedIsSound
    <2>3. /\ ParseRule(index, item).errors = {} => joined.errors = {}
          /\ ParseRule(index, item).read = joined.read
        BY DEF ParseRule, Joined
    <2> QED
        BY <2>2, <2>3, StricterIsSound
<1> DEFINE parts == [i \in DOMAIN Items(raw) |-> ParseRule(<<i>>, Items(raw)[i])]
           rules == FilledList("rules", parts, "name")
<1>2. \A i \in DOMAIN parts : Sound(parts[i])
    BY <1>1
<1>3. Sound(rules)
    BY <1>2, ListsAreSound
<1>4. /\ ParseRules(raw).errors = {} => rules.errors = {}
      /\ ParseRules(raw).read = rules.read
    BY DEF ParseRules, FilledList, Entries, Joined, Unreadable
<1> QED
    BY <1>3, <1>4, StricterIsSound

LEMMA NotificationsAreSound ==
    ASSUME NEW raw
    PROVE  Sound(ParseNotifications(raw))
<1>1. ASSUME NEW index, NEW item
      PROVE  Sound(ParseWebhook(index, item))
    <2> DEFINE webhook == Strict("webhooks", index, item, WebhookSchema)
    <2>1. Sound(webhook)
        BY SchemasAreSensible, StrictIsSound
    <2>2. /\ ParseWebhook(index, item).errors = {} => webhook.errors = {}
          /\ ParseWebhook(index, item).read = webhook.read
        BY DEF ParseWebhook, Strict, Section
    <2> QED
        BY <2>1, <2>2, StricterIsSound
<1> DEFINE top == Section("notifications", <<>>, raw, [log |-> <<"section">>],
                          {"log", "webhooks"})
           log == Strict("log", <<>>, top.value.log, [enabled |-> <<"boolean">>])
           list == Get(raw, "webhooks")
           parts == [i \in DOMAIN Items(list) |-> ParseWebhook(<<i>>, Items(list)[i])]
           webhooks == AnyList("webhooks", list, parts, "name")
<1>2. Sound(top) /\ Sound(log)
    BY SchemasAreSensible, SectionIsSound, StrictIsSound
<1>3. Sound(webhooks)
    <2>1. \A i \in DOMAIN parts : Sound(parts[i])
        BY <1>1
    <2> QED
        BY <2>1, ListsAreSound
<1>4. Sound(Joined(<<top, log, webhooks>>, webhooks.value))
    <2> HIDE DEF top, log, webhooks
    <2> QED
        BY <1>2, <1>3, JoinedIsSound
<1> QED
    BY <1>4 DEF ParseNotifications

LEMMA CollectionIsSound ==
    ASSUME NEW raw
    PROVE  Sound(ParseCollection(raw))
<1>1. ASSUME NEW index, NEW item
      PROVE  Sound(ParseSession(index, item))
    <2> DEFINE own == Strict("sessions", index, item, SessionSchema)
               schedule == Strict("schedule", index, own.value["schedule"], ScheduleSchema)
               sampling == Strict("sampling", index, own.value["sampling"], SamplingSchema)
               filters == Strict("filters", index, own.value["filters"], FiltersSchema)
               save == Strict("save", index, own.value["save"], SaveSchema)
               value == own.value ++ [rate |-> sampling.value, wanted |-> filters.value]
               joined == Joined(<<own, schedule, sampling, filters, save>>, value)
               more == At("schedule", index, Backwards(schedule.value))
               rates == At("sampling", index, Rateless(sampling.value))
               saves == At("sessions", index,
                           {k \in {"save"} : Bool(TRUE) \notin Range(save.value)})
    <2>1. Sound(own) /\ Sound(schedule) /\ Sound(sampling) /\ Sound(filters) /\ Sound(save)
        BY SchemasAreSensible, StrictIsSound
    <2>2. ParseSession(index, item)
            = [joined EXCEPT !.errors = @ \cup more \cup rates \cup saves]
        BY Zenon DEF ParseSession
    <2> HIDE DEF own, schedule, sampling, filters, save, value, more, rates, saves
    <2>3. Sound(joined)
        BY <2>1, JoinedIsSound
    <2>4. /\ ParseSession(index, item).errors = {} => joined.errors = {}
          /\ ParseSession(index, item).read = joined.read
        BY <2>2 DEF Joined
    <2> QED
        BY <2>3, <2>4, StricterIsSound
<1> DEFINE top == Section("collection", <<>>, raw, [output_dir |-> <<"string">>],
                          {"output_dir", "sessions"})
           list == Get(raw, "sessions")
           parts == [i \in DOMAIN Items(list) |-> ParseSession(<<i>>, Items(list)[i])]
           sessions == AnyList("sessions", list, parts, "id")
<1>2. Sound(top)
    BY SchemasAreSensible, SectionIsSound
<1>3. Sound(sessions)
    <2>1. \A i \in DOMAIN parts : Sound(parts[i])
        BY <1>1
    <2> QED
        BY <2>1, ListsAreSound
<1>4. Sound(Joined(<<top, sessions>>, sessions.value))
    <2> HIDE DEF top, sessions
    <2> QED
        BY <1>2, <1>3, JoinedIsSound
<1>5. Sound(NotConfigured)
    BY DEF Sound, NotConfigured
<1> QED
    BY <1>4, <1>5 DEF ParseCollection

\* No file that is read without an error has a value in it that replaces another.
LEMMA FilesAreSound ==
    ASSUME NEW name \in Range(FileNames), NEW contents
    PROVE  Sound(Parse(name, contents))
<1> DEFINE raw == Get(contents, name)
<1>1. Sound(NotConfigured) /\ Sound(Unreadable)
    BY DEF Sound, NotConfigured, Unreadable
<1>2. name \in {"device", "api", "models", "cameras", "rules", "notifications", "collection"}
    BY DEF FileNames, Range
<1>3. Parse(name, contents) \in
        {NotConfigured, Unreadable, ParseDevice(raw), ParseApi(raw), ParseModels(raw),
         ParseCameras(raw), ParseRules(raw), ParseNotifications(raw), ParseCollection(raw)}
    BY <1>2, Zenon DEF Parse
<1> QED
    BY <1>1, <1>3, DeviceIsSound, ApiIsSound, ModelsAreSound, CamerasAreSound,
       RulesAreSound, NotificationsAreSound, CollectionIsSound

-----------------------------------------------------------------------------
(* What an accepted file promises of its entries.                          *)

LEMMA GoodList ==
    ASSUME NEW section, NEW parts, NEW key, FilledList(section, parts, key).errors = {}
    PROVE  /\ FilledList(section, parts, key).value = ValuesOf(parts)
           /\ \A i \in DOMAIN parts : parts[i].errors = {}
           /\ Repeated(parts, key) = {}
<1>1. FilledList(section, parts, key) = Entries(section, parts, key)
    BY DEF FilledList, Unreadable
<1> DEFINE joined == Joined(parts, ValuesOf(parts))
           twice == UNION {At(section, <<i>>, {key}) : i \in Repeated(parts, key)}
<1>2. /\ joined.value = ValuesOf(parts)
      /\ joined.errors = UNION {parts[i].errors : i \in DOMAIN parts}
    BY DEF Joined
<1>3. Entries(section, parts, key) = [joined EXCEPT !.errors = @ \cup twice]
    BY DEF Entries
<1>4. DOMAIN joined = {"errors", "warnings", "value", "read"}
    BY DEF Joined
<1> HIDE DEF joined, twice
<1>5. /\ Entries(section, parts, key).value = ValuesOf(parts)
      /\ Entries(section, parts, key).errors = joined.errors \cup twice
    BY <1>2, <1>3, <1>4
<1>6. joined.errors = {} /\ twice = {}
    BY <1>1, <1>5
<1>7. Repeated(parts, key) = {}
    <2>1. \A i : At(section, <<i>>, {key}) # {}
        BY DEF At
    <2>2. \A i \in Repeated(parts, key) : At(section, <<i>>, {key}) = {}
        BY <1>6 DEF twice
    <2> QED
        BY <2>1, <2>2
<1>8. \A i \in DOMAIN parts : parts[i].errors = {}
    BY <1>2, <1>6
<1> QED
    BY <1>1, <1>5, <1>7, <1>8

\* "*", or things of which there are some.
NamesSome(v) == v = All \/ Set(v) # {}

LEMMA GoodNames ==
    ASSUME NEW v
    PROVE  /\ ~ StringList(v).refused => Set(v) # {}
           /\ ~ ListOrAll(v).refused => NamesSome(v)
           /\ ~ StringListOrAll(v).refused => NamesSome(v)
<1>1. ASSUME NEW keep, ~ Kept(v, keep).refused
      PROVE  DOMAIN v[2] # {}
    BY <1>1 DEF Kept, Good, Bad
<1>2. Is(v, "list") /\ DOMAIN v[2] # {} => Set(v) # {}
    BY DEF Set, Items, Range
<1>3. ~ ListOrAll(v).refused => NamesSome(v)
    BY <1>2 DEF ListOrAll, Good, Bad, NamesSome
<1>4. ~ Bad(List(<<>>)).refused => FALSE
    BY DEF Bad
<1> QED
    BY <1>1, <1>2, <1>3, <1>4, Zenon DEF StringList, StringListOrAll, NamesSome

SaneModel(m) ==
    /\ m.accelerator[2] \in Accelerators(m.runtime, SuffixOf(m.path))
    /\ m.runtime = DeepStream => m.ds_infer_config # Null
    /\ Set(m.classes) # {}

LEMMA GoodModel ==
    ASSUME NEW index, NEW raw, ParseModel(index, raw).errors = {}
    PROVE  SaneModel(ParseModel(index, raw).value)
<1> DEFINE part == Strict("models", index, raw, ModelSchema)
           m == part.value
<1>1. /\ part.errors = {} /\ Mismatched(m) = {}
      /\ ParseModel(index, raw).value = m
    <2>1. ParseModel(index, raw).errors = part.errors \cup At("models", index, Mismatched(m))
        BY DEF ParseModel, Strict, Section
    <2>2. ParseModel(index, raw).value = m
        BY DEF ParseModel, Strict, Section
    <2> QED
        BY <2>1, <2>2 DEF At
<1>2. \A key \in DOMAIN ModelSchema :
         ~ Read(ModelSchema[key], Get(raw, key)).refused
            /\ m[key] = Read(ModelSchema[key], Get(raw, key)).value
    BY <1>1, SectionReads DEF Strict
<1>3. m.path # Blank
    <2>1. ModelSchema["path"] = <<"string">> /\ "path" \in DOMAIN ModelSchema
        BY DEF ModelSchema
    <2>2. Read(<<"string">>, Get(raw, "path")) = String(Get(raw, "path"))
        BY Zenon DEF Read
    <2> QED
        BY <1>2, <2>1, <2>2 DEF String, IsText, Good, Bad
<1>4. Set(m.classes) # {}
    <2>1. ModelSchema["classes"] = <<"string_list">> /\ "classes" \in DOMAIN ModelSchema
        BY DEF ModelSchema
    <2>2. Read(<<"string_list">>, Get(raw, "classes")) = StringList(Get(raw, "classes"))
        BY Zenon DEF Read
    <2> QED
        BY <1>2, <2>1, <2>2, GoodNames, ListsKeep DEF Keeps
<1> HIDE DEF m
<1>5. m.accelerator[2] \in Accelerators(m.runtime, SuffixOf(m.path))
    BY <1>1, <1>3 DEF Mismatched, BadFormat
<1>6. m.runtime = DeepStream => m.ds_infer_config # Null
    BY <1>1 DEF Mismatched
<1> QED
    BY <1>1, <1>4, <1>5, <1>6 DEF SaneModel

\* What Polygons makes points of.
IsArea(area) ==
    LET points == Items(area.polygon)
    IN  /\ IsSequence(area.polygon)
        /\ \A k \in DOMAIN points : points[k][2][1][2] \in Int /\ points[k][2][2][2] \in Int

\* A zone that is accepted has whole points only.
LEMMA GoodArea ==
    ASSUME NEW index, NEW raw, Strict("zones", index, raw, ZoneSchema).errors = {},
           IsSequence(Get(raw, "polygon")), \A point \in Set(Get(raw, "polygon")) : IsTyped(point)
    PROVE  IsArea(Strict("zones", index, raw, ZoneSchema).value)
<1> DEFINE v == Get(raw, "polygon")
           area == Strict("zones", index, raw, ZoneSchema).value
<1>1. /\ "polygon" \in DOMAIN ZoneSchema
      /\ ZoneSchema["polygon"] = <<"polygon">>
    BY DEF ZoneSchema
<1>2. /\ ~ Read(<<"polygon">>, v).refused
      /\ area["polygon"] = Read(<<"polygon">>, v).value
    BY <1>1, SectionReads DEF Strict
<1>3. Read(<<"polygon">>, v) = Polygon(v)
    BY Zenon DEF Read
<1>4. area.polygon = v
    BY <1>2, <1>3, ListsKeep DEF Keeps
<1>5. Items(v) = v[2] /\ \A k \in DOMAIN v[2] : IsPoint(v[2][k])
    BY <1>2, <1>3 DEF Polygon, Kept, Items, Bad
<1>6. ASSUME NEW k \in DOMAIN v[2]
      PROVE  v[2][k][2][1][2] \in Int /\ v[2][k][2][2][2] \in Int
    <2> DEFINE point == v[2][k]
    <2>1. IsPoint(point) /\ IsTyped(point)
        BY <1>5 DEF Set, Range
    <2> HIDE DEF point
    <2>2. /\ Items(point) = point[2] /\ Len(point[2]) = 2
          /\ Is(point[2][1], "int") /\ Is(point[2][2], "int")
        BY <2>1 DEF IsPoint, IsInt, Items
    <2>3. point[2] \in Seq(Set(point))
        BY <2>1, <2>2 DEF IsTyped, IsSequence
    <2>4. point[2][1] \in Set(point) /\ point[2][2] \in Set(point)
        BY <2>2, <2>3
    <2>5. point[2][1][2] \in Int /\ point[2][2][2] \in Int
        BY <2>1, <2>2, <2>4 DEF IsTyped
    <2> QED
        BY <2>5 DEF point
<1> HIDE DEF area, v
<1> QED
    BY <1>4, <1>5, <1>6 DEF IsArea, v, area

SaneCamera(cam) ==
    /\ cam.id # Blank
    /\ NamesSome(cam.classes)
    /\ cam.areas # <<>> => DOMAIN cam.areas # {}
    /\ cam.table # Null
    /\ cam.table = Missing => cam.routes # <<>>
    /\ DOMAIN cam.routes \subseteq Nat
    /\ \A j \in DOMAIN cam.routes : cam.routes[j].raw_table # Null
    /\ \E n \in Nat : DOMAIN cam.areas = 1..n
    /\ \A j \in DOMAIN cam.areas : IsArea(cam.areas[j])

\* A camera has one of raw_table and routing, and not an empty one.
LEMMA GoodCamera ==
    ASSUME NEW index, NEW raw, ParseCamera(index, raw).errors = {},
           IsSequence(Get(raw, "routing")), AreasAreTyped(raw)
    PROVE  SaneCamera(ParseCamera(index, raw).value)
<1> DEFINE either == [raw_table |-> <<"string">>, routing |-> <<"list_or_all">>]
           there == IfThere(raw, either)
           schema == CameraSchema ++ there
           known == DOMAIN CameraSchema \cup {"raw_table", "routing"}
           own == Section("cameras", index, raw, schema, known)
           routing == IF Has(raw, "routing") THEN own.value.routing ELSE Null
           areas == [j \in DOMAIN Items(own.value.zones) |->
                        Strict("zones", index \o <<j>>, Items(own.value.zones)[j], ZoneSchema)]
           routes == [j \in DOMAIN Items(routing) |->
                        Strict("routing", index \o <<j>>, Items(routing)[j], RouteSchema)]
           regions == Entries("zones", areas, "name")
           extra == [areas |-> regions.value, routes |-> ValuesOf(routes),
                     table |-> Get(raw, "raw_table")]
           cam == own.value ++ extra
           joined == Joined(<<own, regions, Joined(routes, ValuesOf(routes))>>, cam)
           more == At("cameras", index,
                      {k \in {""} : Cardinality(DOMAIN there) # 1} \cup
                      {k \in {"routing"} : routing = All})
           warned == At("cameras", index,
                        {k \in {"fps_target"} : own.value.fps_target[2] > 30})
<1>1. ParseCamera(index, raw)
        = [joined EXCEPT !.errors = @ \cup more, !.warnings = @ \cup warned]
    BY Zenon DEF ParseCamera
<1>2. /\ joined.errors = own.errors \cup regions.errors \cup Joined(routes, ValuesOf(routes)).errors
      /\ joined.value = cam
      /\ DOMAIN joined = {"errors", "warnings", "value", "read"}
    <2> HIDE DEF own, regions, routes, cam
    <2> QED
        BY DEF Joined
<1>3. /\ own.errors = {} /\ regions.errors = {} /\ more = {}
      /\ Joined(routes, ValuesOf(routes)).errors = {}
      /\ ParseCamera(index, raw).value = cam
    <2> HIDE DEF joined, own, regions, routes, cam, more, warned
    <2> QED
        BY <1>1, <1>2
<1>4. Cardinality(DOMAIN there) = 1 /\ routing # All
    BY <1>3 DEF At
<1>5. /\ DOMAIN schema = DOMAIN CameraSchema \cup DOMAIN there
      /\ schema["id"] = <<"pattern", "id">>
      /\ schema["classes"] = <<"string_list_or_all">>
      /\ schema["zones"] = <<"list_or_all">>
      /\ "raw_table" \in DOMAIN there => schema["raw_table"] = <<"string">>
      /\ "routing" \in DOMAIN there => schema["routing"] = <<"list_or_all">>
    BY DEF CameraSchema, IfThere, ++
<1>6. /\ DOMAIN there \subseteq {"raw_table", "routing"}
      /\ \A k \in {"raw_table", "routing"} : k \in DOMAIN there <=> Has(raw, k)
    BY DEF IfThere
<1>7. /\ DOMAIN own.value = DOMAIN schema
      /\ \A key \in DOMAIN schema :
            /\ ~ Read(schema[key], Get(raw, key)).refused
            /\ own.value[key] = Read(schema[key], Get(raw, key)).value
    <2> HIDE DEF schema, known
    <2>1. DOMAIN own.value = DOMAIN schema
        BY DEF Section, Values
    <2>2. Section("cameras", index, raw, schema, known).errors = {}
        BY <1>3
    <2>3. \A key \in DOMAIN schema :
            /\ ~ Read(schema[key], Get(raw, key)).refused
            /\ Section("cameras", index, raw, schema, known).value[key]
                  = Read(schema[key], Get(raw, key)).value
        BY <2>2, SectionReads
    <2> QED
        BY <2>1, <2>3
<1>8. /\ cam.areas = regions.value /\ cam.table = Get(raw, "raw_table")
      /\ cam.routes = ValuesOf(routes)
      /\ cam.id = own.value.id /\ cam.classes = own.value.classes
    <2>1. DOMAIN schema \cap {"areas", "routes", "table"} = {}
        BY <1>5, <1>6 DEF CameraSchema
    <2>2. "id" \in DOMAIN schema /\ "classes" \in DOMAIN schema
        BY <1>5 DEF CameraSchema
    <2> HIDE DEF own, regions, routes, schema, there
    <2> QED
        BY <1>7, <2>1, <2>2 DEF ++
<1> HIDE DEF own, regions, schema, there, more, warned, cam, extra, joined, routing
<1>9. cam.id # Blank
    <2>1. Read(<<"pattern", "id">>, Get(raw, "id")) = Pattern(Get(raw, "id"), "id")
        BY Zenon DEF Read
    <2>2. "id" \in DOMAIN schema
        BY <1>5 DEF CameraSchema
    <2> QED
        BY <1>5, <1>7, <1>8, <2>1, <2>2 DEF Pattern, IsText, Good, Bad
<1>10. NamesSome(cam.classes)
    <2>1. Read(<<"string_list_or_all">>, Get(raw, "classes")) = StringListOrAll(Get(raw, "classes"))
        BY Zenon DEF Read
    <2>2. "classes" \in DOMAIN schema
        BY <1>5 DEF CameraSchema
    <2> QED
        BY <1>5, <1>7, <1>8, <2>1, <2>2, GoodNames, ListsKeep DEF Keeps
<1>11. cam.areas # <<>> => DOMAIN cam.areas # {}
    <2>1. regions.value = ValuesOf(areas)
        BY DEF regions, Entries, Joined
    <2> HIDE DEF areas
    <2>2. \A f : f = [i \in DOMAIN f |-> f[i]] /\ DOMAIN f = {} => f = <<>>
        OBVIOUS
    <2> QED
        BY <1>8, <2>1, <2>2 DEF ValuesOf
<1>12. Has(raw, "raw_table") => IsText(Get(raw, "raw_table"))
    <2>1. Read(<<"string">>, Get(raw, "raw_table")) = String(Get(raw, "raw_table"))
        BY Zenon DEF Read
    <2> QED
        BY <1>5, <1>6, <1>7, <2>1 DEF String, Good, Bad
<1>13. cam.table # Null
    <2>1. Missing # Null
        BY DEF Missing, Null
    <2> QED
        BY <1>8, <1>12, <2>1 DEF Get, IsText, Is, Null, Missing
<1>14. ASSUME cam.table = Missing
       PROVE  cam.routes # <<>>
    <2>1. ~ Has(raw, "raw_table")
        BY <1>8, <1>12, <1>14 DEF IsText, Is, Missing
    <2>2. Has(raw, "routing")
        <3>1. ASSUME ~ Has(raw, "routing")
              PROVE  FALSE
            <4>1. DOMAIN there = {}
                BY <1>6, <2>1, <3>1
            <4> QED
                BY <1>4, <4>1, FS_EmptySet
        <3> QED
            BY <3>1
    <2>3. ~ ListOrAll(Get(raw, "routing")).refused /\ own.value.routing = Get(raw, "routing")
        <3>1. Read(<<"list_or_all">>, Get(raw, "routing")) = ListOrAll(Get(raw, "routing"))
            BY Zenon DEF Read
        <3> QED
            BY <1>5, <1>6, <1>7, <2>2, <3>1, ListsKeep DEF Keeps
    <2>4. Set(routing) # {}
        BY <1>4, <2>2, <2>3, GoodNames DEF routing, NamesSome
    <2>5. DOMAIN routes # {}
        BY <2>4 DEF Set, Range
    <2> QED
        BY <1>8, <2>5 DEF ValuesOf
<1>15. DOMAIN routes \subseteq Nat
    <2>1. Items(routing) = Items(Get(raw, "routing")) \/ Items(routing) = <<>>
        <3>1. CASE Has(raw, "routing")
            <4>1. ~ ListOrAll(Get(raw, "routing")).refused
                     /\ own.value.routing = ListOrAll(Get(raw, "routing")).value
                <5>1. Read(<<"list_or_all">>, Get(raw, "routing")) = ListOrAll(Get(raw, "routing"))
                    BY Zenon DEF Read
                <5> QED
                    BY <1>5, <1>6, <1>7, <3>1, <5>1
            <4> QED
                BY <3>1, <4>1, ListsKeep DEF Keeps, routing
        <3>2. CASE ~ Has(raw, "routing")
            BY <3>2 DEF routing, Items, Null, Is
        <3> QED
            BY <3>1, <3>2
    <2>2. DOMAIN Items(routing) \subseteq Nat
        BY <2>1 DEF IsSequence
    <2> QED
        BY <2>2
<1>16. \A j \in DOMAIN routes : routes[j].value.raw_table # Null
    <2>1. \A j \in DOMAIN routes : routes[j].errors = {}
        <3> HIDE DEF routes
        <3> QED
            BY <1>3 DEF Joined
    <2> SUFFICES ASSUME NEW j \in DOMAIN routes
                 PROVE  routes[j].value.raw_table # Null
        OBVIOUS
    <2> DEFINE item == Items(routing)[j]
    <2>2. routes[j] = Section("routing", index \o <<j>>, item, RouteSchema, DOMAIN RouteSchema)
        BY DEF Strict
    <2>3. "raw_table" \in DOMAIN RouteSchema /\ RouteSchema["raw_table"] = <<"string">>
        BY DEF RouteSchema
    <2> HIDE DEF routes, item
    <2>4. /\ ~ Read(<<"string">>, Get(item, "raw_table")).refused
          /\ routes[j].value["raw_table"] = Read(<<"string">>, Get(item, "raw_table")).value
        BY <2>1, <2>2, <2>3, SectionReads
    <2>5. Read(<<"string">>, Get(item, "raw_table")) = String(Get(item, "raw_table"))
        BY Zenon DEF Read
    <2> QED
        BY <2>4, <2>5 DEF String, IsText, Is, Good, Bad, Null
<1>17. /\ DOMAIN cam.routes \subseteq Nat
       /\ \A j \in DOMAIN cam.routes : cam.routes[j].raw_table # Null
    <2> HIDE DEF routes
    <2> QED
        BY <1>8, <1>15, <1>16 DEF ValuesOf
<1>18. \A j \in DOMAIN areas : areas[j].errors = {}
    <2> DEFINE all == Joined(areas, ValuesOf(areas))
               twice == UNION {At("zones", <<i>>, {"name"}) : i \in Repeated(areas, "name")}
    <2>1. all.errors = UNION {areas[i].errors : i \in DOMAIN areas} /\ "errors" \in DOMAIN all
        BY DEF Joined
    <2>2. regions = [all EXCEPT !.errors = @ \cup twice]
        BY Zenon DEF regions, Entries
    <2> HIDE DEF all, twice, areas, regions
    <2>3. regions.errors = all.errors \cup twice
        BY <2>1, <2>2
    <2>4. all.errors = {}
        BY <1>3, <2>3
    <2> QED
        BY <2>1, <2>4
<1>19. Items(own.value.zones) \in {Items(Get(raw, "zones")), <<>>}
    <2>1. Read(<<"list_or_all">>, Get(raw, "zones")) = ListOrAll(Get(raw, "zones"))
        BY Zenon DEF Read
    <2>2. "zones" \in DOMAIN schema /\ schema["zones"] = <<"list_or_all">>
        BY <1>5 DEF CameraSchema
    <2>3. own.value["zones"] = Get(raw, "zones")
        BY <1>7, <2>1, <2>2, ListsKeep DEF Keeps
    <2> QED
        BY <2>3
<1>20. \E n \in Nat : DOMAIN areas = 1..n
    <2>1. Items(Get(raw, "zones")) \in Seq(Set(Get(raw, "zones")))
        BY DEF AreasAreTyped, IsSequence
    <2> DEFINE list == Items(own.value.zones)
    <2>2. \E n \in Nat : DOMAIN list = 1..n
        <3>1. CASE list = Items(Get(raw, "zones"))
            BY <2>1, <3>1
        <3>2. CASE list = <<>>
            BY <3>2
        <3> QED
            BY <1>19, <3>1, <3>2
    <2> QED
        BY <2>2
<1>21. ASSUME NEW j \in DOMAIN areas
       PROVE  IsArea(areas[j].value)
    <2> DEFINE item == Items(own.value.zones)[j]
    <2>1. item \in Set(Get(raw, "zones"))
        BY <1>19 DEF Set, Range
    <2>2. areas[j] = Strict("zones", index \o <<j>>, item, ZoneSchema)
        OBVIOUS
    <2>3. areas[j].errors = {}
        BY <1>18
    <2>4. /\ IsSequence(Get(item, "polygon"))
          /\ \A point \in Set(Get(item, "polygon")) : IsTyped(point)
        BY <2>1 DEF AreasAreTyped
    <2> HIDE DEF item, areas
    <2> QED
        BY <2>2, <2>3, <2>4, GoodArea
<1>22. /\ DOMAIN cam.areas = DOMAIN areas
       /\ \A j \in DOMAIN cam.areas : cam.areas[j] = areas[j].value
    <2>1. regions.value = ValuesOf(areas)
        BY DEF regions, Entries, Joined
    <2> HIDE DEF areas
    <2> QED
        BY <1>8, <2>1 DEF ValuesOf
<1>23. /\ \E n \in Nat : DOMAIN cam.areas = 1..n
       /\ \A j \in DOMAIN cam.areas : IsArea(cam.areas[j])
    <2> HIDE DEF areas
    <2> QED
        BY <1>20, <1>21, <1>22
<1> QED
    BY <1>3, <1>9, <1>10, <1>11, <1>13, <1>14, <1>17, <1>23 DEF SaneCamera

SaneRule(r) == NamesSome(r.cameras) /\ NamesSome(r.zones)

LEMMA GoodRule ==
    ASSUME NEW index, NEW raw, ParseRule(index, raw).errors = {}
    PROVE  SaneRule(ParseRule(index, raw).value)
<1> DEFINE there == IfThere(raw, [schedule |-> <<"section">>])
           schema == RuleSchema ++ there
           known == DOMAIN RuleSchema \cup {"schedule"}
           own == Section("rules", index, raw, schema, known)
           window == Strict("schedule", index, own.value.schedule, WindowSchema)
           ends == window.value
           daily == IF there = <<>> \/ Null \in {ends.after, ends.before} THEN AllDay
                    ELSE Mapping(ends)
           rule == own.value ++ [window |-> daily]
           parts == IF there = <<>> THEN <<own>> ELSE <<own, window>>
           joined == Joined(parts, rule)
           more == At("rules", index, {k \in {"message"} :
                          own.value.message[2] \in Matches["unknown placeholder"]})
           ending == At("schedule", index, {k \in {"before"} :
                          there # <<>> /\ ends.after = ends.before /\ ends.after # Null})
<1>1. ParseRule(index, raw) = [joined EXCEPT !.errors = @ \cup more \cup ending]
    BY Zenon DEF ParseRule
<1>2. /\ own.errors \subseteq joined.errors
      /\ joined.value = rule
      /\ DOMAIN joined = {"errors", "warnings", "value", "read"}
    <2>1. \E i \in DOMAIN parts : parts[i] = own
        <3> HIDE DEF own, window
        <3> QED
            OBVIOUS
    <2> HIDE DEF parts, own, rule
    <2> QED
        BY <2>1 DEF Joined
<1>3. /\ own.errors = {}
      /\ ParseRule(index, raw).value = rule
    <2> HIDE DEF joined, own, rule, more, ending
    <2> QED
        BY <1>1, <1>2
<1>4. /\ DOMAIN schema = DOMAIN RuleSchema \cup DOMAIN there
      /\ schema["cameras"] = <<"list_or_all">>
      /\ schema["zones"] = <<"list_or_all">>
      /\ {"cameras", "zones"} \subseteq DOMAIN schema
      /\ "window" \notin DOMAIN schema
    BY DEF RuleSchema, IfThere, ++
<1>5. \A key \in DOMAIN schema :
         /\ ~ Read(schema[key], Get(raw, key)).refused
         /\ rule[key] = Read(schema[key], Get(raw, key)).value
    <2> HIDE DEF schema, known
    <2>1. DOMAIN own.value = DOMAIN schema
        BY DEF Section, Values
    <2>2. Section("rules", index, raw, schema, known).errors = {}
        BY <1>3
    <2>3. \A key \in DOMAIN schema :
             /\ ~ Read(schema[key], Get(raw, key)).refused
             /\ Section("rules", index, raw, schema, known).value[key]
                   = Read(schema[key], Get(raw, key)).value
        BY <2>2, SectionReads
    <2>4. \A key \in DOMAIN schema : rule[key] = own.value[key]
        <3> HIDE DEF own, daily
        <3> QED
            BY <2>1 DEF ++
    <2> QED
        BY <2>3, <2>4
<1> HIDE DEF rule, schema
<1>6. ASSUME NEW key \in {"cameras", "zones"}
      PROVE  NamesSome(rule[key])
    <2>1. Read(<<"list_or_all">>, Get(raw, key)) = ListOrAll(Get(raw, key))
        BY Zenon DEF Read
    <2> QED
        BY <1>4, <1>5, <2>1, GoodNames, ListsKeep DEF Keeps
<1> QED
    BY <1>3, <1>6 DEF SaneRule

-----------------------------------------------------------------------------

LEMMA GoodModels ==
    ASSUME NEW contents, Parse("models", contents).errors = {}
    PROVE  \A m \in Range(Parse("models", contents).value) : SaneModel(m)
<1> DEFINE raw == Get(contents, "models")
           parts == [i \in DOMAIN Items(raw) |-> ParseModel(<<i>>, Items(raw)[i])]
<1>1. Parse("models", contents) \in {Unreadable, ParseModels(raw)}
    BY Zenon DEF Parse
<1>2. Parse("models", contents) = FilledList("models", parts, "id")
    <2>1. Parse("models", contents) = ParseModels(raw)
        BY <1>1 DEF Unreadable
    <2> QED
        BY <2>1, Zenon DEF ParseModels
<1> HIDE DEF parts
<1>3. /\ Parse("models", contents).value = ValuesOf(parts)
      /\ \A i \in DOMAIN parts : parts[i].errors = {}
    BY <1>2, GoodList
<1>4. \A i \in DOMAIN parts : SaneModel(parts[i].value)
    BY <1>3, GoodModel DEF parts
<1> QED
    BY <1>3, <1>4 DEF ValuesOf, Range

LEMMA GoodRules ==
    ASSUME NEW contents, Parse("rules", contents).errors = {}
    PROVE  \A r \in Range(Parse("rules", contents).value) : SaneRule(r)
<1> DEFINE raw == Get(contents, "rules")
           parts == [i \in DOMAIN Items(raw) |-> ParseRule(<<i>>, Items(raw)[i])]
           rules == FilledList("rules", parts, "name")
<1>1. Parse("rules", contents) \in {Unreadable, ParseRules(raw)}
    BY Zenon DEF Parse
<1>2. Parse("rules", contents) = ParseRules(raw)
    BY <1>1 DEF Unreadable
<1>3. rules.errors = {} /\ ParseRules(raw).value = rules.value
    BY <1>2 DEF ParseRules, FilledList, Entries, Joined, Unreadable
<1> HIDE DEF parts
<1>4. /\ rules.value = ValuesOf(parts)
      /\ \A i \in DOMAIN parts : parts[i].errors = {}
    BY <1>3, GoodList
<1>5. \A i \in DOMAIN parts : SaneRule(parts[i].value)
    BY <1>4, GoodRule DEF parts
<1> QED
    BY <1>2, <1>3, <1>4, <1>5 DEF ValuesOf, Range

\* No two cameras have the same id.
LEMMA GoodCameras ==
    ASSUME NEW contents, Parse("cameras", contents).errors = {},
           IsSequence(Get(contents, "cameras")),
           \A cam \in Set(Get(contents, "cameras")) :
              AreasAreTyped(cam) /\ IsSequence(Get(cam, "routing"))
    PROVE  LET cams == Parse("cameras", contents).value
           IN  /\ \A cam \in Range(cams) : SaneCamera(cam)
               /\ \A i, j \in DOMAIN cams : cams[i].id = cams[j].id => i = j
<1> DEFINE raw == Get(contents, "cameras")
           parts == [i \in DOMAIN Items(raw) |-> ParseCamera(<<i>>, Items(raw)[i])]
           cams == Parse("cameras", contents).value
<1>1. Parse("cameras", contents) \in {Unreadable, ParseCameras(raw)}
    BY Zenon DEF Parse
<1>2. Parse("cameras", contents) = FilledList("cameras", parts, "id")
    <2>1. Parse("cameras", contents) = ParseCameras(raw)
        BY <1>1 DEF Unreadable
    <2> QED
        BY <2>1, Zenon DEF ParseCameras
<1> HIDE DEF parts
<1>3. /\ cams = ValuesOf(parts)
      /\ \A i \in DOMAIN parts : parts[i].errors = {}
      /\ Repeated(parts, "id") = {}
    BY <1>2, GoodList
<1>4. \A i \in DOMAIN parts : SaneCamera(parts[i].value)
    BY <1>3, GoodCamera DEF parts, Set, Range
<1>5. DOMAIN cams = DOMAIN parts /\ \A i \in DOMAIN cams : cams[i] = parts[i].value
    BY <1>3 DEF ValuesOf
<1>6. ASSUME NEW i \in DOMAIN cams, NEW j \in DOMAIN cams,
             cams[i].id = cams[j].id
      PROVE  i = j
    <2>1. DOMAIN parts = 1..Len(Items(raw)) /\ Len(Items(raw)) \in Nat
        BY DEF parts, IsSequence
    <2>2. \A k, l \in DOMAIN parts : l < k => parts[l].value["id"] # parts[k].value["id"]
        <3> SUFFICES ASSUME NEW k \in DOMAIN parts, NEW l \in DOMAIN parts, l < k,
                            parts[l].value["id"] = parts[k].value["id"]
                     PROVE  FALSE
            OBVIOUS
        <3>1. parts[k].value["id"] # Blank
            BY <1>4 DEF SaneCamera
        <3>2. l \in 1..(k - 1)
            BY <2>1
        <3> QED
            BY <1>3, <3>1, <3>2 DEF Repeated
    <2> QED
        BY <1>5, <1>6, <2>1, <2>2
<1>7. \A cam \in Range(cams) : SaneCamera(cam)
    BY <1>4, <1>5 DEF Range
<1> QED
    BY <1>6, <1>7

-----------------------------------------------------------------------------
(* The inductive invariant.                                                *)

\* Every file is read once, and nothing of a refused one is kept.
FilesRead ==
    /\ config \in Configs
    /\ DOMAIN cfg \subseteq Range(FileNames)
    /\ \A name \in DOMAIN cfg :
          /\ cfg[name] = Parse(name, Get(config, name))
          /\ cfg[name].errors = {}

\* From the validation on all files are there, and what _validate said of them stands.
Validated ==
    status \in {"accepted", "idle", "failed", "running"} =>
        /\ DOMAIN cfg = Range(FileNames)
        /\ ValidationErrors = {}
        /\ ValidationWarnings \subseteq warnings

Started ==
    /\ status = "failed" => problems = {"profile"}
    /\ status = "running" =>
          /\ EnabledCams # {}
          /\ \A cam \in EnabledCams : Obstacles(cam) = {}
    /\ \A id \in DOMAIN profiles :
          /\ status = "running"
          /\ \E cam \in Tracked : cam.id = id
          /\ profiles[id] = Options(Contents(ModelOf(CamNamed(id))))

Seen ==
    \A seen \in sight :
        /\ status = "running"
        /\ \E cam \in EnabledCams :
              seen.camera = cam.id /\ seen.table = RouteTable(cam, seen.class)

IInv == FilesRead /\ Validated /\ Started /\ Seen

LEMMA SevenFiles ==
    /\ IsFiniteSet(Range(FileNames)) /\ Cardinality(Range(FileNames)) = 7
    /\ Len(FileNames) = 7
    /\ \A i \in 1..7 : FileNames[i] \in Range(FileNames)
<1> DEFINE one == {"device"}
           two == one \cup {"api"}
           three == two \cup {"models"}
           four == three \cup {"cameras"}
           five == four \cup {"rules"}
           six == five \cup {"notifications"}
           seven == six \cup {"collection"}
<1>1. Range(FileNames) = seven
    BY DEF FileNames, Range
<1>2. IsFiniteSet(one) /\ Cardinality(one) = 1
    BY FS_Singleton
<1>3. IsFiniteSet(two) /\ Cardinality(two) = 2
    BY <1>2, FS_AddElement
<1>4. IsFiniteSet(three) /\ Cardinality(three) = 3
    BY <1>3, FS_AddElement
<1>5. IsFiniteSet(four) /\ Cardinality(four) = 4
    BY <1>4, FS_AddElement
<1>6. IsFiniteSet(five) /\ Cardinality(five) = 5
    BY <1>5, FS_AddElement
<1>7. IsFiniteSet(six) /\ Cardinality(six) = 6
    BY <1>6, FS_AddElement
<1>8. IsFiniteSet(seven) /\ Cardinality(seven) = 7
    BY <1>7, FS_AddElement
<1>9. Len(FileNames) = 7 /\ \A i \in 1..7 : FileNames[i] \in Range(FileNames)
    BY DEF FileNames, Range
<1> QED
    BY <1>1, <1>8, <1>9

\* The files that have been read are as many as there are only when they are all.
LEMMA AllFiles ==
    ASSUME NEW S, S \subseteq Range(FileNames)
    PROVE  /\ Cardinality(S) \in 0..7
           /\ Cardinality(S) = 7 => S = Range(FileNames)
BY SevenFiles, FS_Subset, FS_CardinalityType

LEMMA InitOK == DeploymentInit => IInv
<1>1. DOMAIN (<<>>) = {}
    OBVIOUS
<1> QED
    BY <1>1 DEF DeploymentInit, IInv, FilesRead, Validated, Started, Seen

\* What is said of the files is the same as long as they are.
LEMMA SameFiles ==
    ASSUME cfg' = cfg, config' = config
    PROVE  /\ ValidationErrors' = ValidationErrors
           /\ ValidationWarnings' = ValidationWarnings
           /\ EnabledCams' = EnabledCams /\ Tracked' = Tracked
           /\ \A cam : Obstacles(cam)' = Obstacles(cam)
           /\ \A id : Options(Contents(ModelOf(CamNamed(id))))'
                         = Options(Contents(ModelOf(CamNamed(id))))
           /\ \A cam, class : RouteTable(cam, class)' = RouteTable(cam, class)
<1>1. ValidationErrors' = ValidationErrors
    BY DEF ValidationErrors, CameraErrors, FileErrors, SessionErrors, UsedModels, References,
           Unheard, AllOf, EnabledCams, EnabledRules, Known, ModelOf, CamNamed, Classes,
           ZoneNames, Cams, ModelList, Rules, Webhooks, Sessions
<1>2. ValidationWarnings' = ValidationWarnings
    BY DEF ValidationWarnings, References, Inactive, Active, AllOf, EnabledCams, EnabledRules,
           Known, ModelOf, Classes, Covered, Uncovered, ZoneNames, Cams, ModelList, Rules,
           Webhooks, Sessions
<1>3. EnabledCams' = EnabledCams /\ Tracked' = Tracked
    BY DEF EnabledCams, Tracked, Cams, Known, ModelOf, ModelList
<1>4. \A cam : Obstacles(cam)' = Obstacles(cam)
    BY <1>3 DEF Obstacles, Known, ModelOf, ModelList, Contents, NoContent
<1>5. \A id : Options(Contents(ModelOf(CamNamed(id))))'
                 = Options(Contents(ModelOf(CamNamed(id))))
    BY DEF Contents, ModelOf, CamNamed, ModelList, Cams, NoContent
<1>6. \A cam, class : RouteTable(cam, class)' = RouteTable(cam, class)
    BY DEF RouteTable
<1> QED
    BY <1>1, <1>2, <1>3, <1>4, <1>5, <1>6

LEMMA LoadFileStep == IInv /\ LoadFile => IInv'
<1> SUFFICES ASSUME IInv, LoadFile
             PROVE  IInv'
    OBVIOUS
<1> DEFINE name == FileNames[Cardinality(DOMAIN cfg) + 1]
           parsed == Parse(name, Get(config, name))
<1>1. name \in Range(FileNames)
    <2>1. Cardinality(DOMAIN cfg) \in 0..7 /\ Cardinality(DOMAIN cfg) < 7
        BY AllFiles, SevenFiles DEF IInv, FilesRead, LoadFile
    <2> QED
        BY <2>1, SevenFiles
<1>2. /\ status = "loading" /\ UNCHANGED <<config, profiles, sight>>
      /\ \/ /\ parsed.errors = {}
            /\ cfg' = cfg ++ [n \in {name} |-> parsed]
            /\ status' = status
         \/ status' = "refused" /\ cfg' = cfg
    BY Zenon DEF LoadFile
<1> HIDE DEF name
<1>3. FilesRead'
    <2>1. CASE cfg' = cfg
        BY <1>2, <2>1 DEF IInv, FilesRead
    <2>2. CASE parsed.errors = {} /\ cfg' = cfg ++ [n \in {name} |-> parsed]
        <3> HIDE DEF parsed
        <3>1. /\ DOMAIN cfg' = DOMAIN cfg \cup {name}
              /\ \A n \in DOMAIN cfg : cfg'[n] = cfg[n]
              /\ name \notin DOMAIN cfg => cfg'[name] = parsed
            BY <2>2 DEF ++
        <3>2. DOMAIN cfg' \subseteq Range(FileNames)
            BY <1>1, <3>1 DEF IInv, FilesRead
        <3>3. ASSUME NEW n \in DOMAIN cfg'
              PROVE  cfg'[n] = Parse(n, Get(config, n)) /\ cfg'[n].errors = {}
            <4>1. CASE n \in DOMAIN cfg
                BY <3>1, <4>1 DEF IInv, FilesRead
            <4>2. CASE n \notin DOMAIN cfg
                BY <2>2, <3>1, <3>3, <4>2 DEF parsed
            <4> QED
                BY <4>1, <4>2
        <3> QED
            BY <1>2, <3>2, <3>3 DEF IInv, FilesRead
    <2> QED
        BY <1>2, <2>1, <2>2
<1>4. status' \in {"loading", "refused"}
    BY <1>2
<1>5. DOMAIN profiles = {} /\ sight = {}
    BY <1>2 DEF IInv, Started, Seen
<1> QED
    BY <1>2, <1>3, <1>4, <1>5 DEF IInv, Validated, Started, Seen

LEMMA ValidateStep == IInv /\ Validate => IInv'
<1> SUFFICES ASSUME IInv, Validate
             PROVE  IInv'
    OBVIOUS
<1>1. FilesRead'
    BY DEF IInv, FilesRead, Validate
<1>2. DOMAIN profiles = {} /\ sight = {}
    BY DEF Validate, IInv, Started, Seen
<1>3. Validated'
    <2>1. DOMAIN cfg = Range(FileNames)
        BY AllFiles, SevenFiles DEF IInv, FilesRead, Validate
    <2>2. ValidationErrors' = ValidationErrors /\ ValidationWarnings' = ValidationWarnings
        BY SameFiles DEF Validate
    <2> QED
        BY <2>1, <2>2 DEF Validate, Validated
<1> QED
    BY <1>1, <1>2, <1>3 DEF Validate, IInv, Started, Seen

LEMMA WatchStep == IInv /\ status = "running" /\ Watch => IInv'
<1> SUFFICES ASSUME IInv, NEW cam \in EnabledCams, Detect(cam)
             PROVE  IInv'
    BY DEF Watch
<1>1. UNCHANGED startup /\ status = "running"
    BY DEF Detect
<1>2. PICK class, zone, rules :
         sight' = {[camera |-> cam.id, class |-> class, zone |-> zone, rules |-> rules,
                    table |-> RouteTable(cam, class)]}
    BY Zenon DEF Detect
<1>3. FilesRead' /\ Validated'
    BY <1>1, SameFiles DEF IInv, FilesRead, Validated, startup
<1>4. Started'
    BY <1>1, SameFiles DEF IInv, Started, startup
<1>5. Seen'
    <2>1. EnabledCams' = EnabledCams /\ status' = "running"
        BY <1>1, SameFiles DEF startup
    <2>2. RouteTable(cam, class)' = RouteTable(cam, class)
        BY <1>1, SameFiles DEF startup
    <2> QED
        BY <1>2, <2>1, <2>2 DEF Seen
<1> QED
    BY <1>3, <1>4, <1>5 DEF IInv

\* What the files promise once they are validated.
LEMMA Promises ==
    ASSUME IInv, status \in {"accepted", "running"}
    PROVE  /\ \A m \in Range(ModelList) : SaneModel(m)
           /\ \A cam \in Range(Cams) : SaneCamera(cam) /\ Known(cam.model_id)
           /\ \A i, j \in DOMAIN Cams : Cams[i].id = Cams[j].id => i = j
           /\ \A r \in Range(Rules) : SaneRule(r)
           /\ FileErrors = {}
           /\ \A ref \in References : Unheard(ref[1], ref[3]) = {}
<1>1. {"models", "cameras", "rules"} \subseteq DOMAIN cfg
    BY DEF IInv, Validated, FileNames, Range
<1>2. \A name \in {"models", "cameras", "rules"} :
         cfg[name] = Parse(name, Get(config, name)) /\ cfg[name].errors = {}
    BY <1>1 DEF IInv, FilesRead
<1>3. \A m \in Range(ModelList) : SaneModel(m)
    BY <1>2, GoodModels DEF ModelList
<1>4. \A r \in Range(Rules) : SaneRule(r)
    BY <1>2, GoodRules DEF Rules
<1>5. /\ \A cam \in Range(Cams) : SaneCamera(cam)
      /\ \A i, j \in DOMAIN Cams : Cams[i].id = Cams[j].id => i = j
    <2> DEFINE list == Get(Get(config, "cameras"), "cameras")
    <2>1. /\ IsSequence(list)
          /\ \A cam \in Set(list) : AreasAreTyped(cam) /\ IsSequence(Get(cam, "routing"))
        BY DeploymentAssumption DEF IInv, FilesRead
    <2>2. Parse("cameras", Get(config, "cameras")).errors = {}
        BY <1>2
    <2> QED
        BY <1>2, <2>1, <2>2, GoodCameras DEF Cams
<1>6. /\ CameraErrors = {} /\ FileErrors = {}
      /\ {<<ref[1], ref[2]>> : ref \in {r \in References : Unheard(r[1], r[3]) # {}}} = {}
    BY DEF IInv, Validated, ValidationErrors
<1>7. \A cam \in Range(Cams) : Known(cam.model_id)
    <2>1. {<<"model_id", cam.id>> : cam \in {c \in Range(Cams) : ~ Known(c.model_id)}} = {}
        BY <1>6 DEF CameraErrors
    <2> QED
        BY <2>1
<1> QED
    BY <1>3, <1>4, <1>5, <1>6, <1>7

LEMMA EnabledAreListed ==
    ASSUME NEW cam \in EnabledCams
    PROVE  cam \in Range(Cams) /\ cam.enabled = Yes
BY DEF EnabledCams, Enabled, Range

LEMMA ModelIsListed ==
    ASSUME NEW cam, Known(cam.model_id)
    PROVE  ModelOf(cam) \in Range(ModelList)
BY DEF Known, ModelOf, Range

\* All that keeps a camera of a validated config from starting is its tracker's file.
LEMMA OnlyTheProfile ==
    ASSUME IInv, status = "accepted", NEW cam \in EnabledCams
    PROVE  Obstacles(cam) \subseteq {"profile"}
<1> DEFINE m == ModelOf(cam)
<1>1. Known(cam.model_id) /\ SaneModel(m)
    BY Promises, EnabledAreListed, ModelIsListed
<1>2. m \in UsedModels
    BY <1>1 DEF UsedModels
<1>3. /\ m.path[2] \in OnDisk
      /\ m.use_tracker = Yes => m.tracker[2] \in OnDisk
      /\ m.runtime = DeepStream => m.ds_infer_config[2] \in OnDisk
    <2>1. FileErrors = {}
        BY Promises
    <2>2. /\ {x \in UsedModels : x.path[2] \notin OnDisk} = {}
          /\ {x \in UsedModels : x.use_tracker = Yes /\ x.tracker[2] \notin OnDisk} = {}
          /\ {x \in UsedModels : x.runtime = DeepStream
                                    /\ x.ds_infer_config[2] \notin OnDisk} = {}
        BY <2>1 DEF FileErrors
    <2> HIDE DEF m
    <2> QED
        BY <1>2, <2>2
<1> QED
    BY <1>1, <1>3, Zenon DEF Obstacles, SaneModel

LEMMA StartStep == IInv /\ Start => IInv'
<1> SUFFICES ASSUME IInv, Start
             PROVE  IInv'
    OBVIOUS
<1>1. status = "accepted" /\ UNCHANGED <<config, cfg, warnings, sight>>
    BY DEF Start
<1>2. DOMAIN profiles = {} /\ sight = {}
    BY <1>1 DEF IInv, Started, Seen
<1>3. FilesRead' /\ Validated' /\ Seen'
    BY <1>1, <1>2, SameFiles DEF IInv, FilesRead, Validated, Seen
<1>4. CASE EnabledCams = {}
    <2>1. status' = "idle" /\ profiles' = profiles
        BY <1>4 DEF Start
    <2> QED
        BY <1>2, <1>3, <2>1 DEF IInv, Started
<1>5. CASE EnabledCams # {}
    <2>1. /\ problems' = UNION {Obstacles(cam) : cam \in EnabledCams}
          /\ status' = IF problems' = {} THEN "running" ELSE "failed"
          /\ profiles' = IF problems' # {} THEN profiles
                         ELSE [id \in {cam.id : cam \in Tracked} |->
                                  Options(Contents(ModelOf(CamNamed(id))))]
        BY <1>5, Zenon DEF Start
    <2>2. problems' \subseteq {"profile"}
        BY <1>1, <2>1, OnlyTheProfile
    <2>3. CASE problems' = {}
        <3>1. \A cam \in EnabledCams : Obstacles(cam) = {}
            BY <2>1, <2>3
        <3>2. Started'
            BY <1>1, <1>5, <2>1, <2>3, <3>1, SameFiles DEF Started
        <3> QED
            BY <1>3, <3>2 DEF IInv
    <2>4. CASE problems' # {}
        BY <1>2, <1>3, <2>1, <2>2, <2>4 DEF IInv, Started
    <2> QED
        BY <2>3, <2>4
<1> QED
    BY <1>4, <1>5

\* The inductive invariant holds from load_config to every detection.
THEOREM Invariance == DeploymentSpec => []IInv
<1>1. IInv /\ [DeploymentNext]_allVars => IInv'
    <2>1. IInv /\ UNCHANGED allVars => IInv'
        BY SameFiles DEF IInv, FilesRead, Validated, Started, Seen, allVars, startup
    <2> QED
        BY <2>1, LoadFileStep, ValidateStep, StartStep, WatchStep DEF DeploymentNext
<1> QED
    BY <1>1, InitOK, PTL DEF DeploymentSpec

-----------------------------------------------------------------------------
(* Theorems about the deployment.                                          *)

Smaller == {ss \in Nat \X Nat : ss[1] < ss[2]}

\* A set of natural numbers that is not empty has a least one.
LEMMA Least ==
    ASSUME NEW T \in SUBSET Nat, T # {}
    PROVE  \E x \in T : \A y \in T : x <= y
<1>1. IsWellFoundedOn(Smaller, Nat)
    BY NatLessThanWellFounded DEF OpToRel, Smaller
<1>2. PICK x \in T : \A y \in T : ~ (<<y, x>> \in Smaller)
    BY <1>1, WFMin
<1>3. ASSUME NEW y \in T
      PROVE  x <= y
    <2>1. x \in Nat /\ y \in Nat /\ <<y, x>> \in Nat \X Nat
        OBVIOUS
    <2>2. ~ (y < x)
        BY <1>2, <2>1 DEF Smaller
    <2> QED
        BY <2>1, <2>2
<1> QED
    BY <1>3

\* "This should have been caught by config validation" (core/model/loader.py): a config
\* that load_config accepts fails to start only for what is inside a tracker's file.
THEOREM AcceptedConfigsStart == DeploymentSpec => []AcceptedStarts
<1>1. IInv => AcceptedStarts
    BY DEF IInv, Started, AcceptedStarts
<1> QED
    BY <1>1, Invariance, PTL

LEMMA NamedIsItself ==
    ASSUME IInv, status = "running", NEW cam \in EnabledCams
    PROVE  CamNamed(cam.id) = cam
<1>1. \A i, j \in DOMAIN Cams : Cams[i].id = Cams[j].id => i = j
    BY Promises
<1>2. PICK i \in DOMAIN Cams : cam = Cams[i]
    BY EnabledAreListed DEF Range
<1> QED
    BY <1>1, <1>2 DEF CamNamed

\* _route_table and _validate: a detection that rules let pass and no table takes is of
\* a class that the camera does not ask for, or was warned of at startup.
THEOREM DetectionsAreStored == DeploymentSpec => []StoredOrWarned
<1>1. ASSUME IInv, NEW seen \in sight, seen.table = Null,
             seen.class \in Classes(CamNamed(seen.camera))
      PROVE  <<"uncovered", seen.camera, seen.class>> \in warnings
    <2>1. PICK cam \in EnabledCams :
             seen.camera = cam.id /\ seen.table = RouteTable(cam, seen.class)
        BY <1>1 DEF IInv, Seen
    <2>2. status = "running"
        BY <1>1 DEF IInv, Seen
    <2>3. seen.class \in Classes(cam)
        BY <1>1, <2>1, <2>2, NamedIsItself
    <2>4. /\ cam \in Range(Cams) /\ Known(cam.model_id)
          /\ cam.table # Null
          /\ cam.table = Missing => cam.routes # <<>>
        BY <1>1, <2>2, EnabledAreListed, Promises DEF SaneCamera
    <2> DEFINE takes(j) == cam.routes[j].classes = All
                              \/ seen.class \in Set(cam.routes[j].classes)
               fitting == {j \in DOMAIN cam.routes : takes(j)}
    <2>5. cam.table = Missing /\ RouteTable(cam, seen.class) = Null
        BY <1>1, <2>1, <2>4 DEF RouteTable
    <2>6. fitting = {}
        <3>1. fitting \in SUBSET Nat
            BY <1>1, <2>2, EnabledAreListed, Promises DEF SaneCamera
        <3>2. ASSUME fitting # {}
              PROVE  FALSE
            <4> DEFINE first == CHOOSE j \in fitting : \A k \in fitting : j <= k
            <4>1. first \in fitting
                <5> HIDE DEF fitting
                <5> QED
                    BY <3>1, <3>2, Least
            <4>2. RouteTable(cam, seen.class) = cam.routes[first].raw_table
                BY <2>5, <3>2, Zenon DEF RouteTable
            <4>3. cam.routes[first].raw_table # Null
                BY <1>1, <2>2, <4>1, EnabledAreListed, Promises DEF SaneCamera
            <4> QED
                BY <2>5, <4>2, <4>3
        <3> QED
            BY <3>2
    <2>7. seen.class \notin Covered(cam)
        BY <2>6 DEF Covered
    <2>8. <<"uncovered", cam.id, seen.class>> \in ValidationWarnings
        <3> DEFINE uncovered(c) ==
                       {<<"uncovered", c.id, class>> : class \in Classes(c) \ Covered(c)}
        <3>1. <<"uncovered", cam.id, seen.class>> \in uncovered(cam)
            BY <2>3, <2>7
        <3>2. cam \in {c \in Range(Cams) : Known(c.model_id) /\ c.routes # <<>>}
            BY <2>4, <2>5
        <3> HIDE DEF uncovered
        <3>3. <<"uncovered", cam.id, seen.class>>
                \in UNION {uncovered(c) :
                              c \in {c \in Range(Cams) : Known(c.model_id) /\ c.routes # <<>>}}
            BY <3>1, <3>2
        <3> QED
            BY <3>3 DEF ValidationWarnings, Uncovered, uncovered
    <2> QED
        BY <1>1, <2>1, <2>2, <2>8 DEF IInv, Validated
<1>2. IInv => StoredOrWarned
    BY <1>1 DEF StoredOrWarned
<1> QED
    BY <1>2, Invariance, PTL

\* What a camera asks for, and where.
LEMMA SomethingSomewhere ==
    ASSUME IInv, status = "running", NEW cam \in EnabledCams
    PROVE  Classes(cam) # {} /\ Places(cam) # {}
<1>1. /\ SaneCamera(cam) /\ SaneModel(ModelOf(cam)) /\ Known(cam.model_id)
    BY Promises, EnabledAreListed, ModelIsListed
<1>2. Classes(cam) # {}
    BY <1>1 DEF Classes, SaneCamera, SaneModel, NamesSome
<1>3. ASSUME cam.areas # <<>>
      PROVE  ZoneNames({cam}) # {}
    <2>1. PICK j \in DOMAIN cam.areas : TRUE
        BY <1>1, <1>3 DEF SaneCamera
    <2>2. cam.areas[j].name \in ZoneNames({cam})
        BY <2>1 DEF ZoneNames
    <2> QED
        BY <2>2
<1> QED
    BY <1>2, <1>3 DEF Places

\* A rule that names something unheard of is refused, one that names something
\* inactive is warned of.
LEMMA WhatRulesName ==
    ASSUME IInv, status = "running", NEW r \in EnabledRules,
           \A kind \in {"camera", "class", "zone"} : <<"inactive", kind, r.name>> \notin warnings
    PROVE  /\ Named(r.cameras) \subseteq Active.camera
           /\ {r.class} \ {All} \subseteq Active.class
           /\ Named(r.zones) \subseteq Active.zone
<1> DEFINE refs == {<<"camera", r.name, Named(r.cameras)>>,
                    <<"class", r.name, {r.class} \ {All}>>,
                    <<"zone", r.name, Named(r.zones)>>}
<1>1. refs \subseteq References
    BY DEF References
<1>2. \A ref \in References : Unheard(ref[1], ref[3]) = {}
    BY Promises
<1>3. \A ref \in References :
         Inactive(ref[1], ref[3]) # {} => <<"inactive", ref[1], ref[2]>> \in warnings
    <2> DEFINE passed == {ref \in References : Inactive(ref[1], ref[3]) # {}}
               said == {<<"inactive", ref[1], ref[2]>> : ref \in passed}
    <2>1. said \subseteq ValidationWarnings
        BY DEF ValidationWarnings
    <2>2. ValidationWarnings \subseteq warnings
        BY DEF IInv, Validated
    <2> QED
        BY <2>1, <2>2
<1>4. \A ref \in refs : Inactive(ref[1], ref[3]) = {}
    BY <1>1, <1>3
<1>5. \A ref \in refs : ref[3] \subseteq Active[ref[1]]
    BY <1>1, <1>2, <1>4 DEF Unheard, Inactive
<1> QED
    BY <1>5

\* A rule has at most one condition when it has one and no other.
LEMMA OneCondition ==
    ASSUME NEW r, ~ Cardinality(Filters(r)) > 1
    PROVE  \A j, k \in Filters(r) : j = k
<1> SUFFICES ASSUME NEW j \in Filters(r), NEW k \in Filters(r), j # k
             PROVE  FALSE
    OBVIOUS
<1>1. IsFiniteSet(Filters(r))
    <2>1. IsFiniteSet({"cameras"} \cup {"zones"} \cup {"class"})
        BY FS_Singleton, FS_Union
    <2> QED
        BY <2>1, FS_Subset DEF Filters
<1>2. Cardinality({j} \cup {k}) = 2
    <2>1. IsFiniteSet({j}) /\ Cardinality({j}) = 1 /\ k \notin {j}
        BY FS_Singleton
    <2> QED
        BY <2>1, FS_AddElement
<1>3. {j} \cup {k} \subseteq Filters(r)
    OBVIOUS
<1>4. Cardinality({j} \cup {k}) <= Cardinality(Filters(r))
    BY <1>1, <1>3, FS_Subset
<1>5. Cardinality(Filters(r)) \in Nat
    BY <1>1, FS_CardinalityType
<1> QED
    BY <1>2, <1>4, <1>5

\* filter_and_tag and _validate: of the rules that set one condition, none that was
\* not warned of waits for what no running camera can show.
THEOREM QuietRulesFire == DeploymentSpec => []QuietRuleFires
<1>1. ASSUME IInv, status = "running", NEW r \in EnabledRules,
             ~ Cardinality(Filters(r)) > 1,
             \A kind \in {"camera", "class", "zone"} : <<"inactive", kind, r.name>> \notin warnings
      PROVE  \E cam \in EnabledCams : \E class \in Classes(cam), zone \in Places(cam) :
                r \in Matching(cam, class, zone)
    <2>1. /\ Named(r.cameras) \subseteq Active.camera
          /\ {r.class} \ {All} \subseteq Active.class
          /\ Named(r.zones) \subseteq Active.zone
        BY <1>1, WhatRulesName
    <2>2. NamesSome(r.cameras) /\ NamesSome(r.zones)
        <3>1. r \in Range(Rules)
            BY DEF EnabledRules, Enabled, Range
        <3> QED
            BY <1>1, <3>1, Promises DEF SaneRule
    <2>3. \A cam \in EnabledCams : Classes(cam) # {} /\ Places(cam) # {}
        BY <1>1, SomethingSomewhere
    <2>4. SUFFICES \E cam \in EnabledCams : \E class \in Classes(cam), zone \in Places(cam) :
                      /\ r.cameras = All \/ cam.id \in Named(r.cameras)
                      /\ r.class \in {All, class}
                      /\ r.zones = All \/ zone \in Named(r.zones)
        BY DEF Matching
    <2>5. CASE Filters(r) = {}
        <3>1. r.cameras = All /\ r.zones = All /\ r.class = All
            BY <2>5 DEF Filters
        <3>2. PICK cam \in EnabledCams : TRUE
            BY <1>1 DEF IInv, Started
        <3> QED
            BY <2>3, <3>1, <3>2
    <2>6. CASE r.cameras # All
        <3>1. r.zones = All /\ r.class = All
            BY <1>1, <2>6, OneCondition DEF Filters
        <3>2. PICK id \in Named(r.cameras) : TRUE
            BY <2>2, <2>6 DEF NamesSome, Named
        <3>3. PICK cam \in EnabledCams : cam.id = id
            BY <2>1, <3>2 DEF Active
        <3> QED
            BY <2>3, <3>1, <3>2, <3>3
    <2>7. CASE r.zones # All
        <3>1. r.cameras = All /\ r.class = All
            BY <1>1, <2>7, OneCondition DEF Filters
        <3>2. PICK zone \in Named(r.zones) : TRUE
            BY <2>2, <2>7 DEF NamesSome, Named
        <3>3. PICK cam \in EnabledCams : zone \in {cam.areas[j].name : j \in DOMAIN cam.areas}
            BY <2>1, <3>2 DEF Active, ZoneNames
        <3>4. zone \in Places(cam)
            <4>1. cam.areas # <<>>
                BY <3>3
            <4> QED
                BY <3>3, <4>1 DEF Places, ZoneNames
        <3> QED
            BY <2>3, <3>1, <3>2, <3>4
    <2>8. CASE r.class # All
        <3>1. r.cameras = All /\ r.zones = All
            BY <1>1, <2>8, OneCondition DEF Filters
        <3>2. PICK cam \in EnabledCams : r.class \in Classes(cam)
            BY <2>1, <2>8 DEF Active
        <3> QED
            BY <2>3, <3>1, <3>2
    <2> QED
        BY <2>5, <2>6, <2>7, <2>8 DEF Filters
<1>2. IInv => QuietRuleFires
    BY <1>1 DEF QuietRuleFires
<1> QED
    BY <1>2, Invariance, PTL

\* The strict loader and load_profile: no value of a file is dropped or replaced.
THEOREM NothingIsReplaced == DeploymentSpec => []WrittenIsUsed
<1>1. ASSUME IInv, NEW name \in DOMAIN cfg, NEW section \in cfg[name].read
      PROVE  AsWritten(section)
    <2>1. /\ name \in Range(FileNames) /\ cfg[name].errors = {}
          /\ cfg[name] = Parse(name, Get(config, name))
        BY <1>1 DEF IInv, FilesRead
    <2>2. Sound(Parse(name, Get(config, name)))
        BY <2>1, FilesAreSound
    <2> QED
        BY <1>1, <2>1, <2>2 DEF Sound
<1>2. ASSUME IInv, NEW id \in DOMAIN profiles
      PROVE  LET raw == Contents(ModelOf(CamNamed(id)))
             IN  \A key \in (DOMAIN Fields(Configured(raw)) \cup DOMAIN Fields(CommonOf(raw)))
                                \ Algorithm(raw).excluded :
                    profiles[id][key] = IF Has(Configured(raw), key) THEN Get(Configured(raw), key)
                                        ELSE Get(CommonOf(raw), key)
    <2> DEFINE m == ModelOf(CamNamed(id))
               raw == Contents(m)
    <2>1. PICK cam \in Tracked : cam.id = id
        BY <1>2 DEF IInv, Started
    <2>2. status = "running" /\ profiles[id] = Options(raw)
        BY <1>2 DEF IInv, Started
    <2>3. cam \in EnabledCams /\ m.use_tracker = Yes /\ Known(cam.model_id) /\ m = ModelOf(cam)
        BY <1>2, <2>1, <2>2, NamedIsItself DEF Tracked
    <2>4. ~ Misfit(raw)
        <3>1. Obstacles(cam) = {}
            BY <1>2, <2>2, <2>3 DEF IInv, Started
        <3>2. /\ {x \in {"tracker"} : m.use_tracker = Yes /\ m.tracker[2] \notin OnDisk} = {}
              /\ {x \in {"profile"} :
                    cam \in Tracked /\ m.tracker[2] \in OnDisk /\ Misfit(raw)} = {}
            BY <2>3, <3>1, Zenon DEF Obstacles
        <3> HIDE DEF m, raw
        <3> QED
            BY <2>1, <2>3, <3>2
    <2> HIDE DEF m, raw
    <2>5. /\ DOMAIN Fields(CommonOf(raw)) \subseteq DOMAIN Common
          /\ DOMAIN Fields(Configured(raw)) \subseteq DOMAIN Defaults(raw)
        BY <2>4 DEF Misfit, MisfitOptions
    <2>6. DOMAIN Common \subseteq DOMAIN Defaults(raw)
        BY DEF Defaults, ++
    <2> SUFFICES ASSUME NEW key \in (DOMAIN Fields(Configured(raw))
                                          \cup DOMAIN Fields(CommonOf(raw)))
                                         \ Algorithm(raw).excluded
                 PROVE  profiles[id][key] = IF Has(Configured(raw), key)
                                            THEN Get(Configured(raw), key)
                                            ELSE Get(CommonOf(raw), key)
        BY DEF m, raw
    <2> DEFINE own == Fields(Configured(raw))
               common == Fields(CommonOf(raw))
               defaults == Defaults(raw)
               written == own ++ common
    <2>7. Options(raw)[key] = (written ++ defaults)[key]
        BY <2>5, <2>6 DEF Options, Written, Restrict
    <2>8. (written ++ defaults)[key] = IF key \in DOMAIN own THEN own[key] ELSE common[key]
        <3>1. key \in DOMAIN own \cup DOMAIN common
            OBVIOUS
        <3> HIDE DEF own, common, defaults
        <3> QED
            BY <3>1 DEF ++
    <2> QED
        BY <2>2, <2>7, <2>8 DEF Has, Get
<1>3. IInv => WrittenIsUsed
    BY <1>1, <1>2 DEF WrittenIsUsed
<1> QED
    BY <1>3, Invariance, PTL

-----------------------------------------------------------------------------
(* Ray casting, for a polygon of any form.                                 *)

\* The heights of the corners of a triangle over the point, weighed by the turns of
\* the point on the opposite sides, even out.
LEMMA Weights ==
    ASSUME NEW x \in Int, NEW y \in Int, NEW a \in Int \X Int, NEW b \in Int \X Int,
           NEW c \in Int \X Int
    PROVE  Turn(a, b, <<x, y>>) * (c[2] - y) + Turn(b, c, <<x, y>>) * (a[2] - y)
             + Turn(c, a, <<x, y>>) * (b[2] - y) = 0
<1>1. /\ a[1] \in Int /\ a[2] \in Int /\ b[1] \in Int /\ b[2] \in Int
      /\ c[1] \in Int /\ c[2] \in Int
    OBVIOUS
<1>2. \A a1, a2, b1, b2, c1, c2 \in Int :
         ((b1 - a1) * (y - a2) - (b2 - a2) * (x - a1)) * (c2 - y)
         + ((c1 - b1) * (y - b2) - (c2 - b2) * (x - b1)) * (a2 - y)
         + ((a1 - c1) * (y - c2) - (a2 - c2) * (x - c1)) * (b2 - y) = 0
    OBVIOUS
<1> QED
    BY <1>1, <1>2 DEF Turn

LEMMA TurnIsWhole ==
    ASSUME NEW x \in Int, NEW y \in Int, NEW p \in Int \X Int, NEW q \in Int \X Int
    PROVE  /\ Turn(p, q, <<x, y>>) \in Int
           /\ Turn(p, q, <<x, y>>) = 0 - Turn(q, p, <<x, y>>)
<1>1. p[1] \in Int /\ p[2] \in Int /\ q[1] \in Int /\ q[2] \in Int
    OBVIOUS
<1>2. \A p1, p2, q1, q2 \in Int :
         (q1 - p1) * (y - p2) - (q2 - p2) * (x - p1)
           = 0 - ((p1 - q1) * (y - q2) - (p2 - q2) * (x - q1))
    OBVIOUS
<1> QED
    BY <1>1, <1>2 DEF Turn

\* An edge that goes up crosses the ray when the point is on its left, and one that
\* goes down when the point is on its right.
LEMMA CrossesByTurn ==
    ASSUME NEW x \in Int, NEW y \in Int, NEW p \in Int \X Int, NEW q \in Int \X Int
    PROVE  /\ p[2] <= y /\ q[2] > y => (Crosses(x, y, p, q) <=> Turn(p, q, <<x, y>>) > 0)
           /\ p[2] > y /\ q[2] <= y => (Crosses(x, y, p, q) <=> Turn(p, q, <<x, y>>) < 0)
           /\ p[2] > y /\ q[2] > y => ~ Crosses(x, y, p, q)
           /\ p[2] <= y /\ q[2] <= y => ~ Crosses(x, y, p, q)
<1>1. p[1] \in Int /\ p[2] \in Int /\ q[1] \in Int /\ q[2] \in Int
    OBVIOUS
<1>2. (q[1] - p[1]) * (y - p[2]) - (x - p[1]) * (q[2] - p[2]) = Turn(p, q, <<x, y>>)
    <2>1. (x - p[1]) * (q[2] - p[2]) = (q[2] - p[2]) * (x - p[1])
        BY <1>1
    <2> QED
        BY <2>1 DEF Turn
<1> QED
    BY <1>1, <1>2 DEF Crosses

LEMMA CrossesBackwards ==
    ASSUME NEW x \in Int, NEW y \in Int, NEW p \in Int \X Int, NEW q \in Int \X Int
    PROVE  Crosses(x, y, p, q) <=> Crosses(x, y, q, p)
<1> DEFINE there == Turn(p, q, <<x, y>>)
           back == Turn(q, p, <<x, y>>)
<1>1. p[2] \in Int /\ q[2] \in Int
    OBVIOUS
<1>2. there \in Int /\ back \in Int /\ there = 0 - back
    BY TurnIsWhole
<1>3. /\ p[2] <= y /\ q[2] > y => (Crosses(x, y, p, q) <=> there > 0)
      /\ p[2] > y /\ q[2] <= y => (Crosses(x, y, p, q) <=> there < 0)
      /\ p[2] > y /\ q[2] > y => ~ Crosses(x, y, p, q)
      /\ p[2] <= y /\ q[2] <= y => ~ Crosses(x, y, p, q)
    BY CrossesByTurn
<1>4. /\ q[2] <= y /\ p[2] > y => (Crosses(x, y, q, p) <=> back > 0)
      /\ q[2] > y /\ p[2] <= y => (Crosses(x, y, q, p) <=> back < 0)
      /\ q[2] > y /\ p[2] > y => ~ Crosses(x, y, q, p)
      /\ q[2] <= y /\ p[2] <= y => ~ Crosses(x, y, q, p)
    BY CrossesByTurn
<1> HIDE DEF there, back
<1> QED
    BY <1>1, <1>2, <1>3, <1>4

LEMMA Products ==
    ASSUME NEW s \in Int, NEW t \in Int
    PROVE  /\ s > 0 /\ t > 0 => s * t > 0
           /\ s < 0 /\ t > 0 => s * t < 0
           /\ s > 0 /\ t < 0 => s * t < 0
           /\ s < 0 /\ t < 0 => s * t > 0
           /\ s = 0 \/ t = 0 => s * t = 0
OBVIOUS

\* A point is on one side of every line: on one from p to q, or on one from q to p.
LEMMA OneSide ==
    ASSUME NEW x \in Int, NEW y \in Int, NEW p \in Int \X Int, NEW q \in Int \X Int
    PROVE  /\ Beside(p, q, <<x, y>>) => ~ Beside(q, p, <<x, y>>)
           /\ p[2] # q[2] /\ ~ Beside(p, q, <<x, y>>) => Beside(q, p, <<x, y>>)
<1> DEFINE there == Turn(p, q, <<x, y>>)
           back == Turn(q, p, <<x, y>>)
<1>1. p[1] \in Int /\ p[2] \in Int /\ q[1] \in Int /\ q[2] \in Int
    OBVIOUS
<1>2. there \in Int /\ back \in Int /\ there = 0 - back
    BY TurnIsWhole
<1>3. /\ Beside(p, q, <<x, y>>)
            <=> there > 0 \/ (there = 0 /\ (q[2] < p[2] \/ (q[2] = p[2] /\ q[1] > p[1])))
      /\ Beside(q, p, <<x, y>>)
            <=> back > 0 \/ (back = 0 /\ (p[2] < q[2] \/ (p[2] = q[2] /\ p[1] > q[1])))
    BY DEF Beside
<1> HIDE DEF there, back
<1> QED
    BY <1>1, <1>2, <1>3

\* An edge that goes up or down crosses the ray when the point is on the proper side.
LEMMA CrossesBySide ==
    ASSUME NEW x \in Int, NEW y \in Int, NEW p \in Int \X Int, NEW q \in Int \X Int
    PROVE  /\ p[2] <= y /\ q[2] > y => (Crosses(x, y, p, q) <=> Beside(p, q, <<x, y>>))
           /\ p[2] > y /\ q[2] <= y => (Crosses(x, y, p, q) <=> ~ Beside(p, q, <<x, y>>))
           /\ p[2] > y /\ q[2] > y => ~ Crosses(x, y, p, q)
           /\ p[2] <= y /\ q[2] <= y => ~ Crosses(x, y, p, q)
<1> DEFINE turn == Turn(p, q, <<x, y>>)
<1>1. p[1] \in Int /\ p[2] \in Int /\ q[1] \in Int /\ q[2] \in Int
    OBVIOUS
<1>2. turn \in Int
    BY TurnIsWhole
<1>3. /\ p[2] <= y /\ q[2] > y => (Crosses(x, y, p, q) <=> turn > 0)
      /\ p[2] > y /\ q[2] <= y => (Crosses(x, y, p, q) <=> turn < 0)
      /\ p[2] > y /\ q[2] > y => ~ Crosses(x, y, p, q)
      /\ p[2] <= y /\ q[2] <= y => ~ Crosses(x, y, p, q)
    BY CrossesByTurn
<1>4. Beside(p, q, <<x, y>>)
        <=> turn > 0 \/ (turn = 0 /\ (q[2] < p[2] \/ (q[2] = p[2] /\ q[1] > p[1])))
    BY DEF Beside
<1> HIDE DEF turn
<1> QED
    BY <1>1, <1>2, <1>3, <1>4

\* What the turn of a point is on a line one end of which is at its height.
LEMMA LevelEnd ==
    ASSUME NEW x \in Int, NEW y \in Int, NEW p \in Int \X Int, NEW q \in Int \X Int
    PROVE  /\ q[2] = y => Turn(p, q, <<x, y>>) = (p[2] - y) * (x - q[1])
           /\ p[2] = y => Turn(p, q, <<x, y>>) = (q[2] - y) * (p[1] - x)
<1>1. p[1] \in Int /\ p[2] \in Int /\ q[1] \in Int /\ q[2] \in Int
    OBVIOUS
<1>2. \A p1, p2, q1, q2 \in Int :
         /\ q2 = y => (q1 - p1) * (y - p2) - (q2 - p2) * (x - p1) = (p2 - y) * (x - q1)
         /\ p2 = y => (q1 - p1) * (y - p2) - (q2 - p2) * (x - p1) = (q2 - y) * (p1 - x)
    OBVIOUS
<1> QED
    BY <1>1, <1>2 DEF Turn

\* With a corner alone over the point, the side opposite to it follows the other two.
LEMMA LoneAbove ==
    ASSUME NEW x \in Int, NEW y \in Int, NEW a \in Int \X Int, NEW b \in Int \X Int,
           NEW c \in Int \X Int, a[2] > y, b[2] <= y, c[2] <= y,
           Beside(a, b, <<x, y>>), Beside(c, a, <<x, y>>)
    PROVE  Beside(b, c, <<x, y>>)
<1> DEFINE r == Turn(a, b, <<x, y>>)
           s == Turn(b, c, <<x, y>>)
           t == Turn(c, a, <<x, y>>)
           ha == a[2] - y
           hb == b[2] - y
           hc == c[2] - y
           u == r * hc
           v == s * ha
           w == t * hb
<1>1. /\ a[1] \in Int /\ a[2] \in Int /\ b[1] \in Int /\ b[2] \in Int
      /\ c[1] \in Int /\ c[2] \in Int /\ ha \in Int /\ hb \in Int /\ hc \in Int
      /\ ha > 0 /\ hb <= 0 /\ hc <= 0
    OBVIOUS
<1>2. r \in Int /\ s \in Int /\ t \in Int
    BY TurnIsWhole
<1>3. u \in Int /\ v \in Int /\ w \in Int /\ u + v + w = 0
    BY <1>1, <1>2, Weights
<1>4. r >= 0 /\ t > 0
    BY <1>1, <1>2 DEF Beside
<1>5. u <= 0 /\ w <= 0 /\ (hb < 0 => w < 0)
    <2> HIDE DEF r, s, t, ha, hb, hc
    <2> QED
        BY <1>1, <1>2, <1>4, Products
<1>6. v >= 0 /\ (hb < 0 => v > 0)
    <2> HIDE DEF u, v, w
    <2> QED
        BY <1>3, <1>5
<1>7. s >= 0 /\ (s = 0 => v = 0)
    <2> HIDE DEF r, s, t, ha, hb, hc
    <2> QED
        BY <1>1, <1>2, <1>6, Products
<1>8. CASE s > 0
    BY <1>8 DEF Beside
<1>9. CASE s = 0 /\ hc < 0
    <2>1. b[2] = y /\ c[2] < y
        BY <1>1, <1>6, <1>7, <1>9
    <2> QED
        BY <1>1, <1>9, <2>1 DEF Beside
<1>10. CASE s = 0 /\ hc = 0
    <2>1. b[2] = y /\ c[2] = y
        <3>1. hb = 0 /\ hc = 0
            <4> HIDE DEF r, s, t, ha, hb, hc, u, v, w
            <4> QED
                BY <1>1, <1>6, <1>7, <1>10
        <3> QED
            BY <1>1, <3>1
    <2>2. x - b[1] >= 0 /\ c[1] - x > 0
        <3>1. t = ha * (c[1] - x) /\ r = ha * (x - b[1])
            BY <2>1, LevelEnd
        <3>2. x - b[1] \in Int /\ c[1] - x \in Int
            BY <1>1
        <3> HIDE DEF r, t, ha
        <3> QED
            BY <1>1, <1>4, <3>1, <3>2, Products
    <2> QED
        BY <1>1, <1>10, <2>1, <2>2 DEF Beside
<1> QED
    BY <1>1, <1>2, <1>7, <1>8, <1>9, <1>10

\* With one alone below it, too.
LEMMA LoneBelow ==
    ASSUME NEW x \in Int, NEW y \in Int, NEW a \in Int \X Int, NEW b \in Int \X Int,
           NEW c \in Int \X Int, a[2] <= y, b[2] > y, c[2] > y,
           Beside(a, b, <<x, y>>), Beside(c, a, <<x, y>>)
    PROVE  Beside(b, c, <<x, y>>)
<1> DEFINE r == Turn(a, b, <<x, y>>)
           s == Turn(b, c, <<x, y>>)
           t == Turn(c, a, <<x, y>>)
           ha == a[2] - y
           hb == b[2] - y
           hc == c[2] - y
           u == r * hc
           v == s * ha
           w == t * hb
<1>1. /\ a[2] \in Int /\ b[2] \in Int /\ c[2] \in Int
      /\ ha \in Int /\ hb \in Int /\ hc \in Int /\ ha <= 0 /\ hb > 0 /\ hc > 0
    OBVIOUS
<1>2. r \in Int /\ s \in Int /\ t \in Int
    BY TurnIsWhole
<1>3. u \in Int /\ v \in Int /\ w \in Int /\ u + v + w = 0
    BY <1>1, <1>2, Weights
<1>4. r > 0 /\ t >= 0
    BY <1>1, <1>2 DEF Beside
<1>5. u > 0 /\ w >= 0
    <2> HIDE DEF r, s, t, ha, hb, hc
    <2> QED
        BY <1>1, <1>2, <1>4, Products
<1>6. v < 0
    <2> HIDE DEF u, v, w
    <2> QED
        BY <1>3, <1>5
<1>7. s > 0
    <2> HIDE DEF r, s, t, ha, hb, hc
    <2> QED
        BY <1>1, <1>2, <1>6, Products
<1> QED
    BY <1>7 DEF Beside

\* No way round: three turns of nothing are not all to one side.
LEMMA NoCycle ==
    ASSUME NEW point, NEW a \in Int \X Int, NEW b \in Int \X Int, NEW c \in Int \X Int,
           Turn(a, b, point) = 0, Turn(b, c, point) = 0, Turn(c, a, point) = 0
    PROVE  ~ InTriangle(a, b, c, point)
<1>1. /\ a[1] \in Int /\ a[2] \in Int /\ b[1] \in Int /\ b[2] \in Int
      /\ c[1] \in Int /\ c[2] \in Int
    OBVIOUS
<1> QED
    BY <1>1 DEF InTriangle, Beside

\* With no corner over the point and one below it, the point is not in the triangle.
LEMMA NoneAbove ==
    ASSUME NEW x \in Int, NEW y \in Int, NEW a \in Int \X Int, NEW b \in Int \X Int,
           NEW c \in Int \X Int, a[2] <= y, b[2] <= y, c[2] < y
    PROVE  ~ InTriangle(a, b, c, <<x, y>>)
<1> SUFFICES ASSUME InTriangle(a, b, c, <<x, y>>)
             PROVE  FALSE
    OBVIOUS
<1> DEFINE r == Turn(a, b, <<x, y>>)
           s == Turn(b, c, <<x, y>>)
           t == Turn(c, a, <<x, y>>)
           ha == a[2] - y
           hb == b[2] - y
           hc == c[2] - y
           u == r * hc
           v == s * ha
           w == t * hb
<1>1. /\ a[1] \in Int /\ a[2] \in Int /\ b[1] \in Int /\ b[2] \in Int
      /\ c[1] \in Int /\ c[2] \in Int /\ ha \in Int /\ hb \in Int /\ hc \in Int
      /\ ha <= 0 /\ hb <= 0 /\ hc < 0
    OBVIOUS
<1>2. r \in Int /\ s \in Int /\ t \in Int
    BY TurnIsWhole
<1>3. u \in Int /\ v \in Int /\ w \in Int /\ u + v + w = 0
    BY <1>1, <1>2, Weights
<1>4. /\ r > 0 \/ (r = 0 /\ (b[2] < a[2] \/ (b[2] = a[2] /\ b[1] > a[1])))
      /\ s > 0 \/ (s = 0 /\ (c[2] < b[2] \/ (c[2] = b[2] /\ c[1] > b[1])))
      /\ t > 0 \/ (t = 0 /\ (a[2] < c[2] \/ (a[2] = c[2] /\ a[1] > c[1])))
    BY DEF InTriangle, Beside
<1>5. /\ r > 0 => u < 0
      /\ r = 0 => u = 0
      /\ s > 0 /\ ha < 0 => v < 0
      /\ s = 0 \/ ha = 0 => v = 0
      /\ t > 0 /\ hb < 0 => w < 0
      /\ t = 0 \/ hb = 0 => w = 0
    <2> HIDE DEF r, s, t, ha, hb, hc
    <2> QED
        BY <1>1, <1>2, Products
<1>6. r = 0 /\ (s = 0 \/ ha = 0) /\ (t = 0 \/ hb = 0)
    <2> HIDE DEF r, s, t, ha, hb, hc, u, v, w
    <2> QED
        BY <1>1, <1>2, <1>3, <1>4, <1>5
<1>7. CASE ha < 0 /\ hb < 0
    <2>1. r = 0 /\ s = 0 /\ t = 0
        BY <1>1, <1>6, <1>7
    <2> QED
        BY <2>1, NoCycle
<1>8. CASE ha = 0 /\ hb < 0
    <2>1. t = 0 /\ a[2] > c[2]
        BY <1>1, <1>6, <1>8
    <2> HIDE DEF r, s, t
    <2> QED
        BY <1>1, <1>4, <2>1
<1>9. CASE ha < 0 /\ hb = 0
    <2>1. r = 0 /\ b[2] > a[2]
        BY <1>1, <1>6, <1>9
    <2> HIDE DEF r, s, t
    <2> QED
        BY <1>1, <1>4, <2>1
<1>10. CASE ha = 0 /\ hb = 0
    <2>1. a[2] = y /\ b[2] = y /\ c[2] < y
        BY <1>1, <1>10
    <2>2. b[1] > a[1]
        <3>1. r = 0
            BY <1>6
        <3> HIDE DEF r, s, t
        <3> QED
            BY <1>1, <1>4, <2>1, <3>1
    <2>3. s = hc * (b[1] - x) /\ t = hc * (x - a[1])
        BY <2>1, LevelEnd
    <2>4. s >= 0 /\ t > 0
        <3> HIDE DEF r, s, t
        <3> QED
            BY <1>1, <1>2, <1>4, <2>1
    <2>5. b[1] - x <= 0 /\ x - a[1] < 0
        <3>1. b[1] - x \in Int /\ x - a[1] \in Int
            BY <1>1
        <3> HIDE DEF s, t, hc
        <3> QED
            BY <1>1, <2>3, <2>4, <3>1, Products
    <2> QED
        BY <1>1, <2>2, <2>5
<1> QED
    BY <1>1, <1>7, <1>8, <1>9, <1>10

LEMMA NotInTriangleAbove ==
    ASSUME NEW x \in Int, NEW y \in Int, NEW a \in Int \X Int, NEW b \in Int \X Int,
           NEW c \in Int \X Int, a[2] > y, b[2] > y, c[2] > y
    PROVE  ~ InTriangle(a, b, c, <<x, y>>)
<1> SUFFICES ASSUME InTriangle(a, b, c, <<x, y>>)
             PROVE  FALSE
    OBVIOUS
<1> DEFINE r == Turn(a, b, <<x, y>>)
           s == Turn(b, c, <<x, y>>)
           t == Turn(c, a, <<x, y>>)
           ha == a[2] - y
           hb == b[2] - y
           hc == c[2] - y
           u == r * hc
           v == s * ha
           w == t * hb
<1>1. /\ ha \in Int /\ hb \in Int /\ hc \in Int /\ ha > 0 /\ hb > 0 /\ hc > 0
    OBVIOUS
<1>2. r \in Int /\ s \in Int /\ t \in Int
    BY TurnIsWhole
<1>3. u \in Int /\ v \in Int /\ w \in Int /\ u + v + w = 0
    BY <1>1, <1>2, Weights
<1>4. r >= 0 /\ s >= 0 /\ t >= 0
    BY <1>2 DEF InTriangle, Beside
<1>5. /\ r > 0 => u > 0
      /\ r = 0 => u = 0
      /\ s > 0 => v > 0
      /\ s = 0 => v = 0
      /\ t > 0 => w > 0
      /\ t = 0 => w = 0
    <2> HIDE DEF r, s, t, ha, hb, hc
    <2> QED
        BY <1>1, <1>2, Products
<1>6. r = 0 /\ s = 0 /\ t = 0
    <2> HIDE DEF r, s, t, ha, hb, hc, u, v, w
    <2> QED
        BY <1>2, <1>3, <1>4, <1>5
<1> QED
    BY <1>6, NoCycle

\* With all corners on one side of the ray, the point is not in the triangle.
LEMMA NoLoneCorner ==
    ASSUME NEW x \in Int, NEW y \in Int, NEW a \in Int \X Int, NEW b \in Int \X Int,
           NEW c \in Int \X Int,
           \/ a[2] > y /\ b[2] > y /\ c[2] > y
           \/ a[2] <= y /\ b[2] <= y /\ c[2] <= y
    PROVE  ~ InTriangle(a, b, c, <<x, y>>)
<1>1. /\ a[2] \in Int /\ b[2] \in Int /\ c[2] \in Int
    OBVIOUS
<1>2. /\ InTriangle(a, b, c, <<x, y>>) <=> InTriangle(b, c, a, <<x, y>>)
      /\ InTriangle(a, b, c, <<x, y>>) <=> InTriangle(c, a, b, <<x, y>>)
    BY DEF InTriangle
<1>3. CASE a[2] > y /\ b[2] > y /\ c[2] > y
    BY <1>3, NotInTriangleAbove
<1>4. CASE a[2] <= y /\ b[2] <= y /\ c[2] < y
    BY <1>4, NoneAbove
<1>5. CASE b[2] <= y /\ c[2] <= y /\ a[2] < y
    BY <1>2, <1>5, NoneAbove
<1>6. CASE c[2] <= y /\ a[2] <= y /\ b[2] < y
    BY <1>2, <1>6, NoneAbove
<1>7. CASE a[2] = y /\ b[2] = y /\ c[2] = y
    <2>1. /\ Turn(a, b, <<x, y>>) = (a[2] - y) * (x - b[1])
          /\ Turn(b, c, <<x, y>>) = (b[2] - y) * (x - c[1])
          /\ Turn(c, a, <<x, y>>) = (c[2] - y) * (x - a[1])
        BY <1>7, LevelEnd
    <2>2. \A n \in Int : (y - y) * (x - n) = 0
        OBVIOUS
    <2>3. a[1] \in Int /\ b[1] \in Int /\ c[1] \in Int
        OBVIOUS
    <2> QED
        BY <1>7, <2>1, <2>2, <2>3, NoCycle
<1> QED
    BY <1>1, <1>3, <1>4, <1>5, <1>6, <1>7

\* With a lone corner the ray crosses at most the two sides that meet there, and one
\* of them exactly when the point is in the triangle.
LEMMA RayPastCorner ==
    ASSUME NEW x \in Int, NEW y \in Int, NEW a \in Int \X Int, NEW b \in Int \X Int,
           NEW c \in Int \X Int,
           \/ a[2] > y /\ b[2] <= y /\ c[2] <= y
           \/ a[2] <= y /\ b[2] > y /\ c[2] > y
    PROVE  InTriangle(a, b, c, <<x, y>>) \/ InTriangle(a, c, b, <<x, y>>)
             <=> (Crosses(x, y, a, b) <=> (Crosses(x, y, b, c) <=> Crosses(x, y, c, a)))
<1> DEFINE ab == Beside(a, b, <<x, y>>)
           bc == Beside(b, c, <<x, y>>)
           ca == Beside(c, a, <<x, y>>)
           ac == Beside(a, c, <<x, y>>)
           cb == Beside(c, b, <<x, y>>)
           ba == Beside(b, a, <<x, y>>)
<1>1. /\ a[2] \in Int /\ b[2] \in Int /\ c[2] \in Int
    OBVIOUS
<1>2. (ab <=> ~ ba) /\ (ca <=> ~ ac)
    <2>1. a[2] # b[2] /\ c[2] # a[2]
        BY <1>1
    <2> QED
        BY <2>1, OneSide
<1>3. (ab /\ ca => bc) /\ (ac /\ ba => cb)
    BY LoneAbove, LoneBelow
<1>4. ~ Crosses(x, y, b, c)
    BY <1>1, CrossesBySide
<1>5. \/ (Crosses(x, y, a, b) <=> ab) /\ (Crosses(x, y, c, a) <=> ~ ca)
      \/ (Crosses(x, y, a, b) <=> ~ ab) /\ (Crosses(x, y, c, a) <=> ca)
    BY CrossesBySide
<1>6. /\ InTriangle(a, b, c, <<x, y>>) <=> ab /\ bc /\ ca
      /\ InTriangle(a, c, b, <<x, y>>) <=> ac /\ cb /\ ba
    BY DEF InTriangle
<1> HIDE DEF ab, bc, ca, ac, cb, ba
<1> QED
    BY <1>2, <1>3, <1>4, <1>5, <1>6, Zenon

\* Of the sides of a triangle the ray crosses one when it starts inside, and none or
\* two otherwise: wherever the point is, and if the corners are in line, too.
LEMMA RayInTriangle ==
    ASSUME NEW x \in Int, NEW y \in Int, NEW a \in Int \X Int, NEW b \in Int \X Int,
           NEW c \in Int \X Int
    PROVE  InTriangle(a, b, c, <<x, y>>) \/ InTriangle(a, c, b, <<x, y>>)
             <=> (Crosses(x, y, a, b) <=> (Crosses(x, y, b, c) <=> Crosses(x, y, c, a)))
<1>1. /\ a[2] \in Int /\ b[2] \in Int /\ c[2] \in Int
    OBVIOUS
<1>2. /\ InTriangle(a, b, c, <<x, y>>) <=> InTriangle(b, c, a, <<x, y>>)
      /\ InTriangle(a, b, c, <<x, y>>) <=> InTriangle(c, a, b, <<x, y>>)
      /\ InTriangle(a, c, b, <<x, y>>) <=> InTriangle(b, a, c, <<x, y>>)
      /\ InTriangle(a, c, b, <<x, y>>) <=> InTriangle(c, b, a, <<x, y>>)
    BY DEF InTriangle
<1>3. CASE \/ a[2] > y /\ b[2] <= y /\ c[2] <= y
           \/ a[2] <= y /\ b[2] > y /\ c[2] > y
    BY <1>3, RayPastCorner
<1>4. CASE \/ b[2] > y /\ c[2] <= y /\ a[2] <= y
           \/ b[2] <= y /\ c[2] > y /\ a[2] > y
    <2>1. InTriangle(b, c, a, <<x, y>>) \/ InTriangle(b, a, c, <<x, y>>)
            <=> (Crosses(x, y, b, c) <=> (Crosses(x, y, c, a) <=> Crosses(x, y, a, b)))
        BY <1>4, RayPastCorner
    <2> QED
        BY <1>2, <2>1, Zenon
<1>5. CASE \/ c[2] > y /\ a[2] <= y /\ b[2] <= y
           \/ c[2] <= y /\ a[2] > y /\ b[2] > y
    <2>1. InTriangle(c, a, b, <<x, y>>) \/ InTriangle(c, b, a, <<x, y>>)
            <=> (Crosses(x, y, c, a) <=> (Crosses(x, y, a, b) <=> Crosses(x, y, b, c)))
        BY <1>5, RayPastCorner
    <2> QED
        BY <1>2, <2>1, Zenon
<1>6. CASE \/ a[2] > y /\ b[2] > y /\ c[2] > y
           \/ a[2] <= y /\ b[2] <= y /\ c[2] <= y
    <2>1. ~ InTriangle(a, b, c, <<x, y>>) /\ ~ InTriangle(a, c, b, <<x, y>>)
        BY <1>6, NoLoneCorner
    <2>2. ~ Crosses(x, y, a, b) /\ ~ Crosses(x, y, b, c) /\ ~ Crosses(x, y, c, a)
        BY <1>6, CrossesBySide
    <2> QED
        BY <2>1, <2>2
<1> QED
    BY <1>1, <1>3, <1>4, <1>5, <1>6

Odd(S) == Cardinality(S) % 2 = 1

LEMMA OneMore ==
    ASSUME NEW S, IsFiniteSet(S), NEW e, e \notin S
    PROVE  Odd(S \cup {e}) <=> ~ Odd(S)
<1>1. Cardinality(S) \in Nat /\ Cardinality(S \cup {e}) = Cardinality(S) + 1
    BY FS_CardinalityType, FS_AddElement
<1> QED
    BY <1>1 DEF Odd

\* One more number, which is one of those that are counted or not.
LEMMA NextNumber ==
    ASSUME NEW B, NEW l \in Nat, NEW k \in Nat, l <= k + 1
    PROVE  Odd(B \cap l..(k + 1)) <=> (Odd(B \cap l..k) <=> k + 1 \notin B)
<1> DEFINE S == B \cap l..k
<1>1. IsFiniteSet(S) /\ k + 1 \notin S
    <2>1. IsFiniteSet(l..k)
        BY FS_Interval
    <2>2. IsFiniteSet(S)
        BY <2>1, FS_Subset
    <2> QED
        BY <2>2
<1>2. CASE k + 1 \in B
    <2>1. B \cap l..(k + 1) = S \cup {k + 1}
        BY <1>2
    <2> QED
        BY <1>1, <1>2, <2>1, OneMore
<1>3. CASE k + 1 \notin B
    <2>1. B \cap l..(k + 1) = S
        BY <1>3
    <2> QED
        BY <1>3, <2>1
<1> QED
    BY <1>2, <1>3

LEMMA NothingIsEven == ~ Odd({})
BY FS_EmptySet DEF Odd

\* Walking along the polygon: the edges behind that the ray crosses, with the one that
\* would close the polygon here, are as many as the triangles behind that hold the point,
\* but for an even number.
LEMMA Walk ==
    ASSUME NEW x \in Int, NEW y \in Int, NEW polygon \in Seq(Int \X Int)
    PROVE  LET edges == {i \in 2..Len(polygon) : Crosses(x, y, polygon[i], polygon[i - 1])}
               fan == {i \in 2..(Len(polygon) - 1) : InFan(<<x, y>>, polygon, i)}
           IN  \A k \in 1..Len(polygon) :
                  (Odd(edges \cap 2..k) <=> ~ Crosses(x, y, polygon[1], polygon[k]))
                     <=> Odd(fan \cap 2..(k - 1))
<1> DEFINE edges == {i \in 2..Len(polygon) : Crosses(x, y, polygon[i], polygon[i - 1])}
           fan == {i \in 2..(Len(polygon) - 1) : InFan(<<x, y>>, polygon, i)}
           closing(k) == Crosses(x, y, polygon[1], polygon[k])
           even(k) == (Odd(edges \cap 2..k) <=> ~ closing(k)) <=> Odd(fan \cap 2..(k - 1))
           off == {k \in 1..Len(polygon) : ~ even(k)}
<1>1. \A k \in 1..Len(polygon) : polygon[k] \in Int \X Int
    OBVIOUS
<1>2. ASSUME 1 \in DOMAIN polygon
      PROVE  even(1)
    <2>1. edges \cap 2..1 = {} /\ fan \cap 2..(1 - 1) = {}
        OBVIOUS
    <2>2. ~ closing(1)
        BY <1>1, <1>2 DEF Crosses
    <2> QED
        BY <2>1, <2>2, NothingIsEven
<1>3. ASSUME 2 \in DOMAIN polygon
      PROVE  even(2)
    <2>1. edges \cap 2..1 = {} /\ fan \cap 2..(2 - 1) = {}
        OBVIOUS
    <2>2. Odd(edges \cap 2..2) <=> 2 \in edges
        <3>1. Odd(edges \cap 2..(1 + 1)) <=> (Odd(edges \cap 2..1) <=> 1 + 1 \notin edges)
            <4>1. 2 \in Nat /\ 1 \in Nat /\ 2 <= 1 + 1
                OBVIOUS
            <4> HIDE DEF edges
            <4> QED
                BY <4>1, NextNumber, Zenon
        <3> QED
            BY <2>1, <3>1, NothingIsEven
    <2>3. 2 \in edges <=> closing(2)
        <3>1. Crosses(x, y, polygon[2], polygon[1]) <=> Crosses(x, y, polygon[1], polygon[2])
            BY <1>1, <1>3, CrossesBackwards
        <3> QED
            BY <1>3, <3>1
    <2> QED
        BY <2>1, <2>2, <2>3, NothingIsEven
<1>4. ASSUME NEW k \in 2..(Len(polygon) - 1), even(k)
      PROVE  even(k + 1)
    <2> DEFINE behind == Crosses(x, y, polygon[k], polygon[k + 1])
    <2>1. /\ polygon[1] \in Int \X Int /\ polygon[k] \in Int \X Int
          /\ polygon[k + 1] \in Int \X Int
        BY <1>1
    <2>2. InFan(<<x, y>>, polygon, k) <=> (closing(k) <=> (behind <=> closing(k + 1)))
        <3>1. InFan(<<x, y>>, polygon, k)
                <=> (\/ InTriangle(polygon[1], polygon[k], polygon[k + 1], <<x, y>>)
                     \/ InTriangle(polygon[1], polygon[k + 1], polygon[k], <<x, y>>))
            BY DEF InFan
        <3>2. Crosses(x, y, polygon[k + 1], polygon[1]) <=> closing(k + 1)
            BY <2>1, CrossesBackwards
        <3>3. (\/ InTriangle(polygon[1], polygon[k], polygon[k + 1], <<x, y>>)
               \/ InTriangle(polygon[1], polygon[k + 1], polygon[k], <<x, y>>))
                <=> (Crosses(x, y, polygon[1], polygon[k])
                       <=> (Crosses(x, y, polygon[k], polygon[k + 1])
                              <=> Crosses(x, y, polygon[k + 1], polygon[1])))
            <4> DEFINE a == polygon[1]
                       b == polygon[k]
                       c == polygon[k + 1]
            <4>1. a \in Int \X Int /\ b \in Int \X Int /\ c \in Int \X Int
                BY <2>1
            <4> HIDE DEF a, b, c
            <4>2. InTriangle(a, b, c, <<x, y>>) \/ InTriangle(a, c, b, <<x, y>>)
                    <=> (Crosses(x, y, a, b) <=> (Crosses(x, y, b, c) <=> Crosses(x, y, c, a)))
                BY <4>1, RayInTriangle
            <4> QED
                BY <4>2 DEF a, b, c
        <3> QED
            BY <3>1, <3>2, <3>3, Zenon
    <2>3. k + 1 \in edges <=> behind
        <3>1. Crosses(x, y, polygon[k + 1], polygon[k]) <=> behind
            BY <2>1, CrossesBackwards
        <3> QED
            BY <3>1
    <2>4. k \in fan <=> InFan(<<x, y>>, polygon, k)
        OBVIOUS
    <2> HIDE DEF edges, fan, closing, behind
    <2>5. Odd(edges \cap 2..(k + 1)) <=> (Odd(edges \cap 2..k) <=> k + 1 \notin edges)
        <3>1. 2 \in Nat /\ k \in Nat /\ 2 <= k + 1
            OBVIOUS
        <3> QED
            BY <3>1, NextNumber, Zenon
    <2>6. Odd(fan \cap 2..k) <=> (Odd(fan \cap 2..(k - 1)) <=> k \notin fan)
        <3>1. 2 \in Nat /\ k - 1 \in Nat /\ 2 <= (k - 1) + 1 /\ (k - 1) + 1 = k
            OBVIOUS
        <3>2. Odd(fan \cap 2..((k - 1) + 1))
                <=> (Odd(fan \cap 2..(k - 1)) <=> (k - 1) + 1 \notin fan)
            BY <3>1, NextNumber, Zenon
        <3> QED
            BY <3>1, <3>2, Zenon
    <2>7. (k + 1) - 1 = k
        OBVIOUS
    <2> QED
        BY <1>4, <2>2, <2>3, <2>4, <2>5, <2>6, <2>7
<1>5. ASSUME off # {}
      PROVE  FALSE
    <2>1. off \in SUBSET Nat
        OBVIOUS
    <2>2. PICK k \in off : \A j \in off : k <= j
        BY <1>5, <2>1, Least
    <2>3. k \in 1..Len(polygon) /\ ~ even(k)
        OBVIOUS
    <2>4. k # 1 /\ k # 2
        <3> HIDE DEF edges, fan
        <3>1. ASSUME k = 1
              PROVE  FALSE
            <4>1. 1 \in DOMAIN polygon
                BY <2>3, <3>1
            <4> QED
                BY <1>2, <2>3, <3>1, <4>1, Zenon
        <3>2. ASSUME k = 2
              PROVE  FALSE
            <4>1. 2 \in DOMAIN polygon
                BY <2>3, <3>2
            <4> QED
                BY <1>3, <2>3, <3>2, <4>1, Zenon
        <3> QED
            BY <3>1, <3>2
    <2>5. k - 1 \in 2..(Len(polygon) - 1) /\ (k - 1) + 1 = k /\ k - 1 \notin off
        <3> HIDE DEF off
        <3> QED
            BY <2>2, <2>3, <2>4
    <2>6. even(k - 1)
        BY <2>5
    <2> HIDE DEF even
    <2> QED
        BY <1>4, <2>3, <2>5, <2>6
<1> QED
    BY <1>5

\* point_in_polygon (core/zone/zone.py), for every point, also one on a border, and every
\* polygon, also one that is not convex, is drawn in the other direction, crosses itself or
\* has level or repeated corners: ray casting finds a point inside exactly when it is in an
\* odd number of the triangles that fan out from the first corner.  A point in line with a
\* side counts as right of it, or as below one that is level.
THEOREM RayCastingIsRight ==
    ASSUME NEW x \in Int, NEW y \in Int, NEW polygon \in Seq(Int \X Int)
    PROVE  PointInPolygon(x, y, polygon)
             <=> Odd({i \in 2..(Len(polygon) - 1) : InFan(<<x, y>>, polygon, i)})
<1> DEFINE n == Len(polygon)
           edges == {i \in 2..n : Crosses(x, y, polygon[i], polygon[i - 1])}
           fan == {i \in 2..(n - 1) : InFan(<<x, y>>, polygon, i)}
           crossings == {i \in DOMAIN polygon : Crosses(x, y, polygon[i], Before(polygon, i))}
           last == Crosses(x, y, polygon[1], polygon[n])
<1>1. n \in Nat /\ DOMAIN polygon = 1..n
    OBVIOUS
<1>2. PointInPolygon(x, y, polygon) <=> Odd(crossings)
    BY DEF PointInPolygon, Odd
<1>3. CASE n = 0
    <2>1. crossings = {} /\ fan = {}
        BY <1>1, <1>3
    <2> QED
        BY <1>2, <2>1, NothingIsEven
<1>4. CASE n > 0
    <2>1. Odd(crossings) <=> (Odd(edges) <=> ~ last)
        <3>1. /\ 1 \in crossings <=> last
              /\ \A i \in 2..n : i \in crossings <=> i \in edges
            BY <1>1, <1>4 DEF Before
        <3>2. IsFiniteSet(edges) /\ 1 \notin edges
            <4>1. IsFiniteSet(2..n)
                BY <1>1, FS_Interval
            <4>2. IsFiniteSet(edges)
                BY <4>1, FS_Subset
            <4> QED
                BY <4>2
        <3>3. \A i \in crossings \cup edges : i = 1 \/ i \in 2..n
            BY <1>1, <1>4
        <3> HIDE DEF crossings, edges, last
        <3>4. CASE last
            <4>1. crossings = edges \cup {1}
                BY <3>1, <3>3, <3>4, Zenon
            <4> QED
                BY <3>2, <3>4, <4>1, OneMore
        <3>5. CASE ~ last
            <4>1. 1 \notin crossings /\ 1 \notin edges
                BY <3>1, <3>2, <3>5, Zenon
            <4>2. \A i \in crossings \cup edges : i \in 2..n
                BY <3>3, <4>1, Zenon
            <4>3. \A i : i \in crossings <=> i \in edges
                BY <3>1, <4>2, Zenon
            <4>4. crossings = edges
                BY <4>3, Zenon
            <4> QED
                BY <3>5, <4>4
        <3> QED
            BY <3>4, <3>5
    <2>2. (Odd(edges \cap 2..n) <=> ~ last) <=> Odd(fan \cap 2..(n - 1))
        <3>1. n \in 1..n
            BY <1>1, <1>4
        <3>2. \A k \in 1..n :
                 (Odd(edges \cap 2..k) <=> ~ Crosses(x, y, polygon[1], polygon[k]))
                    <=> Odd(fan \cap 2..(k - 1))
            BY Walk, Zenon
        <3> HIDE DEF edges, fan, n
        <3> QED
            BY <3>1, <3>2
    <2>3. edges \cap 2..n = edges /\ fan \cap 2..(n - 1) = fan
        OBVIOUS
    <2> HIDE DEF crossings, edges, fan, last
    <2>4. Odd(crossings) <=> Odd(fan)
        BY <2>1, <2>2, <2>3
    <2> QED
        BY <1>2, <2>4 DEF fan, n
<1> QED
    BY <1>1, <1>3, <1>4

\* Whatever the zones of the cameras are.
LEMMA RayCastingOfZones ==
    ASSUME zones \in Seq(Seq(Int \X Int)), \A event \in events : event.x \in Int /\ event.y \in Int
    PROVE  InsideMeansInside
<1> SUFFICES ASSUME NEW event \in events, NEW k \in DOMAIN zones
             PROVE  PointInPolygon(event.x, event.y, zones[k])
                      <=> Odd({i \in 2..(Len(zones[k]) - 1) :
                                  InFan(<<event.x, event.y>>, zones[k], i)})
    BY DEF InsideMeansInside, Odd
<1>1. event.x \in Int /\ event.y \in Int /\ zones[k] \in Seq(Int \X Int)
    OBVIOUS
<1> QED
    BY <1>1, RayCastingIsRight

-----------------------------------------------------------------------------
(* The zones of the file, and the detections in them.                      *)

\* The polygons of a camera are those of its file, and a detection that was seen is at
\* the anchor of its box and in the zone that the ray casting found.
Placed ==
    /\ zones \in Seq(Seq(Int \X Int))
    /\ \A event \in events :
          /\ event.x \in Int /\ event.y \in Int
          /\ MiddleInView(inf.box) => InView(event.x, event.y)
          /\ event.zone = AssignZone(event.x, event.y, zones)

LEMMA PolygonsAreWhole ==
    ASSUME IInv, status = "running", NEW cam \in EnabledCams
    PROVE  Polygons(cam) \in Seq(Seq(Int \X Int))
<1>1. SaneCamera(cam)
    BY EnabledAreListed, Promises
<1>2. PICK n \in Nat : DOMAIN cam.areas = 1..n
    BY <1>1 DEF SaneCamera
<1>3. ASSUME NEW j \in DOMAIN cam.areas
      PROVE  Polygons(cam)[j] \in Seq(Int \X Int)
    <2> DEFINE points == Items(cam.areas[j].polygon)
    <2>1. /\ points \in Seq(Set(cam.areas[j].polygon))
          /\ \A k \in DOMAIN points : points[k][2][1][2] \in Int /\ points[k][2][2][2] \in Int
        BY <1>1 DEF SaneCamera, IsArea, IsSequence
    <2>2. Polygons(cam)[j] = [k \in DOMAIN points |-> <<Pixel * points[k][2][1][2],
                                                       Pixel * points[k][2][2][2]>>]
        BY DEF Polygons
    <2> HIDE DEF points
    <2>3. DOMAIN points = 1..Len(points) /\ Len(points) \in Nat
        BY <2>1
    <2>4. \A k \in DOMAIN points : <<Pixel * points[k][2][1][2], Pixel * points[k][2][2][2]>>
                                       \in Int \X Int
        BY <2>1 DEF Pixel
    <2> QED
        BY <2>2, <2>3, <2>4
<1>4. DOMAIN Polygons(cam) = 1..n /\ Polygons(cam) = [j \in 1..n |-> Polygons(cam)[j]]
    BY <1>2 DEF Polygons
<1> QED
    BY <1>2, <1>3, <1>4

LEMMA SeenIsPlaced ==
    ASSUME IInv, status = "running", NEW cam \in EnabledCams, Detect(cam)
    PROVE  Placed'
<1>1. zones' = Polygons(cam)
    BY Zenon DEF Detect
<1>2. PICK class \in Emitted(cam), box \in Shown(config) :
         /\ inf' = [box |-> box, class |-> class[2]]
         /\ events' = {[x |-> AnchorX(box), y |-> AnchorY(box, class[2]),
                        zone |-> AssignZone(AnchorX(box), AnchorY(box, class[2]), zones')]}
    BY Zenon DEF Detect
<1>3. box \in Boxes /\ inf'.box = box
    BY <1>2, DeploymentAssumption DEF IInv, FilesRead
<1>4. /\ AnchorX(box) \in Int /\ AnchorY(box, class[2]) \in Int
      /\ MiddleInView(box) => InView(AnchorX(box), AnchorY(box, class[2]))
    <2>1. box.x1 \in Int /\ box.x2 \in Int /\ box.y1 \in Int /\ box.y2 \in Int
        BY <1>3 DEF Boxes
    <2>2. AnchorX(box) \in Int /\ AnchorY(box, class[2]) \in Int
        BY <2>1 DEF AnchorX, AnchorY
    <2> QED
        BY <1>3, <2>2, AnchorInView
<1>5. zones' \in Seq(Seq(Int \X Int))
    BY <1>1, PolygonsAreWhole
<1>6. ASSUME NEW event \in events'
      PROVE  /\ event.x \in Int /\ event.y \in Int
             /\ MiddleInView(box) => InView(event.x, event.y)
             /\ event.zone = AssignZone(event.x, event.y, zones')
    BY <1>2, <1>4
<1> QED
    BY <1>3, <1>5, <1>6 DEF Placed, AssignZone, Containing, MiddleInView, InView

THEOREM Placement == DeploymentSpec => []Placed
<1>1. DeploymentInit => Placed
    <2>1. <<>> \in Seq(Seq(Int \X Int))
        OBVIOUS
    <2> QED
        BY <2>1 DEF DeploymentInit, Placed
<1>2. IInv /\ Placed /\ [DeploymentNext]_allVars => Placed'
    <2> SUFFICES ASSUME IInv, Placed, [DeploymentNext]_allVars
                 PROVE  Placed'
        OBVIOUS
    <2>1. CASE UNCHANGED <<zones, inf, events>>
        BY <2>1 DEF Placed, AssignZone, Containing, MiddleInView, InView
    <2>2. ASSUME NEW cam \in EnabledCams, Detect(cam)
          PROVE  Placed'
        BY <2>2, SeenIsPlaced DEF Detect
    <2> QED
        BY <2>1, <2>2 DEF DeploymentNext, LoadFile, Validate, Start, Watch, allVars, vars
<1> QED
    BY <1>1, <1>2, Invariance, PTL DEF DeploymentSpec

\* enrich and assign_zone (core/pipeline/enricher.py, core/zone/zone.py): whatever
\* polygons an accepted config gives a camera, a detection is in a zone exactly when its
\* anchor is inside; and if they tile the frame, no detection with its middle in view is
\* without a zone or in two, not even one whose feet are out of view.
THEOREM ZonesAreRight ==
    ASSUME LayoutsTile
    PROVE  DeploymentSpec => []ZoneIsRight
<1>1. Placed => ZoneIsRight
    <2> SUFFICES ASSUME Placed
                 PROVE  ZoneIsRight
        OBVIOUS
    <2>1. InsideMeansInside
        BY RayCastingOfZones DEF Placed
    <2>2. ASSUME zones \in Layouts, NEW event \in events, MiddleInView(inf.box)
          PROVE  /\ Containing(event.x, event.y, zones) = {event.zone}
                 /\ event.zone \in DOMAIN zones
        <3>1. /\ event.x \in 0..(FrameW - Pixel - 1) /\ event.y \in 0..(FrameH - Pixel - 1)
              /\ event.zone = AssignZone(event.x, event.y, zones)
            BY <2>2 DEF Placed, InView
        <3>2. PICK i \in DOMAIN zones : Containing(event.x, event.y, zones) = {i}
            BY <2>2, <3>1 DEF LayoutsTile
        <3>3. DOMAIN zones \subseteq Nat
            BY DEF Placed
        <3>4. AssignZone(event.x, event.y, zones)
                = CHOOSE k \in {i} : \A j \in {i} : k <= j
            BY <3>2, Zenon DEF AssignZone
        <3>5. event.zone = i
            BY <3>1, <3>3, <3>4
        <3> QED
            BY <3>2, <3>5
    <2> QED
        BY <2>1, <2>2 DEF ZoneIsRight, ExactlyOneZone
<1> QED
    BY <1>1, Placement, PTL
=============================================================================
