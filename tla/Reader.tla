-------------------------------- MODULE Reader --------------------------------
(***************************************************************************)
(* The field readers of the strict loader (core/config/strict.py).          *)
(*                                                                         *)
(* A value of a YAML file is a pair of its kind and its content.  A string  *)
(* stands for itself without the spaces around it.  Text is abstracted to    *)
(* the patterns it matches.                                                *)
(***************************************************************************)
EXTENDS Integers, Sequences, FiniteSets, SequencesExt

CONSTANTS
    Matches,    \* pattern of strict.py |-> the strings that match it as a whole
    Rank,       \* times and dates |-> their place in the order of strings
    OnDisk      \* paths of files that exist

Missing == <<"missing">>    \* the key is absent
Null == <<"null">>
Nan == <<"nan">>
Bool(b) == <<"bool", b>>
Whole(n) == <<"int", n>>
Percent(p) == <<"float", p>>  \* a float, in hundredths
Str(s) == <<"str", s>>
List(items) == <<"list", items>>
Mapping(fields) == <<"map", fields>>

Blank == Str("")
All == Str("*")

Is(v, kind) == v[1] = kind
IsInt(v, minimum) == Is(v, "int") /\ v[2] >= minimum
IsText(v) == Is(v, "str") /\ v # Blank

\* What a read returns: the value, or a placeholder of the right type with an error.
Good(v) == [value |-> v, refused |-> FALSE]
Bad(placeholder) == [value |-> placeholder, refused |-> TRUE]

\* Every entry of f, and those of g whose keys f does not have.
f ++ g == [x \in DOMAIN f \cup DOMAIN g |-> IF x \in DOMAIN f THEN f[x] ELSE g[x]]

-----------------------------------------------------------------------------
(* Scalars.                                                                *)

String(v) == IF IsText(v) THEN Good(v) ELSE Bad(Blank)

\* identifier, url, uuid_string, and string with a least length.
Pattern(v, pattern) == IF IsText(v) /\ v[2] \in Matches[pattern] THEN Good(v) ELSE Bad(Blank)

Integer(v, minimum) == IF IsInt(v, minimum) THEN Good(v) ELSE Bad(Whole(minimum))

IsNumber(v) == v[1] \in {"int", "float", "nan"}
Hundredths(v) == IF Is(v, "int") THEN 100 * v[2] ELSE v[2]

\* number with minimum 0.0 and maximum 1.0: nothing is less or more than NaN.
Below(v) == Is(v, "nan") = FALSE /\ Hundredths(v) < 0
Above(v) == Is(v, "nan") = FALSE /\ Hundredths(v) > 100
Share(v) ==
    IF IsNumber(v) /\ ~ Below(v) /\ ~ Above(v) THEN Good(v)
    ELSE Bad(Percent(IF IsNumber(v) /\ Above(v) THEN 100 ELSE 0))

Boolean(v) == IF Is(v, "bool") THEN Good(v) ELSE Bad(Bool(FALSE))

Enum(v, allowed) == IF IsText(v) /\ v[2] \in Range(allowed) THEN Good(v) ELSE Bad(Str(allowed[1]))

\* number_or_null, integer_or_null, string_or_null, from what they do with no null.
OrNull(v, read) == IF v = Null THEN Good(Null) ELSE IF read.refused THEN Bad(Null) ELSE read

OptionalString(v) == IF v \in {Missing, Null} THEN Good(Null) ELSE OrNull(v, String(v))

CameraSource(v) ==
    IF \/ IsInt(v, 0)
       \/ IsText(v) /\ v[2] \in (Matches["stream"] \cup OnDisk) \ Matches["digits"]
    THEN Good(v) ELSE Bad(Whole(0))

-----------------------------------------------------------------------------
(* Lists.                                                                  *)

IntPair(v, minimum) ==
    IF Is(v, "list") /\ Len(v[2]) = 2 /\ \A i \in 1..2 : IsInt(v[2][i], minimum)
    THEN Good(v) ELSE Bad(List(<<Whole(minimum), Whole(minimum)>>))

FirstOfItsKind(items, i) == \A j \in 1..(i - 1) : items[j] # items[i]

\* A list is read as it is when every item is fit to be kept and there is one: the
\* items it loses otherwise are reported.
Kept(v, keep) ==
    IF keep # {} /\ keep = DOMAIN v[2] THEN Good(v)
    ELSE Bad(List(FlattenSeq([i \in DOMAIN v[2] |-> IF i \in keep THEN <<v[2][i]>> ELSE <<>>])))

StringList(v) ==
    IF Is(v, "list")
    THEN Kept(v, {i \in DOMAIN v[2] : IsText(v[2][i]) /\ FirstOfItsKind(v[2], i)})
    ELSE Bad(List(<<>>))

ListOrAll(v) == IF v = All \/ (Is(v, "list") /\ DOMAIN v[2] # {}) THEN Good(v) ELSE Bad(List(<<>>))

StringListOrAll(v) ==
    IF Is(v, "list") THEN Kept(v, {i \in DOMAIN v[2] : IsText(v[2][i])}) ELSE ListOrAll(v)

IsPoint(p) == Is(p, "list") /\ Len(p[2]) = 2 /\ \A i \in 1..2 : IsInt(p[2][i], 0)

Polygon(v) ==
    IF Is(v, "list") /\ Len(v[2]) >= 3
    THEN Kept(v, {i \in DOMAIN v[2] : IsPoint(v[2][i])})
    ELSE Bad(List(<<>>))

-----------------------------------------------------------------------------
(* Sections.  A schema gives each key its reader and the reader's argument. *)

Read(reader, v) ==
    LET arg == reader[2]
    IN  CASE reader[1] = "string"             -> String(v)
          [] reader[1] = "pattern"            -> Pattern(v, arg)
          [] reader[1] = "integer"            -> Integer(v, arg)
          [] reader[1] = "share"              -> Share(v)
          [] reader[1] = "boolean"            -> Boolean(v)
          [] reader[1] = "enum"               -> Enum(v, arg)
          [] reader[1] = "share_or_null"      -> OrNull(v, Share(v))
          [] reader[1] = "integer_or_null"    -> OrNull(v, Integer(v, arg))
          [] reader[1] = "pattern_or_null"    -> OrNull(v, Pattern(v, arg))
          [] reader[1] = "optional_string"    -> OptionalString(v)
          [] reader[1] = "camera_source"      -> CameraSource(v)
          [] reader[1] = "int_pair"           -> IntPair(v, arg)
          [] reader[1] = "string_list"        -> StringList(v)
          [] reader[1] = "list_or_all"        -> ListOrAll(v)
          [] reader[1] = "string_list_or_all" -> StringListOrAll(v)
          [] reader[1] = "polygon"            -> Polygon(v)
          [] reader[1] = "section"            -> IF Is(v, "map") THEN Good(v)
                                                 ELSE Bad(Mapping(<<>>))

Fields(raw) == IF Is(raw, "map") THEN raw[2] ELSE <<>>
Has(raw, key) == key \in DOMAIN Fields(raw)
Get(raw, key) == IF Has(raw, key) THEN Fields(raw)[key] ELSE Missing

\* Every key of a section, read whether or not another one was refused.
Values(raw, schema) == [key \in DOMAIN schema |-> Read(schema[key], Get(raw, key)).value]

Refused(raw, schema) ==
    {key \in DOMAIN schema : Read(schema[key], Get(raw, key)).refused}
        \cup (IF Is(raw, "map") THEN {} ELSE {"(root)"})

\* reject_unknown.
Unknown(raw, known) == DOMAIN Fields(raw) \ known
=============================================================================
