----------------------------- MODULE RuleCatalog -----------------------------
(* catalog.py: the parameters each checker declares and the validation of  *)
(* a rule set against them; llm/guideline.py: the draft of a rule set made *)
(* from the requirements a model found in a guide.                         *)
EXTENDS Integers, Sequences, FiniteSets, Functions, SequencesExt

\* A value of a rule set's YAML.
Number(n) == [is |-> "integer", n |-> n]
Text(s) == [is |-> "string", s |-> s]
Flag(b) == [is |-> "boolean", b |-> b]
List(items) == [is |-> "array", items |-> items]
Object(at) == [is |-> "object", at |-> at]

Empty == [k \in {} |-> 0]
Broken == "(("                    \* a regular expression that does not compile

\* What a schema asks for beyond the type of a value.
Of(type) == [type |-> type, minimum |-> 0, enum |-> {}, regex |-> FALSE,
             properties |-> Empty, required |-> {}, items |-> {}]
AtLeast(n) == [Of("integer") EXCEPT !.minimum = n]
Regex == [Of("string") EXCEPT !.regex = TRUE]
OneOf(enum) == [Of("string") EXCEPT !.enum = enum]
ListOf(schema) == [Of("array") EXCEPT !.items = {schema}]

FieldFormats == {"email", "cn_mobile", "phone", "date", "cn_id", "number", "project_code"}

FieldItem == [Of("object") EXCEPT !.properties =
    [name |-> Of("string"), aliases |-> ListOf(Of("string")), required |-> Of("boolean"),
     normalize |-> OneOf({"text", "casefold", "phone", "date", "number", "list"}),
     format |-> OneOf(FieldFormats), pattern |-> Regex]]

\* CHECKER_CATALOG
Entry(required, properties) ==
    [Of("object") EXCEPT !.properties = properties, !.required = required]

Catalog ==
    [required_sections |-> Entry({"sections"}, [sections |-> ListOf(Of("object"))]),
     section_order |-> Entry({"expected_order"}, [expected_order |-> ListOf(Of("string"))]),
     page_limit |-> Entry({"max_pages"}, [max_pages |-> AtLeast(1), section_limits |-> Of("object")]),
     word_limit |-> Entry({}, [max_words |-> AtLeast(1), section_limits |-> Of("object")]),
     font_check |-> Entry({}, [body_font |-> Of("string"),
                               body_size |-> [AtLeast(1) EXCEPT !.type = "number"]]),
     figure_table_numbering |-> Entry({}, Empty),
     budget_check |-> Entry({}, [max_ratio |-> Of("object"), total_field |-> Regex]),
     date_check |-> Entry({}, [expected_months |-> AtLeast(1)]),
     page_number_check |-> Entry({}, [allow_unnumbered_front_pages |-> AtLeast(0)]),
     attachment_checklist |-> Entry({"expected"}, [expected |-> ListOf(Of("string"))]),
     signature_page |-> Entry({}, [keywords |-> ListOf(Of("string"))]),
     cross_field_consistency |-> Entry({}, [fields |-> ListOf(FieldItem),
                                            comparisons |-> ListOf(Of("object"))]),
     required_fields |-> Entry({"fields"}, [fields |-> ListOf(FieldItem)]),
     field_format |-> Entry({"fields"}, [fields |-> ListOf(FieldItem)]),
     heading_numbering |-> Entry({}, [skip_pages |-> ListOf(Of("integer")),
         require_numbering |-> Of("boolean"), allow_mixed_styles |-> Of("boolean"),
         allowed_styles |-> Of("object"), max_issues |-> AtLeast(1)]),
     layout_check |-> Entry({}, [page |-> Of("object"), margins_mm |-> Of("object"),
         body |-> Of("object"), headings |-> Of("object"), max_issues |-> AtLeast(1)]),
     anonymity_check |-> Entry({}, [cover_pages |-> ListOf(Of("integer")),
                                    max_chunk_chars |-> AtLeast(1)]),
     title_content_match |-> Entry({}, [max_section_chars |-> AtLeast(1),
                                        max_chunk_chars |-> AtLeast(1)]),
     cross_consistency_semantic |-> Entry({}, [max_chunk_chars |-> AtLeast(1)]),
     reference_format |-> Entry({}, [semantic_review |-> Of("boolean"),
                                     max_chunk_chars |-> AtLeast(1)])]

-----------------------------------------------------------------------------
HasType(value, type) == value.is = type \/ (value.is = "integer" /\ type = "number")

\* What is wrong with a value that has the right type, what is inside it aside.
ValueErrors(value, schema) ==
    {"enum" : x \in {y \in {value} : y.is = "string" /\ schema.enum # {} /\ y.s \notin schema.enum}}
    \cup {"minimum" : x \in {y \in {value} : y.is = "integer" /\ y.n < schema.minimum}}
    \cup {"regex" : x \in {y \in {value} : y.is = "string" /\ schema.regex /\ y.s = Broken}}

\* One level of _validate_value: the names of what is wrong with a value, what
\* is inside it judged by inner.
Judge(value, schema, inner(_, _)) ==
    IF ~HasType(value, schema.type) THEN {"type"}
    ELSE ValueErrors(value, schema)
         \cup (UNION {inner(value.at[k], schema.properties[k]) :
                      k \in IF value.is = "object" THEN DOMAIN value.at \cap DOMAIN schema.properties
                            ELSE {}})
         \cup (UNION {inner(v, s) :
                      v \in IF value.is = "array" THEN Range(value.items) ELSE {},
                      s \in schema.items})

\* _validate_value, as deep as the schemas of the catalog go: the parameters of
\* a rule, a list of fields, a field, its list of aliases, an alias.
JudgeAlias(value, schema) == Judge(value, schema, LAMBDA v, s : {})
JudgeAliases(value, schema) == Judge(value, schema, JudgeAlias)
JudgeField(value, schema) == Judge(value, schema, JudgeAliases)
JudgeFields(value, schema) == Judge(value, schema, JudgeField)
ValidateValue(value, schema) == Judge(value, schema, JudgeFields)

\* dict.get with a default, of a value that must be an object.
Get(object, key, default) == IF key \in DOMAIN object.at THEN object.at[key] ELSE default

\* The two rules that are looked into further take their parameters' shape
\* for granted: Raises is the exception the caller gets instead of an answer.
Raises == "raises"

Given(f, key) == key \in DOMAIN f.at /\ f.at[key] # Text("")

\* Faulty variant: nobody asks for a format or a pattern.
FieldErrorsNone(fields) == IF fields.is = "array" THEN {} ELSE {Raises}

FieldErrors(fields) ==
    IF fields.is # "array" \/ \E f \in Range(fields.items) : f.is # "object" THEN {Raises}
    ELSE {"no_format" : f \in {g \in Range(fields.items) : ~Given(g, "format") /\ ~Given(g, "pattern")}}

SizeErrors(body) ==
    LET limit(key) == Get(body, key, Number(0))
        known(key) == key \in DOMAIN body.at /\ limit(key).is = "integer"
    IN  IF body.is # "object" THEN {Raises}
        ELSE {"size_type" : k \in {j \in {"min_size", "max_size"} \cap DOMAIN body.at : ~known(j)}}
             \cup {"sizes" : x \in {y \in {body} : /\ known("min_size") /\ known("max_size")
                                                   /\ limit("min_size").n > limit("max_size").n}}

RuleErrors(rule) ==
    IF rule.type \notin DOMAIN Catalog THEN {"unknown_type"}
    ELSE {"missing" : name \in Catalog[rule.type].required \ DOMAIN rule.params}
         \cup ValidateValue(Object(rule.params), Catalog[rule.type])
         \cup (IF rule.type = "field_format"
               THEN FieldErrors(Get(Object(rule.params), "fields", List(<<>>))) ELSE {})
         \cup (IF rule.type = "layout_check"
               THEN SizeErrors(Get(Object(rule.params), "body", Object(Empty))) ELSE {})

\* What the checkers of fields themselves ask of their configuration, on
\* pain of a ValueError (_configured_fields, _aliases and field_format).
FieldRuns(type, f) ==
    LET given(key) == Given(f, key)
    IN  /\ f.is = "object"
        /\ \/ type = "required_fields" /\ Get(f, "required", Flag(TRUE)) = Flag(FALSE)
           \/ /\ given("name")
              /\ "aliases" \in DOMAIN f.at => f.at.aliases.is \in {"string", "array"}
        /\ type = "field_format" =>
              /\ given("format") \/ given("pattern")
              /\ given("format") => f.at.format.is = "string" /\ f.at.format.s \in FieldFormats
              /\ given("format") \/ f.at.pattern # Text(Broken)

FieldRuleRuns(rule) ==
    LET fields == Get(Object(rule.params), "fields", List(<<>>))
    IN  fields.is = "array" /\ \A f \in Range(fields.items) : FieldRuns(rule.type, f)

\* rules: a sequence of records with id, type and params.
ValidateRuleset(rules) ==
    (UNION {RuleErrors(rules[i]) : i \in DOMAIN rules})
    \cup {"duplicate_id" : i \in {j \in DOMAIN rules : \E k \in 1 .. j - 1 : rules[k].id = rules[j].id}}

-----------------------------------------------------------------------------
(* A requirement: its kind and a detail.  In the detail numbers are given  *)
(* under the first of the names looked for, NoNumber when there is none    *)
(* that reads as a number; names is a sequence; the rest is "" or absent   *)
(* from at when it is not given.                                           *)
NoNumber == -1

NoRule == [type |-> "none", params |-> Empty]

Drafted(type, params) == [type |-> type, params |-> params]

NamedFields(names) == List([i \in DOMAIN names |-> Object([name |-> Text(names[i])])])

FormatOf(d) ==
    IF d.format # "" THEN [name |-> Text(d.names[1]), format |-> Text(d.format)]
    ELSE [name |-> Text(d.names[1]), pattern |-> Text(d.pattern)]

\* Faulty variant: a format is taken as the model names it.
MapFieldFormatAnyway(d) ==
    IF d.names = <<>> \/ (d.format = "" /\ d.pattern = "") THEN NoRule
    ELSE Drafted("field_format", [fields |-> List(<<Object(FormatOf(d))>>)])

MapFieldFormat(d) ==
    IF \/ d.names = <<>>
       \/ d.format = "" /\ d.pattern = ""
       \/ d.format # "" /\ d.format \notin FieldFormats
    THEN NoRule
    ELSE Drafted("field_format", [fields |-> List(<<Object(FormatOf(d))>>)])

Only(key, value) == [k \in {key} |-> value]

MapNumber(d, type, key) ==
    IF d.number = NoNumber THEN NoRule ELSE Drafted(type, Only(key, Number(d.number)))

MapNames(d, type, key, list) ==
    IF d.names = <<>> THEN NoRule ELSE Drafted(type, Only(key, list))

MapFont(d) ==
    LET given == {k \in {"body_font", "body_size"} :
                    IF k = "body_font" THEN d.names # <<>> ELSE d.number # NoNumber}
    IN  IF given = {} THEN NoRule
        ELSE Drafted("font_check", [k \in given |->
                IF k = "body_font" THEN Text(d.names[1]) ELSE Number(d.number)])

MapRatio(d) ==
    IF d.names = <<>> \/ d.number = NoNumber THEN NoRule
    ELSE Drafted("budget_check", [max_ratio |-> Object(Only(d.names[1], Number(d.number)))])

\* Parts of a layout that are no object are left out.
MapLayout(d) ==
    IF d.format \notin {"", "A4", "A3", "LETTER"} THEN NoRule
    ELSE LET page == Object([size |-> Text(d.format)])
         IN  Drafted("layout_check", IF d.body.is = "object" THEN [body |-> d.body, page |-> page]
                                     ELSE [page |-> page])

MapRequirement(r) ==
    LET d == r.detail
    IN  CASE r.kind = "page_limit" -> MapNumber(d, "page_limit", "max_pages")
          [] r.kind = "word_limit" -> MapNumber(d, "word_limit", "max_words")
          [] r.kind = "duration" -> MapNumber(d, "date_check", "expected_months")
          [] r.kind = "required_section" -> MapNames(d, "required_sections", "sections",
                List([i \in DOMAIN d.names |-> Object([title |-> Text(d.names[i])])]))
          [] r.kind = "attachment" -> MapNames(d, "attachment_checklist", "expected",
                List([i \in DOMAIN d.names |-> Text(d.names[i])]))
          [] r.kind = "required_field" ->
                MapNames(d, "required_fields", "fields", NamedFields(d.names))
          [] r.kind = "font" -> MapFont(d)
          [] r.kind = "budget_ratio" -> MapRatio(d)
          [] r.kind = "field_format" -> MapFieldFormat(d)
          [] r.kind = "heading_numbering" -> Drafted("heading_numbering",
                [require_numbering |-> Flag(TRUE), allow_mixed_styles |-> Flag(FALSE)])
          [] r.kind = "layout" -> MapLayout(d)
          [] OTHER -> NoRule

\* build_draft_yaml takes each requirement once; rules are numbered as they
\* are made.
Take(s, r) ==
    LET rule == MapRequirement(r)
    IN  CASE r \in s.seen -> s
          [] r \notin s.seen /\ rule.type = "none" ->
                [s EXCEPT !.seen = @ \cup {r}, !.dropped = Append(@, r)]
          [] OTHER ->
                [s EXCEPT !.seen = @ \cup {r},
                          !.rules = Append(@, [id |-> Len(@) + 1, type |-> rule.type,
                                               params |-> rule.params])]

BuildDraft(requirements) ==
    LET draft[i \in 0 .. Len(requirements)] ==
            IF i = 0 THEN [seen |-> {}, rules |-> <<>>, dropped |-> <<>>]
            ELSE Take(draft[i - 1], requirements[i])
    IN  draft[Len(requirements)]
=============================================================================
