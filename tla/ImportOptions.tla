---------------------------- MODULE ImportOptions ----------------------------
(***************************************************************************)
(* How an import reads its objects                                         *)
(* (src/lib/compiler/physical_query_plan/operator_proxy/import_options.cpp *)
(* and src/lib/storage/formats/parquet_expression.cpp): the options of the *)
(* reader of each format, their way through JSON, and the predicate that   *)
(* is pushed down to the Parquet library.                                  *)
(*                                                                         *)
(* An option that is not set, and a key that JSON does not have, is None.  *)
(* Columns, row groups and a schema that are set may be none, so they are  *)
(* Some(s).                                                                *)
(***************************************************************************)
EXTENDS PlanExpressions

None == <<>>
Some(s) == <<s>>
Formats == {"kCsv", "kOrc", "kParquet"}

(***************************************************************************)
(* The Arrow expression of a predicate: a tree of calls.  Columns go by    *)
(* their names, here the ids that they have in the object.                 *)
(***************************************************************************)
ArrowCall(f, args) == [f |-> f, args |-> args]
field_ref(name) == [f |-> "field_ref", args |-> <<name>>]
literal(value) == [f |-> "literal", args |-> <<value>>]
Unsupported == [f |-> "Fail", args |-> <<>>]

ArrowFunction(condition) ==
    CASE condition = "kEquals" -> "equal"
      [] condition = "kNotEquals" -> "not_equal"
      [] condition = "kLessThan" -> "less"
      [] condition = "kLessThanEquals" -> "less_equal"
      [] condition = "kGreaterThan" -> "greater"
      [] condition = "kGreaterThanEquals" -> "greater_equal"

LowerFunction(condition) ==
    IF condition \in {"kBetweenInclusive", "kBetweenUpperExclusive"} THEN "greater_equal" ELSE "greater"
UpperFunction(condition) ==
    IF condition \in {"kBetweenInclusive", "kBetweenLowerExclusive"} THEN "less_equal" ELSE "less"

RECURSIVE CreateArrowExpression(_)

ConvertLogicalExpression(e) ==
    ArrowCall(IF e.attr = "kOr" THEN "or" ELSE "and",
              <<CreateArrowExpression(e.args[1]), CreateArrowExpression(e.args[2])>>)

ConvertBinaryPredicateExpression(e) ==
    ArrowCall(ArrowFunction(e.attr), <<CreateArrowExpression(e.args[1]), CreateArrowExpression(e.args[2])>>)

ConvertInBetweenPredicateExpression(e) ==
    LET value == CreateArrowExpression(e.args[1])
    IN ArrowCall("and", <<ArrowCall(LowerFunction(e.attr), <<value, CreateArrowExpression(e.args[2])>>),
                          ArrowCall(UpperFunction(e.attr), <<value, CreateArrowExpression(e.args[3])>>)>>)

ConvertIsNullExpression(e) ==
    LET isNull == ArrowCall("is_null", <<CreateArrowExpression(e.args[1])>>)
    IN IF e.attr = "kIsNull" THEN isNull ELSE ArrowCall("not", <<isNull>>)

ConvertAbstractPredicateExpression(e) ==
    CASE e.class = "BinaryPredicate" -> ConvertBinaryPredicateExpression(e)
      [] e.class = "Between" -> ConvertInBetweenPredicateExpression(e)
      [] e.class = "IsNull" -> ConvertIsNullExpression(e)
      [] OTHER -> Unsupported

CreateArrowExpression(e) ==
    CASE e.class = "PqpColumn" -> field_ref(e.attr)
      [] e.class = "Value" -> literal(e.attr)
      [] ExpressionType(e.class) = "kPredicate" -> ConvertAbstractPredicateExpression(e)
      [] e.class = "Logical" -> ConvertLogicalExpression(e)
      [] OTHER -> Unsupported

(* Fail is called for no part of the expression.                           *)
RECURSIVE Supported(_)
Supported(arrow) ==
    /\ arrow # Unsupported
    /\ arrow.f \notin {"field_ref", "literal"} => \A i \in DOMAIN arrow.args : Supported(arrow.args[i])

(* What the Arrow library makes of a call, for a row without NULLs.        *)
RECURSIVE Compute(_, _)
Compute(arrow, row) ==
    LET arg(i) == Compute(arrow.args[i], row)
    IN CASE arrow.f = "field_ref" -> row[arrow.args[1] + 1]
         [] arrow.f = "literal" -> arrow.args[1]
         [] arrow.f = "equal" -> arg(1) = arg(2)
         [] arrow.f = "not_equal" -> arg(1) # arg(2)
         [] arrow.f = "less" -> arg(1) < arg(2)
         [] arrow.f = "less_equal" -> arg(1) =< arg(2)
         [] arrow.f = "greater" -> arg(1) > arg(2)
         [] arrow.f = "greater_equal" -> arg(1) >= arg(2)
         [] arrow.f = "and" -> arg(1) /\ arg(2)
         [] arrow.f = "or" -> arg(1) \/ arg(2)
         [] arrow.f = "not" -> ~arg(1)
         [] arrow.f = "is_null" -> FALSE

(***************************************************************************)
(* The options of the readers.  The scalars of a CSV reader are its buffer *)
(* size, its delimiter and five flags.                                     *)
(***************************************************************************)
CsvOptions(scalars, schema) == [format |-> "kCsv", scalars |-> scalars, expected_schema |-> schema]
OrcOptions(columns, schema) ==
    [format |-> "kOrc", parse_dates_as_string |-> FALSE, include_columns |-> columns, expected_schema |-> schema]
ParquetOptions(columns, schema, groups, expression) ==
    [format |-> "kParquet", parse_dates_as_string |-> FALSE, include_columns |-> columns,
     expected_schema |-> schema, row_group_ids |-> groups, skyrise_expression |-> expression,
     arrow_expression |-> None]

CsvDefaults ==
    [read_buffer_size |-> 1, delimiter |-> ",", guess_delimiter |-> TRUE, guess_has_header |-> TRUE,
     guess_has_types |-> TRUE, has_header |-> FALSE, has_types |-> FALSE]

(* The constructor: a CSV reader takes no columns, and only a Parquet      *)
(* reader row groups.                                                      *)
MakeImportOptions(format, columns, partitions) ==
    CASE format = "kCsv" -> CsvOptions(CsvDefaults, None)
      [] format = "kOrc" -> OrcOptions(Some(columns), None)
      [] format = "kParquet" -> ParquetOptions(Some(columns), None, partitions, None)

TableColumnDefinitionsToJsonArray(schema) ==
    [i \in DOMAIN schema |-> [name |-> schema[i].name, data_type |-> schema[i].data_type,
                              nullable |-> schema[i].nullable]]

(* JsonView::GetBool of the AWS SDK.  The source does not agree on it: by  *)
(* aggregate_operator_proxy.cpp:93 and import_options.cpp:168 it always    *)
(* returns false, and so they call GetObject().AsBool(); other readers and *)
(* a test trust it.  Both are modelled: getsBool is that it works.         *)
GetBool(getsBool, b) == getsBool /\ b

(* If the array is not empty: see HasEmptySchema.                          *)
TableColumnDefinitionsFromJsonArray(json, getsBool) ==
    [i \in DOMAIN json |-> [name |-> json[i].name, data_type |-> json[i].data_type,
                            nullable |-> GetBool(getsBool, json[i].nullable)]]

(* The Assert of TableColumnDefinitionsFromJsonArray fails.                *)
HasEmptySchema(o) == o.expected_schema = Some(<<>>)

(* Of an ORC reader with a schema, the columns are not written.            *)
ImportOptionsToJson(o) ==
    LET schema == IF o.expected_schema = None THEN None
                  ELSE Some(TableColumnDefinitionsToJsonArray(o.expected_schema[1]))
    IN CASE o.format = "kCsv" ->
              [csv_format_reader_options |-> [scalars |-> o.scalars, expected_schema |-> schema]]
         [] o.format = "kOrc" ->
              [orc_format_reader_options |->
                  [parse_dates_as_string |-> o.parse_dates_as_string, expected_schema |-> schema,
                   include_columns |-> IF o.expected_schema # None THEN None ELSE o.include_columns]]
         [] o.format = "kParquet" ->
              [parquet_format_reader_options |->
                  [parse_dates_as_string |-> o.parse_dates_as_string, expected_schema |-> schema,
                   include_columns |-> o.include_columns, row_group_ids |-> o.row_group_ids,
                   skyrise_expression |-> IF o.skyrise_expression = None THEN None
                                          ELSE SerializeExpression(o.skyrise_expression)]]

(* The predicate arrives as an Arrow expression only.                      *)
ImportOptionsFromJson(json, getsBool) ==
    LET Schema(j) == IF j.expected_schema = None THEN None
                     ELSE Some(TableColumnDefinitionsFromJsonArray(j.expected_schema[1], getsBool))
    IN CASE "csv_format_reader_options" \in DOMAIN json ->
              LET j == json.csv_format_reader_options IN CsvOptions(j.scalars, Schema(j))
         [] "orc_format_reader_options" \in DOMAIN json ->
              LET j == json.orc_format_reader_options
              IN [OrcOptions(j.include_columns, Schema(j))
                    EXCEPT !.parse_dates_as_string = j.parse_dates_as_string]
         [] "parquet_format_reader_options" \in DOMAIN json ->
              LET j == json.parquet_format_reader_options
                  arrow == IF j.skyrise_expression = None THEN None
                           ELSE CreateArrowExpression(DeserializeExpression(j.skyrise_expression))
              IN [ParquetOptions(j.include_columns, Schema(j), j.row_group_ids, None)
                    EXCEPT !.parse_dates_as_string = j.parse_dates_as_string,
                           !.arrow_expression = arrow]
=============================================================================
