---------------------------- MODULE SubFilters ----------------------------
(***************************************************************************)
(* Subscription conditions (app/subfilters.py): what a condition accepted  *)
(* by validate_filter_spec says of an event body.                          *)
(*                                                                         *)
(* A JSON value is a pair <<type, content>>.  The content of a string is a *)
(* sequence of tokens: the segments of a path, numbers where strings are   *)
(* compared.  A boolean is 0 or 1, as in Python, where it is also an int;  *)
(* JSON's 1 and 1.0 are an "int" and a "float".                            *)
(***************************************************************************)
EXTENDS Integers, FiniteSets, FiniteSetsExt, SequencesExt

MAX_NESTING_DEPTH == 8
MAX_NODES == 100
MAX_PATH_LENGTH == 512
MAX_IN_LIST == 100
MAX_STRING_OPERAND_LENGTH == 4096

ORDERING_OPS == {"gt", "gte", "lt", "lte"}
STRING_OPS == {"starts_with", "ends_with", "contains"}
LEAF_OPS == {"eq", "ne", "in", "exists"} \cup ORDERING_OPS \cup STRING_OPS
COMBINATOR_KEYS == {"all", "any", "not"}

Missing == <<"missing", 0>>
Is(v, type) == v[1] = type
\* Fault: a bool is an int.
IsNumberOrBool(v) == v[1] \in {"int", "float", "bool"}
IsNumber(v) == v[1] \in {"int", "float"}
Has(v, key) == Is(v, "dict") /\ key \in DOMAIN v[2]
Field(v, key) == v[2][key]
\* The op of a leaf, a string of one token.
Op(v) == Field(v, "op")[2][1]

-----------------------------------------------------------------------------
(* Evaluation *)

\* Deep equality with JSON typing.
RECURSIVE json_equal(_, _)
json_equal(left, right) ==
  \/ IsNumber(left) /\ IsNumber(right) /\ left[2] = right[2]
  \/ /\ left[1] = right[1]
     /\ \/ left[1] \in {"null", "bool", "str"} /\ left[2] = right[2]
        \/ /\ left[1] \in {"dict", "list"}
           /\ DOMAIN left[2] = DOMAIN right[2]
           /\ \A k \in DOMAIN left[2] : json_equal(left[2][k], right[2][k])

\* str.isdigit and int on the segments in use.
Index == [s \in {"0", "1"} |-> IF s = "0" THEN 0 ELSE 1]

Descend(v, segment) ==
  IF Has(v, segment) THEN Field(v, segment)
  ELSE IF /\ Is(v, "list")
          /\ segment \in DOMAIN Index
          /\ Index[segment] < Len(v[2])
       THEN v[2][Index[segment] + 1]
       ELSE Missing

Resolve(payload, path) == FoldLeft(Descend, payload, path)

\* Strings are ordered by their first difference.
Precedes(s, t) ==
  \/ IsStrictPrefix(s, t)
  \/ \E i \in DOMAIN s \cap DOMAIN t :
       s[i] < t[i] /\ \A j \in 1..(i - 1) : s[j] = t[j]

\* < of two numbers or of two strings.
Less(a, b) == IF IsNumber(a) THEN a[2] < b[2] ELSE Precedes(a[2], b[2])
Comparable(a, b) == (IsNumber(a) /\ IsNumber(b)) \/ (Is(a, "str") /\ Is(b, "str"))

Ordered(op, a, b) ==
  /\ Comparable(a, b)
  /\ CASE op = "gt"  -> Less(b, a)
       [] op = "gte" -> ~Less(a, b)
       [] op = "lt"  -> Less(a, b)
       [] op = "lte" -> ~Less(b, a)

InString(op, a, b) ==
  /\ Is(a, "str") /\ Is(b, "str")
  /\ CASE op = "starts_with" -> IsPrefix(b[2], a[2])
       [] op = "ends_with"   -> IsSuffix(b[2], a[2])
       [] op = "contains"    -> \E i \in 0..Len(a[2]) :
                                  IsPrefix(b[2], SubSeq(a[2], i + 1, Len(a[2])))

\* A path that is absent fails every op but "exists".
LeafMatches(node, payload) ==
  LET op == Op(node)
      actual == Resolve(payload, Field(node, "path")[2])
      operand == Field(node, "value")
  IN  /\ actual # Missing
      /\ CASE op = "exists" -> TRUE
           [] op = "eq" -> json_equal(actual, operand)
           [] op = "ne" -> ~json_equal(actual, operand)
           [] op = "in" -> \E i \in DOMAIN operand[2] :
                             json_equal(actual, operand[2][i])
           [] op \in ORDERING_OPS -> Ordered(op, actual, operand)
           [] op \in STRING_OPS -> InString(op, actual, operand)

IsLeaf(spec) ==
  /\ Has(spec, "op") /\ Is(Field(spec, "op"), "str") /\ Op(spec) \in LEAF_OPS
  /\ Has(spec, "path") /\ Is(Field(spec, "path"), "str")

\* Any other shape is FALSE.
RECURSIVE evaluate(_, _)
evaluate(spec, payload) ==
  IF Has(spec, "all")
  THEN LET ms == Field(spec, "all") IN
       Is(ms, "list") /\ \A i \in DOMAIN ms[2] :
                           Is(ms[2][i], "dict") /\ evaluate(ms[2][i], payload)
  ELSE IF Has(spec, "any")
  THEN LET ms == Field(spec, "any") IN
       Is(ms, "list") /\ \E i \in DOMAIN ms[2] :
                           Is(ms[2][i], "dict") /\ evaluate(ms[2][i], payload)
  ELSE IF Has(spec, "not")
  THEN Is(Field(spec, "not"), "dict") /\ ~evaluate(Field(spec, "not"), payload)
  ELSE IsLeaf(spec) /\ LeafMatches(spec, payload)

-----------------------------------------------------------------------------
(* Validation *)

\* _ensure_json_value: a number that is not finite has the type "nonfinite".
RECURSIVE IsJson(_)
IsJson(v) ==
  \/ v[1] \in {"null", "bool", "str", "int", "float"}
  \/ v[1] \in {"dict", "list"} /\ \A k \in DOMAIN v[2] : IsJson(v[2][k])

\* The operand that validate_filter_spec wants for an op.
ValidOperand(op, v) ==
  CASE op \in {"eq", "ne"}  -> IsJson(v)
    [] op \in ORDERING_OPS  -> v[1] \in {"int", "float", "nonfinite", "str"}
    [] op \in STRING_OPS    -> Is(v, "str") /\ Len(v[2]) <= MAX_STRING_OPERAND_LENGTH
    [] op = "in"            -> /\ Is(v, "list")
                               /\ Len(v[2]) \in 1..MAX_IN_LIST
                               /\ \A i \in DOMAIN v[2] : IsJson(v[2][i])

ValidLeaf(node) ==
  /\ DOMAIN node[2] \subseteq {"path", "op", "value"}
  /\ IsLeaf(node)
  /\ Len(Field(node, "path")[2]) \in 1..MAX_PATH_LENGTH
  /\ "" \notin ToSet(Field(node, "path")[2])
  /\ Op(node) = "exists" \/ (Has(node, "value")
                              /\ ValidOperand(Op(node), Field(node, "value")))

\* The members of a combinator, however many it has.
Members(node) ==
  LET key == CHOOSE k \in DOMAIN node[2] : TRUE
  IN  IF key = "not" THEN <<Field(node, key)>> ELSE Field(node, key)[2]

\* A combinator is the only key of its node.
ValidCombinator(node) ==
  \E key \in COMBINATOR_KEYS :
    /\ DOMAIN node[2] = {key}
    /\ IF key = "not" THEN Is(Field(node, key), "dict")
       ELSE Is(Field(node, key), "list") /\ Field(node, key)[2] # <<>>

RECURSIVE Walk(_, _)
Walk(node, depth) ==
  /\ depth <= MAX_NESTING_DEPTH
  /\ Is(node, "dict")
  /\ \/ ValidLeaf(node)
     \/ /\ ValidCombinator(node)
        /\ \A i \in DOMAIN Members(node) : Walk(Members(node)[i], depth + 1)

RECURSIVE NodeCount(_)
NodeCount(node) ==
  IF ValidLeaf(node) THEN 1
  ELSE 1 + FoldLeft(+, 0, [i \in DOMAIN Members(node) |->
                              NodeCount(Members(node)[i])])

Accepted(spec) == Walk(spec, 1) /\ NodeCount(spec) <= MAX_NODES

\* What is stored: "exists" loses its operand.
RECURSIVE Canonical(_)
Canonical(node) ==
  IF ValidLeaf(node)
  THEN IF Op(node) = "exists"
       THEN <<"dict", [k \in {"path", "op"} |-> Field(node, k)]>> ELSE node
  ELSE <<"dict", [k \in DOMAIN node[2] |->
         IF k = "not" THEN Canonical(Field(node, k))
         ELSE <<"list", [i \in DOMAIN Members(node) |->
                           Canonical(Members(node)[i])]>>]>>

=============================================================================
