----------------------------- MODULE MCIngest -----------------------------
(***************************************************************************)
(* Small instances of Ingest, whose conditions are judged by SubFilters,   *)
(* and laws of the conditions over small bodies.                           *)
(***************************************************************************)
EXTENDS Ingest, SubFilters

Str(tokens) == <<"str", tokens>>
Leaf(path, op, value) ==
  <<"dict", [k \in {"path", "op", "value"} |->
     CASE k = "path" -> Str(path) [] k = "op" -> Str(<<op>>) [] OTHER -> value]>>
Combine(key, content) == <<"dict", [k \in {key} |-> content]>>
Body(v) == <<"dict", [a |-> v]>>

\* The instance: one condition, {"path": "a", "op": "gte", "value": 1}, that
\* holds of one body and not of the other.
MCMatches(condition_name, body) ==
  evaluate(Leaf(<<"a">>, "gte", <<"int", 1>>),
           Body(IF body = "one" THEN <<"float", 1>> ELSE Str(<<1>>)))
MCPushes ==
  {[key |-> "k1", payload |-> "one", previewed |-> FALSE],
   [key |-> "k1", payload |-> "one", previewed |-> TRUE],
   [key |-> "k2", payload |-> "text", previewed |-> FALSE]}
MCChains == {<<2, 1>>}

-----------------------------------------------------------------------------
(* Laws of the conditions *)

Scalars ==
  {<<"null", 0>>, <<"bool", 0>>, <<"bool", 1>>, <<"int", 0>>, <<"int", 1>>,
   <<"float", 1>>, Str(<<>>), Str(<<1>>), Str(<<2>>), Str(<<1, 2>>)}
Lists == {<<"list", <<v>>>> : v \in Scalars}
           \cup {<<"list", <<v, w>>>> : v, w \in {<<"int", 1>>, <<"bool", 1>>}}
Values == Scalars \cup Lists \cup {Body(v) : v \in Scalars \cup Lists}

\* The value without the difference of 1 and 1.0: the reference for equality.
RECURSIVE Plain(_)
Plain(v) ==
  IF v[1] \in {"int", "float"} THEN <<"number", v[2]>>
  ELSE IF v[1] \in {"list", "dict"}
       THEN <<v[1], [k \in DOMAIN v[2] |-> Plain(v[2][k])]>>
       ELSE v

RECURSIVE Negated(_, _)
Negated(n, spec) == IF n = 0 THEN spec ELSE Combine("not", Negated(n - 1, spec))

Leaves == {Leaf(p, op, v) : p \in {<<"a">>, <<"b">>, <<"a", "0">>, <<"">>},
                            op \in LEAF_OPS \cup {"like"},
                            v \in Scalars \cup {<<"list", <<>>>>,
                                               <<"list", <<<<"int", 1>>>>>>}}
Specs == Leaves
           \cup {Combine(k, <<"list", <<l, m>>>>) : k \in {"all", "any"},
                    l, m \in {Leaf(<<"a">>, "exists", <<"null", 0>>),
                              Leaf(<<"a">>, "ne", <<"int", 1>>),
                              Leaf(<<"b">>, "eq", <<"int", 1>>)}}
           \cup {Combine("all", <<"list", <<>>>>), Combine("not", <<"null", 0>>)}
Judge(op, v, w) == evaluate(Leaf(<<"a">>, op, w), Body(v))

\* The laws, over the bodies and conditions above.
LawsHold ==
  /\ \A v, w \in Values : json_equal(v, w) <=> Plain(v) = Plain(w)
  /\ \A v, w \in Scalars :
       /\ Judge("in", v, <<"list", <<w>>>>) <=> Judge("eq", v, w)
       /\ Judge("starts_with", v, w) \/ Judge("ends_with", v, w)
            => Judge("contains", v, w)
       /\ LET holds == {op \in {"lt", "eq", "gt"} : Judge(op, v, w)} IN
          IF \E t \in {{"int", "float"}, {"str"}} : {v[1], w[1]} \subseteq t
          THEN /\ Cardinality(holds) = 1
               /\ Judge("gte", v, w) <=> holds # {"lt"}
               /\ Judge("lte", v, w) <=> holds # {"gt"}
          ELSE \A op \in ORDERING_OPS : ~Judge(op, v, w)
  /\ \A s \in {x \in Specs : Accepted(x)} :
       /\ Accepted(Canonical(s)) /\ Canonical(Canonical(s)) = Canonical(s)
       /\ \A v \in Values :
            /\ evaluate(Canonical(s), Body(v)) = evaluate(s, Body(v))
            /\ evaluate(Negated(1, s), Body(v)) # evaluate(s, Body(v))
  /\ LET leaf == Leaf(<<"a">>, "eq", <<"null", 0>>) IN
       /\ Accepted(Negated(MAX_NESTING_DEPTH - 1, leaf))
       /\ ~Accepted(Negated(MAX_NESTING_DEPTH, leaf))

\* A stored condition means what the docstring says: deep equality is equality
\* of JSON values (true is not 1, 1 is 1.0); of two numbers or two strings
\* exactly one of lt, eq, gt holds and no order of anything else; "in" is eq
\* with a member.  Storing the canonical form changes no judgement and validates
\* again; an accepted condition and its negation disagree about every body; and
\* nesting is accepted to MAX_NESTING_DEPTH and no further.
ConditionLaws == (\E d \in Dests : condition[d] \in Filters) => LawsHold
=============================================================================
