--------------------------- MODULE MCQueryRelease ---------------------------
(* Small instances of QueryRelease for TLC. *)
EXTENDS QueryRelease, TLC

Literal(t, n) == [type |-> t, value |-> n]

Filter(c, op, vs) == [column |-> c, operator |-> op, values |-> vs]

MetricAs(f, c, a) == [function |-> f, column |-> c, alias |-> a]

MCDimensionLists ==
  {<<>>, <<"region", "active">>, <<"active", "region">>}

Rows == MetricAs("count", "star", "n")
Pay(a) == MetricAs("avg", "salary", a)
MCMetricLists == {<<Rows, Pay("y")>>, <<Pay("x"), Rows>>,
                  <<Pay("x"), Pay("y")>>, <<Pay("N"), Rows>>}

Granting(c, f) == [column |-> c, functions |-> {f}]
MCMetrics == [salary |-> Granting("salary", "avg"), rows |-> Granting("*", "count")]

MCLowerCase == [n |-> "n", N |-> "n", x |-> "x", y |-> "y"]

\* 2 and 3 stand for epsilons that have the same 12 significant digits.
MCSignificantDigits == <<1, 2, 2>>

MCFilterLists ==
  {<<Filter("active", "eq", <<Literal("number", 1)>>)>>,
   <<Filter("active", "neq", <<Literal("boolean", 1)>>)>>,
   <<Filter("region", "in", <<Literal("string", 1), Literal("string", 2)>>),
     Filter("active", "eq", <<Literal("number", 1)>>)>>,
   <<Filter("active", "eq", <<Literal("boolean", 1)>>),
     Filter("region", "in", <<Literal("string", 2), Literal("string", 1)>>)>>}

MCPlans ==
  {[dataset_version |-> v, dimensions |-> d, metrics |-> m, filters |-> f] :
     v \in 1..MaxVersion, d \in MCDimensionLists, m \in MCMetricLists, f \in MCFilterLists}

Subject(i, r, a) == [subject_token |-> i, region |-> r, active |-> a, salary |-> i]

MCTable == {Subject(1, 1, 1), Subject(2, 1, 1), Subject(3, 1, 0), Subject(4, 1, 0),
            Subject(5, 2, 0), Subject(6, 2, 0), Subject(7, 2, 1)}

\* Three groups of two, of which two are fetched; and the same file with one
\* more row.
MCTables == {MCTable, MCTable \cup {Subject(8, 2, 1)}}
=============================================================================
