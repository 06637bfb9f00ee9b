--------------------------- MODULE MCPolicyEngine ---------------------------
(* A small policy and the statements that are submitted under it. *)
EXTENDS PolicyEngine, TLC

Column(name) == [kind |-> "column", name |-> name, qualified |-> FALSE]
Text(n) == [kind |-> "literal", type |-> "string", value |-> n, text |-> n, finite |-> TRUE]
Number(n) == [Text(n) EXCEPT !.type = "number"]
\* A number that is spelled with a decimal point.
Point(n) == [Number(n) EXCEPT !.text = 100 + n]
True == [Text(1) EXCEPT !.type = "boolean"]
Infinite == [Number(9) EXCEPT !.finite = FALSE]
Star == [kind |-> "star"]
Avg(e) == [kind |-> "avg", this |-> e]
Count(e) == [kind |-> "count", this |-> e]
As(e, alias) == [expression |-> e, alias |-> alias]
Eq(c, e) == [kind |-> "eq", left |-> Column(c), right |-> e]
Neq(c, e) == [Eq(c, e) EXCEPT !.kind = "neq"]
And(v, w) == [kind |-> "and", left |-> v, right |-> w]
Paren(w) == [kind |-> "paren", this |-> w]
In(c, es) == [kind |-> "in", this |-> Column(c), expressions |-> es, query |-> FALSE]

Employees == [name |-> "EMPLOYEES", qualified |-> FALSE, aliased |-> FALSE, modified |-> FALSE]

Select(projections, group, where) ==
  [form |-> "select", clauses |-> {}, nodes |-> {}, tables |-> <<Employees>>,
   projections |-> projections, group |-> group, group_modified |-> FALSE, where |-> where]

None == [kind |-> "none"]
Rows == As(Count(Star), NoAlias)

\* Select lists and groupings that are allowed.
Lists == {<< <<Rows>>, <<>> >>,
          << <<As(Column("region"), NoAlias), Rows>>, <<Column("region")>> >>,
          << <<As(Count(Star), "n"), As(Column("Region"), NoAlias)>>, <<Column("REGION")>> >>,
          << <<As(Avg(Column("Salary")), NoAlias), Rows>>, <<>> >>}

\* Select lists that the policy allows and the executor does not support.
Unsupportable == {<<As(Avg(Column("bonus")), NoAlias)>>, <<As(Avg(Column("long")), NoAlias)>>,
                  <<As(Avg(Column("long")), "n")>>, <<As(Avg(Column("net pay")), "n")>>}
ByTitle == Select(<<As(Column("job title"), NoAlias), Rows>>, <<Column("job title")>>, None)

\* Conditions that are allowed, several of them the same in other words.
Wheres == {None, Eq("region", Text(1)), In("Region", <<Text(1)>>), In("region", <<Text(1), Text(1)>>),
           In("region", <<Text(1), Text(2)>>), Paren(In("region", <<Text(2), Text(1), Text(1)>>)),
           And(Eq("active", True), Paren(Eq("region", Text(1)))),
           Paren(And(In("region", <<Text(1)>>), Eq("active", Number(1)))),
           And(In("region", <<Text(1), Text(1)>>), Eq("active", Number(1))),
           And(In("active", <<True, Number(1)>>), In("region", <<Text(1)>>)),
           Neq("active", Number(1)), Eq("tenure", Number(1))}

\* Literals of which float() makes others, or that cannot be bound: with
\* three significant bits 9 becomes 8, and 15 becomes 16, which is too much.
Inexact == {Eq("active", Point(1)), Eq("region", Point(1)), Eq("active", Number(8)),
            Eq("active", Number(9)), In("region", <<Number(9), Text(1)>>),
            Eq("active", Number(15)), Eq("job title", Text(1))}

BadWheres == {[kind |-> "or", left |-> Eq("region", Text(1)), right |-> Eq("active", True)],
              And(And(Eq("region", Text(1)), Eq("active", True)), Neq("region", Text(2))),
              Eq("salary", Number(1)), Eq("subject_token", Text(1)), Eq("region", Column("active")),
              Eq("region", Infinite), [Eq("region", Text(1)) EXCEPT !.left = Text(1)],
              In("region", <<>>), In("region", [i \in 1..21 |-> Text(i)]),
              [In("region", <<>>) EXCEPT !.query = TRUE],
              [In("region", <<Text(1)>>) EXCEPT !.this.qualified = TRUE]}

BadLists == {<< <<As(Star, NoAlias)>>, <<>> >>,
             << <<As(Column("region"), NoAlias)>>, <<Column("region")>> >>,
             << <<As(Column("region"), "n"), Rows>>, <<Column("region")>> >>,
             << <<As(Column("salary"), NoAlias), Rows>>, <<Column("salary")>> >>,
             << <<As(Column("subject_token"), NoAlias), Rows>>, <<>> >>,
             << <<As(Column("region"), NoAlias), Rows>>, <<>> >>,
             << <<As(Column("region"), NoAlias), Rows>>, <<Text(1)>> >>,
             << <<Rows, As(Column("region"), NoAlias)>>, <<Column("region"), Column("region")>> >>,
             << <<Rows, As(Count(Star), "n")>>, <<>> >>,
             << <<Rows, Rows>>, <<>> >>,
             << <<As(Count(Star), "__group_size")>>, <<>> >>,
             << <<As(Count(Column("salary")), NoAlias)>>, <<>> >>,
             << <<As(Avg(Column("active")), NoAlias)>>, <<>> >>,
             << <<As(Avg(Number(1)), NoAlias)>>, <<>> >>,
             << <<As(Number(1), NoAlias), Rows>>, <<>> >>}

Plain == Select(<<Rows>>, <<>>, None)

MCStatements ==
  {[form |-> "unparsable"], [form |-> "other"]}
  \cup {Select(l[1], l[2], w) : l \in Lists, w \in Wheres}
  \cup {ByTitle} \cup {Select(l, <<>>, None) : l \in Unsupportable}
  \cup {Select(<<Rows>>, <<>>, w) : w \in Inexact}
  \cup {Select(<<Rows>>, <<>>, w) : w \in BadWheres}
  \cup {Select(l[1], l[2], None) : l \in BadLists}
  \cup {[Plain EXCEPT !.clauses = {"limit"}], [Plain EXCEPT !.nodes = {"subquery"}],
        [Plain EXCEPT !.group_modified = TRUE], [Plain EXCEPT !.tables = <<>>],
        [Plain EXCEPT !.tables[1].name = "salaries"],
        [Plain EXCEPT !.tables[1].qualified = TRUE], [Plain EXCEPT !.tables[1].aliased = TRUE],
        [Plain EXCEPT !.tables[1].modified = TRUE]}

RECURSIVE PartsOf(_)
PartsOf(w) ==
  CASE w.kind = "paren" -> {w} \cup PartsOf(w.this)
    [] w.kind \in {"and", "or"} -> {w} \cup PartsOf(w.left) \cup PartsOf(w.right)
    [] OTHER -> {w}

MCTrees == UNION {PartsOf(w) : w \in Wheres \cup Inexact \cup BadWheres}

RECURSIVE SizeOf(_)
SizeOf(w) ==
  CASE w.kind = "paren" -> 1 + SizeOf(w.this)
    [] w.kind \in {"and", "or"} -> 1 + SizeOf(w.left) + SizeOf(w.right)
    [] OTHER -> 1

MCSize == [w \in MCTrees |-> SizeOf(w)]

\* `long` is for a name that makes an alias too long.
MCNames == {"region", "active", "tenure", "salary", "bonus", "long", "subject_token", "n",
            "job title", "net pay", "avg_net pay",
            "row_count", "avg_salary", "avg_bonus", "avg_long", "employees", "salaries"}
MCLowerCase ==
  [name \in MCNames |-> name] @@ [Region |-> "region", REGION |-> "region", Salary |-> "salary",
                                  EMPLOYEES |-> "employees"]

Granting(c, f) == [column |-> c, functions |-> {f}]
MCMetrics == [salary |-> Granting("salary", "avg"), rows |-> Granting("*", "count"),
              bonus |-> Granting("salary", "avg"), long |-> Granting("long", "avg")]
             @@ ("net pay" :> Granting("net pay", "avg"))
MCSignificantDigits == <<1>>

Subject(i, r, a, t) ==
  [subject_token |-> i, region |-> r, active |-> a, tenure |-> t, salary |-> i, bonus |-> i,
   long |-> i] @@ ("job title" :> r) @@ ("net pay" :> i)
MCTables == {{Subject(1, 1, 1, 1), Subject(2, 1, 1, 2), Subject(3, 1, 0, 1), Subject(4, 2, 0, 1),
              Subject(5, 2, 0, 2), Subject(6, 2, 8, 2), Subject(7, 3, 9, 2), Subject(8, 3, 9, 2)}}

\* The plans of the statements that are not refused.
MCPlans == {PlanFor(1, s) : s \in {t \in MCStatements : Objection("analyst", t) = Ok}}
=============================================================================
