------------------------------ MODULE CovSummary ------------------------------
(***************************************************************************)
(* scripts/report_lib/util.py: the coverage summary of the regression's    *)
(* report.  A line of a coverage report has the columns its text           *)
(* announces (a header's, <<metric, type>>), whether the word "name" is in *)
(* it, and its words: a module and a cell for each column, Raise for a     *)
(* cell with no number, Return(<<covered, total>>) or Return(<<average>>). *)
(* A percentage is a pair of numerator and denominator.                    *)
(***************************************************************************)
EXTENDS PyResult

Header(columns) == [name |-> TRUE, columns |-> columns, words |-> <<>>]
Separator == [name |-> FALSE, columns |-> <<>>, words |-> <<>>]
\* A row; its module may have "name" in it.
Row(name, module, cells) == [name |-> name, columns |-> <<>>, words |-> <<module>> \o cells]
\* A report of one table: rows are <<module, cells>>, none with "name" in it.
Table(columns, rows) ==
  <<Header(columns), Separator>> \o [i \in DOMAIN rows |-> Row(FALSE, rows[i][1], rows[i][2])]

\* What a table is: a column once, a row with any number of cells.
IsTable(columns, rows) ==
  /\ columns \in Seq({columns[i][1] : i \in DOMAIN columns} \X {"covered", "average"})
  /\ \A i, j \in DOMAIN columns : columns[i] = columns[j] => i = j
  /\ rows \in Seq(Range(rows))
  /\ \A i \in DOMAIN rows : rows[i][2] \in Seq(Range(rows[i][2]))

\* Mutant: the header's columns start with the module's own.
Labelled_OffByOne(words, metric_info) ==
  [m \in {metric_info[i] : i \in {j \in DOMAIN metric_info :
             /\ j \in DOMAIN words /\ j > 1 /\ ~Raised(words[j])}} |->
     Value(words[CHOOSE j \in 2..Len(words) : metric_info[j] = m])]

\* The dictionary of one row: the cells that have a number, by metric and type.
Labelled(words, metric_info) ==
  LET cells == {i \in 1..(Len(words) - 1) : ~Raised(words[i + 1])}
      At(m) == {i \in cells : metric_info[i] = m}
  IN  [m \in {metric_info[i] : i \in cells} |->
         Value(words[1 + CHOOSE i \in At(m) : \A j \in At(m) : j <= i])]

\* Every line with "name" in it adds its columns, and moves the start of the rows
\* two lines below it; a row with more cells than columns ends the program.  The
\* dictionary has its modules in the order of their first rows, with their last cells.
parse_xcelium_cov_report(lines) ==
  LET named == {i \in DOMAIN lines : lines[i].name}
      metric_info == FlattenSeq([i \in DOMAIN lines |-> lines[i].columns])
      start == 2 + CHOOSE i \in named : \A j \in named : j <= i
      rows == {i \in start..Len(lines) : lines[i].words # <<>>}
      Module(i) == lines[i].words[1]
      added == Keep([i \in DOMAIN lines |-> i],
                    {i \in rows : \A j \in rows : Module(j) = Module(i) => i <= j})
      Latest(module) == CHOOSE i \in rows : /\ Module(i) = module
                                          /\ \A j \in rows : Module(j) = module => j <= i
  IN  IF named = {} THEN Raise
      ELSE IF \E i \in rows : Len(lines[i].words) - 1 > Len(metric_info) THEN Raise
      ELSE Return([modules |-> [n \in DOMAIN added |-> Module(added[n])],
                   of |-> [module \in {Module(i) : i \in rows} |->
                             Labelled(lines[Latest(module)].words, metric_info)]])

IBEX_COVERAGE_METRICS == {"block", "branch", "statement", "expression", "toggle", "fsm", "assertion"}
COVERGROUP_IGNORE == {"push_pull_agent_pkg"}

Covered(metric) == <<metric, "covered">>
CovergroupAverage == <<"covergroup", "average">>

\* The covergroup report: a module and its average.
CovergroupTable(cg) ==
  Table(<<CovergroupAverage>>, [i \in DOMAIN cg |-> <<cg[i][1], <<Return(<<cg[i][2]>>)>> >>])

Total(numbers) == FoldLeft(LAMBDA sum, x : sum + x, 0, numbers)

\* (covergroup total / 100) / modules, or Raise for None.
calc_cg_average(cg_report_dict) ==
  LET metric_data == cg_report_dict.of
      counted == Keep(cg_report_dict.modules,
                      {m \in DOMAIN metric_data \ COVERGROUP_IGNORE :
                         CovergroupAverage \in DOMAIN metric_data[m]})
  IN  IF counted = <<>> THEN Raise
      ELSE Return(<<Total([i \in DOMAIN counted |-> metric_data[counted[i]][CovergroupAverage][1]]),
                    100 * Len(counted)>>)

\* create_cov_summary_dict with add_cov_to_summary, which gives None (Raise here) when
\* the metadata name no report; a metric with nothing to cover is a division by zero,
\* and ends the program.
create_cov_summary_dict(cov_report_log, cov_report, cg_report) ==
  LET cov == parse_xcelium_cov_report(cov_report)
      cg == parse_xcelium_cov_report(cg_report)
      top == IF "ibex_top" \in DOMAIN Value(cov).of THEN Value(cov).of["ibex_top"] ELSE <<>>
      metrics == {m \in IBEX_COVERAGE_METRICS : Covered(m) \in DOMAIN top}
  IN  IF ~cov_report_log THEN Return(Raise)
      ELSE IF Raised(cov) \/ Raised(cg) THEN Raise
      ELSE IF \E m \in metrics : top[Covered(m)][2] = 0 THEN Raise
      ELSE Return([metrics |-> [m \in metrics |-> top[Covered(m)]],
                   covergroup |-> calc_cg_average(Value(cg))])
=============================================================================
