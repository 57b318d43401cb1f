----------------------------- MODULE DvAlgorithms -----------------------------
(***************************************************************************)
(* The pure functions of the verification scripts, each checked on bounded *)
(* inputs against a definition of what it is for.  The state is the input: *)
(* none at first, then one of the inputs of one of the functions.          *)
(***************************************************************************)
EXTENDS UvmLog, TestSelection, StepSelect, CovSummary, Integers

CONSTANTS
  Files,         \* [file, name]: configuration files and the name asked for
  VcsVersions,   \* <<year, month, sp, patch>>
  Requirements,  \* [file, named, installed]
  Regressions,   \* [args, cfg, riscvdv, directed]
  Filters,       \* [cfg, test]
  Suites,        \* [add_tests, disk]
  Commands,      \* [entry, enables, user]
  Conversions,   \* [paths, defines_if, failing]
  Proofs,        \* [asserts, step, props]
  PropertyLists, \* sequences of <<chunks, name>>
  CovReports,    \* [log, columns, rows, cg]
  Logs           \* [lines, trace]

\* A value in a yaml file: a bool is 0 or 1.
YamlValue == ({"bool"} \X {0, 1}) \cup ({"int", "str"} \X Int)

\* A testlist like the repository's two: a test is in it once, and names at most one
\* rtl_param, which a configuration has.
Testlist(list, cfg) ==
  /\ list \in Seq([test : {e.test : e \in Range(list)}, iterations : Nat,
                   rtl_params : {e.rtl_params : e \in Range(list)}])
  /\ \A i, j \in DOMAIN list : list[i].test = list[j].test => i = j
  /\ \A e \in Range(list) : ~Raised(e.rtl_params) =>
       LET first == Value(e.rtl_params)[1]
       IN  e.rtl_params = Return(<<first>>) /\ first[1] \in DOMAIN cfg

\* A number on the command line, when there is one.
Number(arg) == arg \notin {Raise, Return(Raise)} =>
                 LET n == Value(Value(arg)) IN arg = Return(Return(n)) /\ n \in Nat

\* The schema of the directed tests wants iterations; the core has an ISA.
Regression(r) ==
  /\ Testlist(r.riscvdv, r.cfg) /\ Testlist(r.directed, r.cfg)
  /\ \A e \in Range(r.directed) : e.iterations > 0
  /\ Number(r.args.seed) /\ Number(r.args.iterations)
  /\ r.cfg["RV32B"] \in DOMAIN bitmanip_mapping

\* What the inputs are: a configuration has yaml values, VCS has at most 99 service
\* packs and patches of one, the requirements are a yaml mapping (a tool is in it
\* once), the rtl_params of a test are a list, the test suites are like the vendored
\* ones, a command is of a tool and a caller of the repository, a list of files is a
\* sequence of paths, yosys numbers the assertions it writes, a property is in the list
\* once, a coverage report is a table (a covergroup is in its report once), and logs
\* have lines.
ASSUME InputAssumption ==
  /\ \A f \in Files : \A c \in DOMAIN f.file : \A k \in DOMAIN f.file[c] : f.file[c][k] \in YamlValue
  /\ VcsVersions \subseteq Nat \X Nat \X (0..99) \X (0..99)
  /\ \A r \in Requirements : /\ r.file \in Seq(Range(r.file))
                              /\ \A i, j \in DOMAIN r.file : r.file[i][1] = r.file[j][1] => i = j
  /\ \A r \in Regressions : Regression(r)
  /\ \A f \in Filters : ~Raised(f.test.rtl_params) =>
       LET params == Value(f.test.rtl_params)
       IN  f.test.rtl_params = Return(params) /\ params \in Seq(Range(params))
  /\ \A s \in Suites : Directories(s.disk)
  /\ \A c \in Commands : Command(c.entry, c.user)
  /\ \A c \in Conversions : c.paths \in Seq(Range(c.paths))
  /\ \A p \in Proofs : /\ p.asserts \in Seq([kind : {"assert"}, id : Nat, step : Nat,
                                             name : {a.name : a \in Range(p.asserts)}, cover : BOOLEAN])
                       /\ \A i, j \in DOMAIN p.asserts : p.asserts[i].id = p.asserts[j].id => i = j
                       /\ p.step \in Nat
  /\ \A l \in PropertyLists : PropertyList(l)
  /\ \A r \in CovReports : /\ IsTable(r.columns, r.rows)
                           /\ r.cg \in Seq(Range(r.cg))
                           /\ \A i, j \in DOMAIN r.cg : r.cg[i][1] = r.cg[j][1] => i = j
  /\ \A l \in Logs : l.lines \in Seq(Lines) /\ l.trace \in Seq(TraceLines)

Tools == INSTANCE ToolRequirements
Sv2v == INSTANCE Sv2vInPlace

VARIABLE in

Init == in = [kind |-> "none"]

Take(kind, Inputs) == /\ in.kind = "none"
                      /\ \E x \in Inputs : in' = [kind |-> kind, of |-> x]

Next == \/ Take("config", Files)
        \/ Take("vcs", VcsVersions \X VcsVersions)
        \/ Take("tools", Requirements)
        \/ Take("regression", Regressions)
        \/ Take("filter", Filters)
        \/ Take("suite", Suites)
        \/ Take("command", Commands)
        \/ Take("sv2v", Conversions)
        \/ Take("smt2", Proofs)
        \/ Take("tree", PropertyLists)
        \/ Take("coverage", CovReports)
        \/ Take("log", Logs)

Spec == Init /\ [][Next]_in

-----------------------------------------------------------------------------
\* A value of the right type for a field, and a file of such configurations that has
\* the one asked for.
Typed(type, v) == CASE type = "bool" -> v \in {"bool", "int"} \X {0, 1}
                    [] type = "int"  -> v[1] \in {"bool", "int"}
                    [] type = "str"  -> v[1] = "str"
WellFormed(file, name) ==
  /\ \A c \in DOMAIN file :
       /\ DOMAIN file[c] = known_keys
       /\ \A i \in DOMAIN known_fields : Typed(known_fields[i][2], file[c][known_fields[i][1]])
  /\ name \in DOMAIN file

\* ibex_config.py and ibex_cmd.py: exactly the well-formed files are read, and
\* then the options of a simulator's two stages together set every field of the
\* configuration, once, to the value FuseSoC is given for it.
OptionsComplete ==
  in.kind = "config" =>
    LET good == WellFormed(in.of.file, in.of.name)
        config == parse_config(in.of.name, in.of.file)
    IN  /\ Raised(config) <=> ~good
        /\ \A simulator \in DOMAIN SIM_CFGS :
             LET compile == get_x_opts(in.of.file, in.of.name, simulator, "compile")
                 sim == get_x_opts(in.of.file, in.of.name, simulator, "sim")
                 opts == Value(compile) \o Value(sim)
                 fusesoc == FusesocOpts(Value(config))
             IN  /\ good <=> ~Raised(compile) /\ ~Raised(sim)
                 /\ good => /\ Len(opts) = Len(known_fields)
                            /\ \A i \in DOMAIN fusesoc : \E j \in DOMAIN opts :
                                 /\ opts[j].fld = fusesoc[i].fld
                                 /\ Equal(opts[j].val, fusesoc[i].val)

\* ibex_cmd.get_isas_for_config: the ISA given to the instruction-set simulator is
\* the one the testbench builds from the parameters it was compiled with
\* (core_ibex_base_test.sv), for every configuration the tools accept.
IsaInSync ==
  in.kind = "config" =>
    LET config == parse_config(in.of.name, in.of.file)
        isas == get_isas_for_config(Value(config))
        opts == Value(get_x_opts(in.of.file, in.of.name, "xlm", "compile"))
        params == [f \in known_keys |-> (CHOOSE o \in Range(opts) : o.fld = f).val]
    IN  ~Raised(config) =>
          /\ Raised(isas) <=> params["RV32B"][2] \notin 0..3
          /\ ~Raised(isas) => /\ Value(isas).iss = get_isa_string(params)
                              /\ Value(isas).toolchain[3] <=> Value(isas).iss[3] # <<>>

\* One configuration of the core reaches the simulator, the toolchain, the
\* instruction-set simulator and the testbench (ibex_config.py, ibex_cmd.py).
ConfigConsistent == OptionsComplete /\ IsaInSync

\* check_tool_requirements.py, VcsToolReq: an installed VCS is accepted exactly when
\* it is not older than the required one, between two releases of one month or of
\* different years, with patches up to 99.
VcsOrdered ==
  in.kind = "vcs" =>
    LET req == in.of[1]
        found == in.of[2]
        Text(v) == [form |-> "vcs", nums |-> v]
        accepted == Tools!check([tool |-> "vcs", min_version |-> Text(req)],
                            [returncode |-> 0, stdout |-> <<Raise, Return([Text(found) EXCEPT !.form = "vcs_cruft"])>>])
    IN  req[1] # found[1] \/ req[2] = found[2] => (accepted <=> ~Tools!Older(found, req))

\* check_tool_requirements.py, main: the exit status is 0 exactly when every tool the
\* build cannot do without or names is in the file and recent enough.
ExitMeansUsable ==
  in.kind = "tools" =>
    (Tools!main(in.of.file, in.of.named, in.of.installed) = 0
       <=> Tools!Usable(in.of.file, in.of.named, in.of.installed))

\* check_tool_requirements.py accepts the tools that will do, by version and by need.
ToolsJudged == VcsOrdered /\ ExitMeansUsable

\* metadata.py, CREATE: when no test has more than one rtl_param (as in both
\* testlists of the repository), the tests created are those TEST names and the
\* core can run, each seed once; with none the regression is not created.  A TEST
\* that asks for the directed tests by "all" alone is the subject of AllMeansAll.
SelectionExact ==
  in.kind = "regression" /\ ("all" \in in.of.args.test => "all_directed" \in in.of.args.test) =>
    LET tds == create_metadata(in.of.args, in.of.cfg, in.of.riscvdv, in.of.directed)
        wanted == Wanted(in.of.args, in.of.cfg, in.of.riscvdv, in.of.directed)
        refused == \/ in.of.args.seed = Return(Raise)
                   \/ in.of.args.iterations = Return(Return(0))
    IN  /\ refused => Raised(tds)
        /\ ~refused => /\ Raised(tds) <=> wanted = {}
                       /\ ~Raised(tds) => /\ Range(Value(tds)) = wanted
                                          /\ Len(Value(tds)) = Cardinality(wanted)

\* metadata.py, get_tests_and_counts: 'Use the special name "all" to run all the
\* tests.'  A regression that is asked for all tests has them all.
AllMeansAll ==
  in.kind = "regression" /\ "all" \in in.of.args.test =>
    LET tds == create_metadata(in.of.args, in.of.cfg, in.of.riscvdv, in.of.directed)
    IN  ~Raised(tds) => Wanted(in.of.args, in.of.cfg, in.of.riscvdv, in.of.directed) \subseteq Range(Value(tds))

\* ibex_cmd.filter_tests_by_config, on any rtl_params: a test whose first parameter
\* excludes the core never runs, and one that the core can run is not lost (but an
\* empty rtl_params loses it).
FilterByFirst ==
  in.kind = "filter" =>
    LET kept == filter_tests_by_config(in.of.cfg, <<in.of.test>>)
        params == Value(in.of.test.rtl_params)
    IN  ~Raised(kept) =>
          /\ Value(kept) # <<>> => \/ Raised(in.of.test.rtl_params)
                                   \/ Allows(in.of.cfg, params[1])
          /\ Compatible(in.of.cfg, in.of.test) =>
               \/ Value(kept) # <<>>
               \/ in.of.test.rtl_params = Return(<<>>)

\* A regression runs the tests it is asked for and its core can run (metadata.py,
\* ibex_cmd.py).
SelectionRight == SelectionExact /\ FilterByFirst

\* gen_testlist.py and directed_test_schema.py: a generated list is read back exactly
\* when every file that was listed is a test of its suite; then every test gets its
\* own settings, and those of its configuration for the keys it does not give.
GeneratedListReads ==
  in.kind = "suite" =>
    LET yaml == gen_testlist(in.of.add_tests, in.of.disk)
        model == import_model(yaml, in.of.disk)
        tests == {yaml[i] : i \in {j \in DOMAIN yaml : IsTest(yaml[j])}}
        Config_(t) == CHOOSE c \in Range(Configs) : c.config = t.config
    IN  /\ ~Raised(model) <=> \A t \in tests : Exists(t.test_srcs, in.of.disk)
        /\ ~Raised(model) => \A t \in tests :
             LET data == directed_data(Value(model), t.test)
             IN  \A k \in DTest : data[k] = IF k \in DOMAIN t THEN t[k] ELSE Config_(t)[k]

\* The commands of the input's entry, what they mean, and whether every parameter of
\* theirs has a meaning.
CommandsDone == get_tool_cmds(<<in.of.entry>>, in.of.entry.tool, in.of.enables, in.of.user)
CommandsMeant ==
  [i \in DOMAIN in.of.entry.cmd |-> Meaning(in.of.entry.cmd[i], in.of.entry, in.of.enables, in.of.user)]
AllMeant == \A i \in DOMAIN CommandsMeant : Parameters(CommandsMeant[i]) = {}

\* riscvdv_interface.get_tool_cmds: the commands that are returned are what the templates
\* mean, none with a parameter without a meaning; and commands that mean something are
\* returned when the environment sets every variable of the entry.
CommandMeant ==
  in.kind = "command" =>
    /\ ~Raised(CommandsDone) => CommandsDone = Return(CommandsMeant) /\ AllMeant
    /\ /\ \A i \in DOMAIN in.of.entry.env_var : ~Raised(in.of.entry.env_var[i][2])
       /\ AllMeant
       => ~Raised(CommandsDone)

\* sv2v_in_place.py: a failed conversion leaves every file as it was; otherwise every
\* .sv file becomes the conversion of the original tree, whatever the order of the
\* list, the headers are emptied and nothing else is touched.
AllOrNothing ==
  in.kind = "sv2v" =>
    LET paths == in.of.paths
        disk == [p \in Range(paths) |-> <<"original", p>>]
        done == Sv2v!sv2v_in_place(disk, paths, <<"D">>, in.of.defines_if, in.of.failing)
    IN  IF \E p \in Range(paths) : Sv2v!IsSv(p) /\ p \in in.of.failing
        THEN done = [status |-> 1, disk |-> disk]
        ELSE /\ done.status = 0
             /\ \A p \in Range(paths) : done.disk[p] =
                  IF Sv2v!IsSv(p) THEN Sv2v!Converted(disk, paths, p, Sv2v!FileDefines(<<"D">>, in.of.defines_if, p))
                  ELSE IF Sv2v!IsSvh(p) THEN <<"empty">> ELSE disk[p]

\* smt2manip.py: the solver is left to prove the chosen properties of the step and
\* assumes exactly the properties of the earlier steps: never one it is proving, one
\* of a later step, or a cover property.
StepIsolated ==
  in.kind = "smt2" =>
    LET asserts == in.of.asserts
        mapped == smt2manip(Yosys(asserts), in.of.step, in.of.props)
        Ids(P(_)) == {asserts[i].id : i \in {j \in DOMAIN asserts : P(asserts[j])}}
        Chosen(a) == in.of.props = {} \/ a.name \in in.of.props
    IN  /\ ProvedIds(mapped) =
             Ids(LAMBDA a : a.step = in.of.step /\ ~a.cover /\ Chosen(a))
        /\ AssumedIds(mapped) = Ids(LAMBDA a : a.step < in.of.step /\ ~a.cover)

\* aig-manip select: the engine searches for a violation of the chosen properties of the
\* step (for a cover: for its being reached) and assumes exactly the properties of the
\* earlier steps: never one of its own step, of a later one, or a cover.
SelectIsolated ==
  in.kind = "smt2" =>
    LET asserts == in.of.asserts
        selected == select(asserts, in.of.step, in.of.props)
        Chosen(a) == in.of.props = {} \/ a.name \in in.of.props
    IN  /\ Range(selected.bads) =
             {<<a.id, a.cover>> : a \in {x \in Range(asserts) : x.step = in.of.step /\ Chosen(x)}}
        /\ Range(selected.constraints) =
             {<<a.id, TRUE>> : a \in {x \in Range(asserts) : x.step < in.of.step /\ ~x.cover}}

\* conductor.split_by_prefixes: every property is in the tree exactly once, so a
\* strategy for the tree proves them all.
TreeKeepsProperties ==
  in.kind = "tree" =>
    LET depth == Max({0} \cup {Len(in.of[i][1]) : i \in DOMAIN in.of})
        leaves == Leaves(split_by_prefixes(in.of), depth)
    IN  /\ Len(leaves) = Len(in.of)
        /\ Range(leaves) = {in.of[i][2] : i \in DOMAIN in.of}

\* What the engines are given (aig-manip), and the solver their results are compared
\* with (smt2manip.py), is not circular, and the tree of conductor.py the strategies are
\* built on is not incomplete.
ProofInputsSound == SelectIsolated /\ StepIsolated /\ TreeKeepsProperties

\* report_lib/util.py, on reports of one table: the summary has the cells of ibex_top's
\* last row under their columns' names, and the mean of the averages of the covergroups
\* that count; it is refused exactly when a row has a cell too many or a metric has
\* nothing to cover.  When no report was written there is none.
CoverageByColumn ==
  in.kind = "coverage" =>
    LET columns == in.of.columns
        rows == in.of.rows
        summary == create_cov_summary_dict(in.of.log, Table(columns, rows), CovergroupTable(in.of.cg))
        top == {i \in DOMAIN rows : rows[i][1] = "ibex_top"}
        last == IF top = {} THEN <<>> ELSE rows[CHOOSE i \in top : \A j \in top : j <= i][2]
        shown == {i \in DOMAIN last : /\ columns[i] \in {Covered(m) : m \in IBEX_COVERAGE_METRICS}
                                      /\ ~Raised(last[i])}
        counted == Keep(in.of.cg, {c \in Range(in.of.cg) : c[1] \notin COVERGROUP_IGNORE})
    IN  IF ~in.of.log THEN summary = Return(Raise)
        ELSE /\ Raised(summary) <=> \/ \E i \in DOMAIN rows : Len(rows[i][2]) > Len(columns)
                                    \/ \E i \in shown : Value(last[i])[2] = 0
             /\ ~Raised(summary) =>
                  /\ DOMAIN Value(summary).metrics = {columns[i][1] : i \in shown}
                  /\ \A i \in shown : Value(summary).metrics[columns[i][1]] = Value(last[i])
                  /\ Value(summary).covergroup =
                       IF counted = <<>> THEN Raise
                       ELSE Return(<<Total([i \in DOMAIN counted |-> counted[i][2]]), 100 * Len(counted)>>)

\* ibex_log_to_trace_csv.py: a log passes exactly when it has a PASSED, no FAILED and
\* no error before its first result; a trace is usable exactly when an instruction
\* retired before the first ecall; a log with an error is never left without a
\* failure mode.
LogVerdictDeserved ==
  in.kind = "log" =>
    LET verdict == check_ibex_uvm_log(in.of.lines)
    IN  /\ verdict.passed <=> Deserved(in.of.lines)
        /\ TraceUnusable(in.of.trace) <=> ~Executed(in.of.trace)
        /\ (/\ \E n \in DOMAIN in.of.lines : "error" \in in.of.lines[n] /\ ~Deserved(in.of.lines)
            /\ Result(in.of.lines) = {}) => verdict.failure_mode \in {"TIMEOUT", "LOG_ERROR"}
=============================================================================
