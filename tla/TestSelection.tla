---------------------------- MODULE TestSelection ----------------------------
(***************************************************************************)
(* Which tests a regression runs: the arguments and the two testlists read *)
(* by scripts/metadata.py, the generated list of directed tests            *)
(* (directed_tests/gen_testlist.py and scripts/directed_test_schema.py)    *)
(* and the filter of scripts/ibex_cmd.py.  A test is a record of its name, *)
(* its iterations and its rtl_params: Raise when the key is absent, or a   *)
(* sequence of <<parameter, set of values>> in the order of the file.      *)
(***************************************************************************)
EXTENDS IbexConfig

\* Every parameter of the test's rtl_params allows the configuration's value.
Allows(cfg, p) == \E v \in p[2] : Equal(cfg[p[1]], v)

\* One test of filter_tests_by_config: what it appends, once for every parameter
\* up to the first that does not allow the configuration; an unknown parameter
\* reached before that ends the program.
Accepted(cfg, test) ==
  LET params == Value(test.rtl_params)
      bad == {i \in DOMAIN params : params[i][1] \notin DOMAIN cfg \/ ~Allows(cfg, params[i])}
      stop == IF bad = {} THEN Len(params) + 1 ELSE Min(bad)
  IN  IF Raised(test.rtl_params) THEN Return(<<test>>)
      ELSE IF bad # {} /\ params[stop][1] \notin DOMAIN cfg THEN Raise
      ELSE Return([i \in 1..(stop - 1) |-> test])

\* Mutant: a parameter that does not allow the configuration is passed over.
filter_tests_by_config_Any(cfg, test_list) ==
  Return(Keep(test_list, {t \in Range(test_list) : Raised(t.rtl_params) \/ Value(t.rtl_params) # <<>>}))

filter_tests_by_config(cfg, test_list) ==
  LET kept == [i \in DOMAIN test_list |-> Accepted(cfg, test_list[i])]
  IN  IF \E i \in DOMAIN kept : Raised(kept[i]) THEN Raise
      ELSE Return(FlattenSeq([i \in DOMAIN kept |-> Value(kept[i])]))

-----------------------------------------------------------------------------
(* The arguments: TEST, ITERATIONS and SEED of the make command, each Raise *)
(* when it is not given and Return(Raise) when it is empty.                 *)

\* arg_list_initializer; an empty SEED is no int.
arg_list_initializer(args) ==
  IF args.seed = Return(Raise) THEN Raise
  ELSE Return([test |-> args.test,
               seed |-> IF Raised(args.seed) THEN 1 ELSE Value(Value(args.seed)),
               iterations |-> IF Raised(args.iterations) THEN Raise ELSE Value(args.iterations)])

\* _get_ibex_metadata (the seeds enumerated are not negative).
BadArguments(md) == ~Raised(md.iterations) /\ Value(md.iterations) <= 0

\* Both lists leave out the tests of no iterations.
Iterated(list) == Keep(list, {e \in Range(list) : e.iterations > 0})

\* riscv-dv's process_regression_list
process_regression_list(testlist, all, test, iterations) ==
  LET Override(e) == IF iterations > 0 /\ e.iterations > 0
                     THEN [e EXCEPT !.iterations = iterations] ELSE e
      matched == Keep(testlist, {e \in Range(testlist) : all \/ e.test \in test})
  IN  Iterated([i \in DOMAIN matched |-> Override(matched[i])])

process_riscvdv_testlist(md, testlist) ==
  process_regression_list(testlist, md.test \cap {"all_riscvdv", "all"} # {}, md.test,
                          IF Raised(md.iterations) THEN 0 ELSE Value(md.iterations))

process_directed_testlist(md, testlist) ==
  LET matched == Keep(testlist, {e \in Range(testlist) : md.test \cap {"all_directed", e.test} # {}})
      Override(e) == IF Raised(md.iterations) THEN e
                     ELSE [e EXCEPT !.iterations = Value(md.iterations)]
  IN  Iterated([i \in DOMAIN matched |-> Override(matched[i])])

\* A sequence of <<test, count, type>>.
get_tests_and_counts(md, cfg, riscvdv, directed) ==
  LET rm == process_riscvdv_testlist(md, riscvdv)
      dm == process_directed_testlist(md, directed)
      rf == filter_tests_by_config(cfg, rm)
      df == filter_tests_by_config(cfg, dm)
      Counted(list, type) == [i \in DOMAIN list |-> <<list[i].test, list[i].iterations, type>>]
  IN  IF (rm = <<>> /\ dm = <<>>) \/ Raised(rf) \/ Raised(df) THEN Raise
      ELSE Return(Counted(Value(rf), "RISCVDV") \o Counted(Value(df), "DIRECTED"))

\* The tests created, <<test, seed, type>>, one for every seed of each count.
tds_list(seed, tests_and_counts) ==
  FlattenSeq([i \in DOMAIN tests_and_counts |->
                [k \in 1..tests_and_counts[i][2] |->
                   <<tests_and_counts[i][1], seed + k - 1, tests_and_counts[i][3]>>]])

create_metadata(args, cfg, riscvdv, directed) ==
  LET md == arg_list_initializer(args)
      counts == get_tests_and_counts(Value(md), cfg, riscvdv, directed)
  IN  IF Raised(md) THEN Raise
      ELSE IF BadArguments(Value(md)) \/ Raised(get_isas_for_config(cfg)) THEN Raise
      ELSE IF Raised(counts) \/ counts = Return(<<>>) THEN Raise
      ELSE Return(tds_list(Value(md).seed, Value(counts)))

-----------------------------------------------------------------------------
(* What the regression is asked for. *)

Compatible(cfg, t) ==
  Raised(t.rtl_params) \/ \A i \in DOMAIN Value(t.rtl_params) :
                             /\ Value(t.rtl_params)[i][1] \in DOMAIN cfg
                             /\ Allows(cfg, Value(t.rtl_params)[i])

\* The tests TEST names, each for its count of seeds, that the core can run: "all"
\* names every test, of both lists.
Wanted(args, cfg, riscvdv, directed) ==
  LET first == IF Raised(args.seed) THEN 1 ELSE Value(Value(args.seed))
      Count(e) == IF Raised(args.iterations) \/ args.iterations = Return(Raise)
                  THEN e.iterations ELSE Value(Value(args.iterations))
      From(list, any, type) ==
        UNION {{<<list[i].test, s, type>> : s \in first..(first + Count(list[i]) - 1)} :
                 i \in {j \in DOMAIN list : /\ list[j].iterations > 0
                                            /\ Compatible(cfg, list[j])
                                            /\ args.test \cap (any \cup {list[j].test}) # {}}}
  IN  From(riscvdv, {"all", "all_riscvdv"}, "RISCVDV") \cup From(directed, {"all", "all_directed"}, "DIRECTED")

-----------------------------------------------------------------------------
(* The list of directed tests: gen_testlist.py writes it and                *)
(* directed_test_schema.py reads and validates it.  An entry is a function  *)
(* from the keys it gives to their values; a file of a test suite is its    *)
(* stem, its extension and which of the two egrep patterns its name matches *)
(* (".S" and ".c", the dot being any character).                            *)

\* add_configs_and_handwritten_directed_tests: the three configurations, and of
\* the tests one that takes everything from its configuration and two that
\* redefine a key.
Configuration(name, ld_script) ==
  [config |-> name, ld_script |-> ld_script, includes |-> "dot", gcc_opts |-> "own",
   rtl_test |-> "base", rtl_params |-> "PMPEnable", timeout_s |-> 300]

Configs == << Configuration("riscv-tests", "link.ld"),
              Configuration("riscv-arch-tests", "link.ld"),
              Configuration("epmp-tests", "mseccfg_test.ld") >>

Test(name, srcs, config) ==
  [test |-> name, desc |-> "text", iterations |-> 1, test_srcs |-> srcs, config |-> config]

With(test, key, value) == [k \in DOMAIN test \cup {key} |-> IF k = key THEN value ELSE test[k]]

Handwritten ==
  << Test("empty", <<"own", "empty", ".S">>, "riscv-tests"),
     With(Test("mcounteren_lock_test", <<"own", "lock", ".S">>, "riscv-tests"), "rtl_test", "lock"),
     With(Test("pmp_mseccfg_test", <<"own", "mseccfg", ".S">>, "riscv-tests"), "gcc_opts", "PMP_REGION") >>

\* append_directed_testlist: ls | egrep, and the name up to the extension.
append_directed_testlist(tests, disk, test_suite_name, extension) ==
  LET Listed(group) == Keep(disk[group], {file \in Range(disk[group]) : extension \in file.greps})
      Entries(group) == [i \in DOMAIN Listed(group) |->
                           Test(Listed(group)[i].stem,
                                <<group, Listed(group)[i].stem, extension>>, test_suite_name)]
  IN  FlattenSeq([g \in DOMAIN tests |-> Entries(tests[g])])

\* _main, for a set of names given to --add_tests.
gen_testlist(add_tests, disk) ==
  LET Suite(name, tests, extension) ==
        IF name \in add_tests \/ add_tests = {"all"}
        THEN append_directed_testlist(tests, disk, name, extension) ELSE <<>>
  IN  Configs \o Handwritten
      \o Suite("riscv-tests", <<"rv32mi", "rv32ui">>, ".S")
      \o Suite("riscv-arch-tests", <<"rv32i_m/I">>, ".S")
      \o Suite("epmp-tests", <<"outputs">>, ".c")

-----------------------------------------------------------------------------
(* directed_test_schema.py *)

IsTest(entry) == "test" \in DOMAIN entry

DConfig == {"config", "rtl_test", "rtl_params", "timeout_s", "gcc_opts", "ld_script", "includes"}
DTest == DConfig \cup {"test", "desc", "test_srcs", "iterations"}

\* validate_path_exists, for the sources of the suites; what the configurations
\* and the handwritten tests name is part of the repository.
Exists(srcs, disk) ==
  srcs[1] \in DOMAIN disk =>
    \E i \in DOMAIN disk[srcs[1]] : /\ disk[srcs[1]][i].stem = srcs[2]
                                    /\ disk[srcs[1]][i].ext = srcs[3]

\* DirectedTestsYaml and its validators.
Valid(configs, tests, disk) ==
  /\ \A i \in DOMAIN configs : DConfig \subseteq DOMAIN configs[i]
  /\ \A i \in DOMAIN tests : /\ DTest \subseteq DOMAIN tests[i]
                             /\ tests[i].iterations > 0 /\ tests[i].timeout_s > 0
                             /\ \E c \in DOMAIN configs : configs[c].config = tests[i].config
                             /\ Exists(tests[i].test_srcs, disk)

\* Mutant: the configuration has priority.
Joined_ConfigFirst(config, test) ==
  [k \in DOMAIN config \cup DOMAIN test |-> IF k \in DOMAIN config THEN config[k] ELSE test[k]]

\* {**t_config, **t}
Joined(config, test) ==
  [k \in DOMAIN config \cup DOMAIN test |-> IF k \in DOMAIN test THEN test[k] ELSE config[k]]

\* The tests joined with their configurations; an unknown configuration or a
\* validation error ends the program.
import_model(yaml_data, disk) ==
  LET configs == Keep(yaml_data, {e \in Range(yaml_data) : ~IsTest(e)})
      tests == Keep(yaml_data, {e \in Range(yaml_data) : IsTest(e)})
      Matching(t) == Keep(configs, {c \in Range(configs) : c.config = t.config})
      joined == [i \in DOMAIN tests |-> Joined(Head(Matching(tests[i])), tests[i])]
  IN  IF \E i \in DOMAIN tests : Matching(tests[i]) = <<>> THEN Raise
      ELSE IF ~Valid(configs, joined, disk) THEN Raise
      ELSE Return(joined)

\* What metadata.py stores with a test: the first entry of its name.
directed_data(model, name) == Head(Keep(model, {e \in Range(model) : e.test = name}))

\* Directories like the vendored ones: a name is of one test, in one of them, and not
\* of a handwritten one.
Directories(disk) ==
  LET Extension(group) == IF group = "outputs" THEN ".c" ELSE ".S"
      groups == {"rv32mi", "rv32ui", "rv32i_m/I", "outputs"}
      Stems(group) == {file.stem : file \in {f \in Range(disk[group]) : f.ext = Extension(group)}}
  IN  /\ groups \subseteq DOMAIN disk
      /\ \A g \in groups : disk[g] \in Seq(Range(disk[g]))
      /\ \A g, h \in groups : g # h => Stems(g) \cap Stems(h) = {}
      /\ \A g \in groups : \A i \in DOMAIN Handwritten : Handwritten[i].test \notin Stems(g)
=============================================================================
