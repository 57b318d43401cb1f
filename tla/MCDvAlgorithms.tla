---------------------------- MODULE MCDvAlgorithms ----------------------------
EXTENDS DvAlgorithms

\* Sequences over S of at most n elements.
UpTo(S, n) == UNION {[1..k -> S] : k \in 0..n}

\* A well-formed configuration, and what is varied in it: the fields the code
\* treats apart, with values of the right and of the wrong types, and the keys.
Base == [f \in known_keys |->
           LET i == CHOOSE j \in DOMAIN known_fields : known_fields[j][1] = f
           IN  IF known_fields[i][2] = "str" THEN <<"str", 0>> ELSE <<"int", 0>>]

Varied == {[Base EXCEPT !["RV32E"] = e, !["RV32M"] = m, !["RV32B"] = b, !["PMPNumRegions"] = p] :
             e \in {<<"bool", 0>>, <<"bool", 1>>, <<"int", 1>>, <<"int", 2>>, <<"str", 0>>},
             m \in {<<"str", 0>>, <<"str", 1>>, <<"int", 1>>},
             b \in {<<"str", n>> : n \in 0..4},
             p \in {<<"int", 4>>, <<"bool", 1>>, <<"str", 0>>}}
WrongKeys == {[f \in known_keys \ {"ICache"} |-> Base[f]],
              [f \in known_keys \cup {"Cache"} |-> IF f = "Cache" THEN <<"int", 0>> ELSE Base[f]]}

MCFiles ==
  {[file |-> [small |-> y], name |-> n] : y \in Varied \cup WrongKeys, n \in {"small", "other"}}
  \cup {[file |-> [small |-> y, other |-> z], name |-> "small"] :
          y \in WrongKeys \cup {Base}, z \in WrongKeys \cup {Base}}

MCVcsVersions == (2020..2021) \X {3, 9, 12} \X (0..2) \X {0, 9, 10, 99}

Dots(n) == [form |-> "dots", nums |-> n]
Raw == [shorthand : {TRUE}, min_version : {Dots(<<4, 210>>)}]
       \cup [shorthand : {FALSE}, min_version : {Dots(<<4, 210>>)}, typed : BOOLEAN,
             as_needed : BOOLEAN,
             keys : {{"min_version"}, {"as_needed"}, {"min_version", "as_needed"},
                     {"min_version", "other"}}]
Printed == {Return(Dots(<<4, 210>>)), Return(Dots(<<4, 38, 1>>)), Return(Dots(<<5>>)),
            Return([form |-> "bad", nums |-> <<>>]), Raise}
Procs == {[returncode |-> 1, stdout |-> <<>>], [returncode |-> 0, stdout |-> <<>>]}
         \cup {[returncode |-> 0, stdout |-> <<p>>] : p \in Printed}
Verible == [shorthand |-> TRUE, min_version |-> [form |-> "verible", nums |-> <<0, 0, 808>>]]
MCRequirements ==
  {[file |-> << <<"verilator", r>>, <<"verible", Verible>> >>, named |-> n,
    installed |-> [verilator |-> p,
                   verible |-> [returncode |-> 0,
                                stdout |-> <<Return([form |-> "verible", nums |-> v])>>]]] :
     r \in Raw, n \in SUBSET {"verilator", "vivado"}, p \in Procs,
     v \in {<<0, 0, 807>>, <<0, 0, 900>>}}

\* Cores with and without PMP and SecureIbex, and a bitmanip value no ISA has.
Cores == {[Base EXCEPT !["PMPEnable"] = p, !["SecureIbex"] = s] :
            p \in {<<"int", 1>>, <<"bool", 0>>}, s \in {<<"int", 0>>, <<"bool", 1>>}}
Pmp == Return(<< <<"PMPEnable", {<<"int", 1>>}>> >>)
Either == Return(<< <<"SecureIbex", {<<"int", 0>>, <<"int", 1>>}>> >>)
A(n, p) == [test |-> "a", iterations |-> n, rtl_params |-> p]
MCRegressions ==
  {[args |-> [test |-> t, iterations |-> i, seed |-> s], cfg |-> c,
    riscvdv |-> <<A(n, p), [test |-> "b", iterations |-> 1, rtl_params |-> Raise]>>,
    directed |-> <<[test |-> "d", iterations |-> 1, rtl_params |-> Pmp]>>] :
     t \in {x \in SUBSET {"all", "all_riscvdv", "all_directed", "a", "d"} : Cardinality(x) \in 1..2},
     i \in {Raise, Return(Raise), Return(Return(0)), Return(Return(2))},
     s \in {Raise, Return(Raise), Return(Return(0))},
     c \in Cores, n \in {0, 2}, p \in {Raise, Pmp, Either}}

\* The rtl_params of a test are a mapping: a parameter is in it once.
Params == {q \in UpTo({"PMPEnable", "SecureIbex", "PMPenable"} \X
                        {{<<"int", 0>>}, {<<"int", 1>>}, {<<"int", 0>>, <<"int", 1>>}}, 2) :
             \A i, j \in DOMAIN q : q[i][1] = q[j][1] => i = j}
MCFilters ==
  {[cfg |-> c, test |-> A(1, p)] :
     c \in Cores,
     p \in {Raise} \cup {Return(q) : q \in Params}}

\* In a suite's directory: tests, one with both patterns in its name, and a file
\* that is not a test but matches a pattern.
SuiteFiles == {[stem |-> "x", ext |-> ".S", greps |-> {".S"}],
               [stem |-> "y", ext |-> ".c", greps |-> {".c"}],
               [stem |-> "zcS", ext |-> ".S", greps |-> {".S", ".c"}],
               [stem |-> "macroS", ext |-> ".h", greps |-> {".S"}],
               [stem |-> "Makefrag", ext |-> "", greps |-> {}]}
MCSuites ==
  {[add_tests |-> a,
    disk |-> [g \in {"rv32mi", "rv32ui", "rv32i_m/I", "outputs"} |->
                IF g = "rv32ui" THEN ui ELSE IF g = "outputs" THEN out ELSE <<>>]] :
     a \in (SUBSET {"riscv-tests", "riscv-arch-tests", "epmp-tests"}) \cup {{"all"}, {"epmp_tests"}},
     ui \in {f \in UpTo(SuiteFiles, 2) : IsInjective(f)},
     out \in UpTo({f \in SuiteFiles : ".c" \in f.greps}, 1)}

Lit == <<"lit", "x">>
Par(n) == <<"par", n>>
Texts == {<<>>, <<Lit>>, <<Par("user")>>, <<Lit, Par("env")>>}
MCCommands ==
  {[entry |-> [tool |-> "sim", cmd |-> cmd,
               opts |-> << <<"cov_opts", o1>>, <<"wave_opts", o2>> >>, env_var |-> << <<"env", e>> >>],
    enables |-> on, user |-> << <<"user", u>> >>] :
     cmd \in {<<c>> : c \in UpTo({Lit, Par("cov_opts"), Par("wave_opts"), Par("user"), Par("env"), Par("typo")}, 2)}
             \cup {<<>>} \cup {<<c, <<Lit, Par("cov_opts")>> >> : c \in Texts},
     o1 \in Texts, o2 \in Texts, e \in {Raise, Return(<<Lit>>), Return(<<Lit, Lit>>)},
     on \in SUBSET {"cov_opts", "wave_opts"}, u \in {<<Lit>>, <<Par("env")>>}}

Path(n, e, p) == [name |-> n, ext |-> e, pkg |-> p]
MCConversions ==
  {[paths |-> ps, defines_if |-> d, failing |-> f] :
     ps \in UpTo({Path("a", ".sv", FALSE), Path("p_pkg", ".sv", TRUE), Path("h", ".svh", FALSE),
                  Path("v", ".v", FALSE)}, 3),
     d \in {<<>>, << <<{"a"}, "ONLY_A">> >>},
     f \in SUBSET {Path("a", ".sv", FALSE), Path("p_pkg", ".sv", TRUE)}}

MCProofs ==
  {[asserts |-> as, step |-> s, props |-> p] :
     as \in {[i \in DOMAIN q |-> Introduced(i, q[i][1], q[i][2], q[i][3])] :
               q \in UpTo((0..2) \X {"x", "y"} \X BOOLEAN, 2)},
     s \in 0..2, p \in SUBSET {"x", "y"}}

MCPropertyLists ==
  {[i \in DOMAIN q |-> <<q[i], i>>] : q \in UpTo(UNION {[1..k -> {"a", "b"}] : k \in 1..3}, 3)}

Cells == {Raise, Return(<<1, 2>>), Return(<<0, 0>>), Return(<<2, 2>>)}
MCCovReports ==
  {[log |-> l, columns |-> c, rows |-> r, cg |-> << >>] : l \in BOOLEAN,
     c \in {<< <<"block", "covered">>, <<"overall", "average">> >>,
            << <<"toggle", "covered">>, <<"fsm", "covered">> >>,
            << <<"overall", "covered">>, <<"block", "covered">> >>},
     r \in UpTo({"ibex_top", "ibex_core"} \X UpTo(Cells, 2), 2)}
  \cup {[log |-> TRUE, columns |-> << <<"block", "covered">> >>, rows |-> r, cg |-> g] :
     r \in UpTo({"ibex_top"} \X UpTo(Cells, 2), 2),
     g \in {<< <<"m", x>>, <<n, y>> >> : x \in {0, 100}, y \in {50, 100},
                                        n \in {"n", "push_pull_agent_pkg"}}
           \cup {<< <<"push_pull_agent_pkg", 50>> >>}}

MCLogs == {[lines |-> l, trace |-> <<>>] : l \in UpTo(Lines, 3)}
          \cup {[lines |-> <<>>, trace |-> t] : t \in UpTo(TraceLines, 4)}
=============================================================================
