------------------------------ MODULE IbexConfig ------------------------------
(***************************************************************************)
(* util/ibex_config.py, which reads a configuration of the core and turns  *)
(* it into simulator options, and the part of scripts/ibex_cmd.py that     *)
(* asks for them and derives the ISA strings; then the commands the tools  *)
(* are run with.  A yaml value is a pair of its Python type and a number;  *)
(* the number of a string stands for its text.  The spelling of an option  *)
(* is left out: it sets a parameter or a define to a value.                *)
(***************************************************************************)
EXTENDS PyResult

known_fields ==
  << <<"RV32E", "bool">>, <<"RV32M", "str">>, <<"RV32B", "str">>, <<"RV32ZC", "str">>,
     <<"RegFile", "str">>, <<"BranchTargetALU", "bool">>, <<"WritebackStage", "bool">>,
     <<"ICache", "bool">>, <<"ICacheECC", "bool">>, <<"ICacheScramble", "bool">>,
     <<"BranchPredictor", "bool">>, <<"DbgTriggerEn", "bool">>, <<"SecureIbex", "bool">>,
     <<"PMPEnable", "bool">>, <<"PMPGranularity", "int">>, <<"PMPNumRegions", "int">>,
     <<"MHPMCounterNum", "int">>, <<"MHPMCounterWidth", "int">> >>

known_keys == {known_fields[i][1] : i \in DOMAIN known_fields}

\* Python's isinstance: True and False are ints too.
isinstance(val, typ) == val[1] = typ \/ (typ = "int" /\ val[1] = "bool")

\* Python's ==: 1 is True.
Equal(u, v) == /\ (u[1] = "str") <=> (v[1] = "str")
               /\ u[2] = v[2]

\* read_bool, read_int and read_str return, and do not raise.
read_bool(val) == isinstance(val, "bool") \/ (isinstance(val, "int") /\ val[2] \in 0..1)
read_int(val) == isinstance(val, "int")
read_str(val) == isinstance(val, "str")

Readable(typ, val) ==
  CASE typ = "bool" -> read_bool(val)
    [] typ = "int"  -> read_int(val)
    [] typ = "str"  -> read_str(val)

\* Config.__init__; an object that is not a dict is refused like an empty one.
Config(yml) ==
  IF /\ DOMAIN yml = known_keys
     /\ \A i \in DOMAIN known_fields : Readable(known_fields[i][2], yml[known_fields[i][1]])
  THEN Return(yml) ELSE Raise

\* Configs.__init__ reads every configuration of the file before one is chosen.
parse_config(config_name, file) ==
  IF \/ \E c \in DOMAIN file : Raised(Config(file[c]))
     \/ config_name \notin DOMAIN file
  THEN Raise ELSE Config(file[config_name])

-----------------------------------------------------------------------------
(* The output formats. *)

\* int(val), for a parameter.
AsInt(val) == <<"int", val[2]>>

\* Which of the two functions of a SimOpts emit anything.
outputters ==
  [o \in ({"vcs", "xlm", "dsim"} \X {""}) \cup ({"riviera", "questa"} \X {"sim", "compile"}) |->
     CASE o[2] = ""        -> {"param", "define"}
       [] o[2] = "sim"     -> {"param"}
       [] o[2] = "compile" -> {"define"}]

\* What sets a field: strings are defines, the others parameters.
Option(config, f) ==
  IF f[2] = "str" THEN [set |-> "define", fld |-> f[1], val |-> config[f[1]]]
                  ELSE [set |-> "param", fld |-> f[1], val |-> AsInt(config[f[1]])]

\* SimOpts.output
SimOpts(config, sets) ==
  LET all == [i \in DOMAIN known_fields |-> Option(config, known_fields[i])]
  IN  Keep(all, {o \in Range(all) : o.set \in sets})

\* FusesocOpts.output: the values as the file has them.
FusesocOpts(config) ==
  [i \in DOMAIN known_fields |-> [fld |-> known_fields[i][1], val |-> config[known_fields[i][1]]]]

\* QueryOpts.output: Raise stands for "not found in config".
QueryOpts(config, fields) ==
  [i \in DOMAIN fields |-> IF fields[i] \in DOMAIN config THEN Return(config[fields[i]]) ELSE Raise]

-----------------------------------------------------------------------------
(* ibex_cmd.py *)

\* (needs_compile_opts, needs_sim_opts)
SIM_CFGS == [vcs |-> {"compile"}, riviera |-> {"compile", "sim"}, questa |-> {"compile", "sim"},
             xlm |-> {"compile"}, dsim |-> {"compile"}]

output_type(simulator, stage) ==
  IF SIM_CFGS[simulator] = {"compile", "sim"} THEN <<simulator, stage>> ELSE <<simulator, "">>

\* _get_x_opts and the ibex_config.py process it runs.
get_x_opts(file, config_name, simulator, stage) ==
  LET config == parse_config(config_name, file)
  IN  IF stage \notin SIM_CFGS[simulator] THEN Return(<<>>)
      ELSE IF \/ output_type(simulator, stage) \notin DOMAIN outputters
              \/ Raised(config)
      THEN Raise
      ELSE Return(SimOpts(Value(config), outputters[output_type(simulator, stage)]))

RV32MNone == <<"str", 0>>
RV32BNone == <<"str", 0>>
RV32BBalanced == <<"str", 1>>
RV32BOTEarlGrey == <<"str", 2>>
RV32BFull == <<"str", 3>>

bitmanip_mapping ==
  [v \in {RV32BNone, RV32BBalanced, RV32BOTEarlGrey, RV32BFull} |->
     CASE v = RV32BNone -> <<>>
       [] v = RV32BBalanced -> <<"Zba", "Zbb", "Zbs", "XZbf", "XZbt">>
       [] v = RV32BOTEarlGrey -> <<"Zba", "Zbb", "Zbc", "Zbs", "XZbf", "XZbp", "XZbr", "XZbt">>
       [] v = RV32BFull -> <<"Zba", "Zbb", "Zbc", "Zbs", "XZbe", "XZbf", "XZbp", "XZbr", "XZbt">>]

\* Mutant: every configuration is taken to have the multiplier.
get_isas_for_config_NoMul(cfg) ==
  IF cfg["RV32B"] \notin DOMAIN bitmanip_mapping THEN Raise
  ELSE Return([toolchain |-> <<cfg["RV32E"][2] # 0, TRUE, cfg["RV32B"] # RV32BNone>>,
               iss |-> <<cfg["RV32E"][2] # 0, TRUE, bitmanip_mapping[cfg["RV32B"]]>>])

\* An ISA string: e or i, with m or without, and its extensions (for the
\* toolchain, with b or without).
get_isas_for_config(cfg) ==
  LET e == cfg["RV32E"][2] # 0
      has_multiplier == cfg["RV32M"] # RV32MNone
  IN  IF cfg["RV32B"] \notin DOMAIN bitmanip_mapping THEN Raise
      ELSE Return([toolchain |-> <<e, has_multiplier, cfg["RV32B"] # RV32BNone>>,
                   iss |-> <<e, has_multiplier, bitmanip_mapping[cfg["RV32B"]]>>])

\* get_isa_string of the testbench: the ISA it asks its cosimulator for, from
\* the parameters the simulator was given.
get_isa_string(params) ==
  << params["RV32E"][2] # 0,
     params["RV32M"] # RV32MNone,
     CASE params["RV32B"] = RV32BNone -> <<>>
       [] params["RV32B"] = RV32BBalanced -> <<"Zba", "Zbb", "Zbs", "XZbf", "XZbt">>
       [] params["RV32B"] = RV32BOTEarlGrey ->
            <<"Zba", "Zbb", "Zbc", "Zbs", "XZbf", "XZbp", "XZbr", "XZbt">>
       [] params["RV32B"] = RV32BFull ->
            <<"Zba", "Zbb", "Zbc", "Zbs", "XZbe", "XZbf", "XZbp", "XZbr", "XZbt">> >>

-----------------------------------------------------------------------------
(* The commands: get_tool_cmds of scripts/riscvdv_interface.py with the     *)
(* substitutions of scripts/scripts_lib.py.  A command text is a sequence   *)
(* of atoms: <<"lit", x>> for literal text and <<"par", name>> for <name>.  *)

CommandText == Seq({"lit", "par"} \X STRING)

\* Every <name> in the text becomes the replacement.
subst_opt(string, name, replacement) ==
  FlattenSeq([i \in DOMAIN string |->
                IF string[i] = <<"par", name>> THEN replacement ELSE <<string[i]>>])

\* var_dict: a sequence of <<key, text>>, in the dictionary's order.
subst_dict(string, var_dict) ==
  LET done[n \in 0..Len(var_dict)] ==
        IF n = 0 THEN string ELSE subst_opt(done[n - 1], var_dict[n][1], var_dict[n][2])
  IN  done[Len(var_dict)]

\* env_vars: a sequence of <<name, Return(text) or Raise>>; a variable that is not
\* set raises, whether the text has it or not.
subst_env_vars(string, env_vars) ==
  IF \E i \in DOMAIN env_vars : Raised(env_vars[i][2]) THEN Raise
  ELSE Return(subst_dict(string, [i \in DOMAIN env_vars |-> <<env_vars[i][1], Value(env_vars[i][2])>>]))

Parameters(string) == {string[i][2] : i \in {j \in DOMAIN string : string[j][1] = "par"}}

\* Mutant: the user's options are substituted before the simulator's own.
Filled_UserFirst(cmd, opts, user_enables, user_subst_options) ==
  subst_dict(subst_dict(cmd, user_subst_options),
             [i \in DOMAIN opts |-> <<opts[i][1], IF opts[i][1] \in user_enables THEN opts[i][2] ELSE <<>> >>])

\* Steps (1) and (2): the simulator's own options, empty unless enabled, then the
\* user's.
Filled(cmd, opts, user_enables, user_subst_options) ==
  subst_dict(subst_dict(cmd, [i \in DOMAIN opts |->
                                <<opts[i][1], IF opts[i][1] \in user_enables THEN opts[i][2] ELSE <<>> >>]),
             user_subst_options)

\* One command of get_tool_cmds; entry is the simulator's part of the yaml file.
get_tool_cmd(cmd, entry, user_enables, user_subst_options) ==
  LET done == subst_env_vars(Filled(cmd, entry.opts, user_enables, user_subst_options), entry.env_var)
  IN  IF Raised(done) THEN Raise
      ELSE IF Parameters(Value(done)) # {} THEN Raise ELSE done

\* The entries are searched in order for the simulator.
get_tool_cmds(yaml, simulator, user_enables, user_subst_options) ==
  LET entries == Keep(yaml, {e \in Range(yaml) : e.tool = simulator})
      done == [i \in DOMAIN Head(entries).cmd |->
                 get_tool_cmd(Head(entries).cmd[i], Head(entries), user_enables, user_subst_options)]
  IN  IF entries = <<>> THEN Raise
      ELSE IF \E i \in DOMAIN done : Raised(done[i]) THEN Raise
      ELSE Return([i \in DOMAIN done |-> Value(done[i])])

\* What the text means: every parameter stands for its option's text if the option
\* is the simulator's (nothing unless enabled), else for the user's, else for the
\* environment's when it is set, and so do the parameters of an option's text.
Meaning(text, entry, enables, user) ==
  LET Lookup(dict, name) == Keep(dict, {kv \in Range(dict) : kv[1] = name})
      Flat(s, f(_)) == FlattenSeq([i \in DOMAIN s |-> f(s[i])])
      Env(atom) == IF atom[1] = "par" /\ Lookup(entry.env_var, atom[2]) # <<>>
                      /\ ~Raised(Head(Lookup(entry.env_var, atom[2]))[2])
                   THEN Value(Head(Lookup(entry.env_var, atom[2]))[2]) ELSE <<atom>>
      User(atom) == IF atom[1] = "par" /\ Lookup(user, atom[2]) # <<>>
                    THEN Flat(Head(Lookup(user, atom[2]))[2], Env) ELSE Env(atom)
      Opt(atom) == IF atom[1] = "par" /\ Lookup(entry.opts, atom[2]) # <<>>
                   THEN IF atom[2] \in enables THEN Flat(Head(Lookup(entry.opts, atom[2]))[2], User) ELSE <<>>
                   ELSE User(atom)
  IN  Flat(text, Opt)

\* A dictionary like those of rtl_simulation.yaml and its callers: a key is in it once,
\* and none of its texts names one of its own keys.
Dictionary(dict) ==
  /\ dict \in Seq(STRING \X CommandText)
  /\ \A i, j \in DOMAIN dict : dict[i][1] = dict[j][1] => i = j
  /\ \A i, j \in DOMAIN dict : dict[i][1] \notin Parameters(dict[j][2])

\* What a tool's entry of that file and its caller give.
Command(entry, user) ==
  /\ entry.cmd \in Seq(CommandText) /\ Dictionary(entry.opts) /\ Dictionary(user)
  /\ entry.env_var \in Seq(Range(entry.env_var))
  /\ (\A i \in DOMAIN entry.env_var : ~Raised(entry.env_var[i][2])) =>
       LET set == [i \in DOMAIN entry.env_var |-> <<entry.env_var[i][1], Value(entry.env_var[i][2])>>]
       IN  /\ Dictionary(set)
           /\ \A i \in DOMAIN set : entry.env_var[i] = <<set[i][1], Return(set[i][2])>>
=============================================================================
