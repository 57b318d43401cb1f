--------------------------- MODULE ToolRequirements ---------------------------
(***************************************************************************)
(* util/check_tool_requirements.py, which the build runs before it uses a  *)
(* tool.  A version text is a record of its shape and its numbers: "dots"  *)
(* for 1.2.3, "suffixed" for dots with something after them, "verible" for *)
(* v1.2-3-ghash, "vcs" for year.month, SP number and patch number          *)
(* ("vcs_cruft" with something after them), and "bad" for anything else.   *)
(***************************************************************************)
EXTENDS PyResult, SequencesExt

\* packaging.version.Version compares number by number, missing ones being 0.
Before(u, v) ==
  LET At(s, i) == IF i \in DOMAIN s THEN s[i] ELSE 0
  IN  \E i \in 1..(Len(u) + Len(v)) :
        /\ At(u, i) < At(v, i)
        /\ \A j \in 1..(i - 1) : At(u, j) = At(v, j)

\* The number read back from the digits of m followed by those of n.
Concatenated(m, n) ==
  m * (IF n < 10 THEN 10 ELSE IF n < 100 THEN 100 ELSE IF n < 1000 THEN 1000 ELSE 10000) + n

\* Mutant: an SP number weighs no more than ten patches.
VcsSemver_Tens(n) == << n[1], Concatenated(n[2], n[3] * 10 + n[4]) >>

\* '{}.{}{}'.format(major, minor, sp * 100 + patch)
VcsSemver(n) == << n[1], Concatenated(n[2], n[3] * 100 + n[4]) >>

\* to_semver of the tool's class, then Version() of the result.
to_semver(tool, version, from_req) ==
  CASE tool = "verible" -> IF version.form = "verible" THEN Return(version.nums) ELSE Raise
    [] tool = "vivado"  -> IF version.form = "dots" /\ Len(version.nums) \in 2..3
                           THEN Return(version.nums) ELSE Raise
    [] tool = "ninja"   -> IF version.form \in {"dots", "suffixed"} /\ Len(version.nums) >= 3
                           THEN Return(SubSeq(version.nums, 1, 3)) ELSE Raise
    [] tool = "vcs"     -> IF version.form = "vcs" \/ (version.form = "vcs_cruft" /\ ~from_req)
                           THEN Return(VcsSemver(version.nums)) ELSE Raise
    [] OTHER            -> IF version.form = "dots" THEN Return(version.nums) ELSE Raise

\* Running the tool gives an exit status and the lines it printed, each with
\* the version the class would read from it, if any.  A class with a
\* version_regex takes the first line that matches, the others the first line.
\* Importing edalize and asking the shell for verilator end in the same two ways.
parse_version_output(tool, stdout) ==
  IF tool \in {"vivado", "vcs"}
  THEN LET matching == {i \in DOMAIN stdout : ~Raised(stdout[i])}
       IN  IF matching = {} THEN Raise ELSE stdout[Min(matching)]
  ELSE Head(stdout)

get_version(tool, proc) ==
  IF proc.returncode # 0 \/ proc.stdout = <<>> THEN Raise
  ELSE parse_version_output(tool, proc.stdout)

\* ToolReq.check
check(req, proc) ==
  LET min_sv == to_semver(req.tool, req.min_version, TRUE)
      actual_version == get_version(req.tool, proc)
      actual_sv == to_semver(req.tool, Value(actual_version), FALSE)
  IN  /\ ~Raised(min_sv)
      /\ ~Raised(actual_version)
      /\ ~Raised(actual_sv)
      /\ ~Before(Value(actual_sv), Value(min_sv))

-----------------------------------------------------------------------------
(* The requirements file: a value is a text, or a dict given by its keys, *)
(* whether each has the right type, and its two settings.                 *)

\* dict_to_tool_req, after the shorthand of read_tool_requirements.
dict_to_tool_req(tool, raw) ==
  IF raw.shorthand THEN Return([tool |-> tool, min_version |-> raw.min_version, as_needed |-> FALSE])
  ELSE IF /\ "min_version" \in raw.keys
          /\ raw.keys \subseteq {"min_version", "as_needed"}
          /\ raw.typed
       THEN Return([tool |-> tool, min_version |-> raw.min_version,
                    as_needed |-> "as_needed" \in raw.keys /\ raw.as_needed])
       ELSE Raise

\* file: a sequence of <<tool, raw>>.
read_tool_requirements(file) ==
  LET reqs == [i \in DOMAIN file |-> dict_to_tool_req(file[i][1], file[i][2])]
  IN  IF \E i \in DOMAIN reqs : Raised(reqs[i]) THEN Raise
      ELSE Return([i \in DOMAIN reqs |-> Value(reqs[i])])

\* One turn of main's loop.
Examine(s, req, installed) ==
  LET seen == [s EXCEPT !.pending_tools = @ \ {req.tool}]
  IN  IF req.as_needed /\ req.tool \notin s.pending_tools THEN s
      ELSE IF check(req, installed[req.tool]) THEN seen
      ELSE [seen EXCEPT !.missing_tools = Append(@, req.tool)]

\* main's loop over the requirements.
Examined(reqs, named, installed) ==
  LET after[n \in 0..Len(reqs)] ==
        IF n = 0 THEN [pending_tools |-> named, missing_tools |-> <<>>]
        ELSE Examine(after[n - 1], reqs[n], installed)
  IN  after[Len(reqs)]

\* The exit status.
main(file, named, installed) ==
  LET reqs == read_tool_requirements(file)
      s == Examined(Value(reqs), named, installed)
  IN  IF Raised(reqs) THEN 1
      ELSE IF s.missing_tools = <<>> /\ s.pending_tools = {} THEN 0 ELSE 1

-----------------------------------------------------------------------------
(* What the two are for. *)

\* Releases of VCS in the order they come out: year, month, SP, patch.
Older(u, v) == \E i \in 1..4 : u[i] < v[i] /\ \A j \in 1..(i - 1) : u[j] = v[j]

\* Every tool the build depends on (the ones not marked as_needed, and the ones
\* it names) is known to the file and recent enough.
Usable(file, named, installed) ==
  LET reqs == {Value(dict_to_tool_req(file[i][1], file[i][2])) : i \in DOMAIN file}
  IN  /\ \A i \in DOMAIN file : ~Raised(dict_to_tool_req(file[i][1], file[i][2]))
      /\ \A t \in named : \E r \in reqs : r.tool = t
      /\ \A r \in reqs : (~r.as_needed \/ r.tool \in named) => check(r, installed[r.tool])
=============================================================================
