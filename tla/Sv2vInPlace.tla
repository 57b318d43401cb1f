----------------------------- MODULE Sv2vInPlace -----------------------------
(***************************************************************************)
(* util/sv2v_in_place.py, which converts the files of a list in place.  A  *)
(* path is a record of its name, its extension and whether it ends in      *)
(* "pkg.sv"; the content of a file is <<"original", path>>, <<"empty">>,   *)
(* or <<"converted", ...>>: its own content, the contents sv2v read with   *)
(* it (the packages and the headers) and the defines it was given.         *)
(***************************************************************************)
EXTENDS PyResult, SequencesExt

IsSv(path) == path.ext = ".sv"
IsSvh(path) == path.ext = ".svh"
IsPkg(path) == path.pkg

\* The sv2v process, external to this program: what it writes for a file.
Converted(disk, paths, path, defines) ==
  LET pkg_paths == SelectSeq(paths, IsPkg)
  IN  <<"converted", disk[path],
        [i \in DOMAIN pkg_paths |-> disk[pkg_paths[i]]],
        {disk[paths[i]] : i \in {j \in DOMAIN paths : IsSvh(paths[j])}},
        defines>>

\* defines + extra_file_defines; defines_if: a sequence of <<set of names the
\* expression matches, define>>.
FileDefines(defines, defines_if, path) ==
  LET extra == SelectSeq(defines_if, LAMBDA d : path.name \in d[1])
  IN  defines \o [i \in DOMAIN extra |-> extra[i][2]]

\* The two loops that write: over the .sv paths of the list, and over its .svh paths.
CopyBack(disk, path, text) == IF IsSv(path) THEN [disk EXCEPT ![path] = text] ELSE disk
Splat(disk, path) == IF IsSvh(path) THEN [disk EXCEPT ![path] = <<"empty">>] ELSE disk

\* Mutant: each file is overwritten as soon as it is converted.
transform_AtOnce(disk, paths, defines, defines_if, failing) ==
  LET Step(d, p) == CopyBack(d, p, Converted(d, paths, p, FileDefines(defines, defines_if, p)))
      after[n \in 0..Len(paths)] == IF n = 0 THEN disk ELSE Step(after[n - 1], paths[n])
  IN  [failed |-> \E p \in Range(paths) : IsSv(p) /\ p \in failing, disk |-> after[Len(paths)]]

\* Every file is converted into the temporary directory, in order, until a
\* conversion fails; then they are copied back, again in order.
transform(disk, paths, defines, defines_if, failing) ==
  LET tmpdir == [i \in DOMAIN paths |->
                   Converted(disk, paths, paths[i], FileDefines(defines, defines_if, paths[i]))]
      after[n \in 0..Len(paths)] ==
        IF n = 0 THEN disk ELSE CopyBack(after[n - 1], paths[n], tmpdir[n])
  IN  IF \E p \in Range(paths) : IsSv(p) /\ p \in failing
      THEN [failed |-> TRUE, disk |-> disk]
      ELSE [failed |-> FALSE, disk |-> after[Len(paths)]]

\* main: the exit status and the files it leaves; the headers are emptied last.
sv2v_in_place(disk, paths, defines, defines_if, failing) ==
  LET done == transform(disk, paths, defines, defines_if, failing)
      after[n \in 0..Len(paths)] == IF n = 0 THEN done.disk ELSE Splat(after[n - 1], paths[n])
  IN  IF done.failed THEN [status |-> 1, disk |-> done.disk]
      ELSE [status |-> 0, disk |-> after[Len(paths)]]
=============================================================================
