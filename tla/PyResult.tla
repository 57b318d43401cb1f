------------------------------- MODULE PyResult -------------------------------
(***************************************************************************)
(* What a Python function gives its caller: a value, or an exception.  The *)
(* kind and the wording of the exception are left out: no caller modelled  *)
(* here tells two of them apart.                                           *)
(***************************************************************************)
EXTENDS Naturals, Sequences, SequencesExt

Raise == <<>>
Return(x) == <<x>>
Raised(r) == r = Raise
Value(r) == r[1]

\* The list [x for x in list if x in S].
Keep(list, S) ==
  FlattenSeq([i \in DOMAIN list |-> IF list[i] \in S THEN <<list[i]>> ELSE <<>>])
=============================================================================
