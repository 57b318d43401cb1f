------------------------------ MODULE StepSelect ------------------------------
(***************************************************************************)
(* How the formal flow picks the assertions of a proof: aig-manip, whose   *)
(* select writes what an engine is given for one step, smt2manip.py, which *)
(* does the same for the solver a result is compared with, and             *)
(* split_by_prefixes of conductor.py, which makes the tree of properties   *)
(* the strategies are built on.  A line of the solver's input is a record  *)
(* of its kind, an assertion's id and, for the comment that introduces it, *)
(* its step, its name and whether the name ends in _Cover.                 *)
(***************************************************************************)
EXTENDS PyResult

Introduced(id, step, name, cover) ==
  [kind |-> "assert", id |-> id, step |-> step, name |-> name, cover |-> cover]
Conjunct(id) == [kind |-> "top_a", id |-> id]
Assumptions == [kind |-> "top_u", id |-> 0]

\* What yosys writes, external to this program: an introduction of each
\* assertion, the conjunction of them all, then the assumptions.
Yosys(asserts) ==
  asserts \o [i \in DOMAIN asserts |-> Conjunct(asserts[i].id)] \o <<Assumptions>>

\* What becomes of an assertion.
Choice(line, step, props) ==
  CASE \/ line.cover
       \/ line.step > step
       \/ line.step = step /\ props # {} /\ line.name \notin props -> "delete"
    [] ~line.cover /\ line.step < step -> "assume"
    [] OTHER -> "keep"

\* One turn of the loop over the lines.
Rewrite(s, line, step, props) ==
  CASE line.kind = "assert" ->
         LET c == Choice(line, step, props)
         IN  [mapped |-> Append(s.mapped, line),
              to_assume |-> IF c = "assume" THEN Append(s.to_assume, line.id) ELSE s.to_assume,
              delete |-> IF c = "delete" THEN s.delete \cup {line.id} ELSE s.delete]
    [] line.kind = "top_a" ->
         IF line.id \in s.delete \/ \E i \in DOMAIN s.to_assume : s.to_assume[i] = line.id THEN s
         ELSE [s EXCEPT !.mapped = Append(@, line)]
    [] line.kind = "top_u" ->
         [s EXCEPT !.mapped = Append(@, line) \o
                              [i \in DOMAIN s.to_assume |-> Conjunct(s.to_assume[i])]]

Unread == [mapped |-> <<>>, to_assume |-> <<>>, delete |-> {}]

smt2manip(lines, step, props) ==
  LET after[n \in 0..Len(lines)] ==
        IF n = 0 THEN Unread ELSE Rewrite(after[n - 1], lines[n], step, props)
  IN  after[Len(lines)].mapped

\* The ids of the conjuncts before and after the line that opens the assumptions.
ProvedIds(mapped) ==
  {mapped[i].id : i \in {j \in DOMAIN mapped : /\ mapped[j].kind = "top_a"
                                               /\ \A k \in 1..j : mapped[k].kind # "top_u"}}
AssumedIds(mapped) ==
  {mapped[i].id : i \in {j \in DOMAIN mapped : /\ mapped[j].kind = "top_a"
                                               /\ \E k \in 1..j : mapped[k].kind = "top_u"}}

-----------------------------------------------------------------------------
(* select of aig-manip: a literal <<id, v>> says that the assertion id has *)
(* the value v.  The assumptions the design comes with stay as they are    *)
(* and are left out; conductor.py never asks for no_assumes.               *)

\* What yosys writes, external to this program: the negation of each assertion is
\* bad, in the order of their names in the .ywmap file.
Bads(asserts) == [i \in DOMAIN asserts |-> <<asserts[i].id, FALSE>>]

Not(lit) == <<lit[1], ~lit[2]>>

\* Mutant: the rest of the step is assumed while some of it is proved.
Turn_AssumesOwnStep(s, a, step, props) ==
  LET b == s.b + 1
      bad == s.bads[b]
  IN  IF a.step = step /\ (props = {} \/ a.name \in props)
      THEN [s EXCEPT !.bads[b] = IF a.cover THEN Not(bad) ELSE bad, !.b = b]
      ELSE [s EXCEPT !.bads = RemoveAt(s.bads, b),
                     !.constraints = IF a.cover \/ a.step > step THEN @ ELSE Append(@, Not(bad))]

\* One turn of the loop over the names: the next of the bads left stays, negated for
\* a cover, or it is removed, and assumed to hold when it is of an earlier step.
Turn(s, a, step, props) ==
  LET b == s.b + 1
      bad == s.bads[b]
  IN  IF a.step = step /\ (props = {} \/ a.name \in props)
      THEN [s EXCEPT !.bads[b] = IF a.cover THEN Not(bad) ELSE bad, !.b = b]
      ELSE [s EXCEPT !.bads = RemoveAt(s.bads, b),
                     !.constraints = IF a.cover \/ a.step >= step THEN @ ELSE Append(@, Not(bad))]

\* The loop ends when b is at the end of the bads left, after one turn for each name.
select(asserts, step, props) ==
  LET after[n \in 0..Len(asserts)] ==
        IF n = 0 THEN [bads |-> Bads(asserts), constraints |-> <<>>, b |-> 0]
        ELSE Turn(after[n - 1], asserts[n], step, props)
  IN  after[Len(asserts)]

-----------------------------------------------------------------------------
(* split_by_prefixes: a property is a pair of the chunks of its name and   *)
(* the name.  A tree is a leaf <<"prop", n>> or a node <<"group", sequence *)
(* of trees>>.                                                             *)

Taken(chunks, n) == [k \in 1..n |-> chunks[k]]

\* The calls of group, each named by the chunks taken off on the way to it, and the
\* properties it is given: the names that go on after those chunks.
Calls(names) ==
  {<<>>} \cup UNION {{Taken(p[1], n) : n \in 0..(Len(p[1]) - 1)} : p \in Range(names)}
Bucket(names, pre) ==
  Keep(names, {p \in Range(names) : Len(p[1]) > Len(pre) /\ Taken(p[1], Len(pre)) = pre})

\* The next chunks after n, in the order they first occur: the keys of buckets.
Heads(props, n) ==
  LET firsts == Keep(props, {p \in Range(props) : Len(p[1]) > n + 1})
      new == {i \in DOMAIN firsts : \A j \in 1..(i - 1) : firsts[j][1][n + 1] # firsts[i][1][n + 1]}
      idx == Keep([i \in DOMAIN firsts |-> i], new)
  IN  [i \in DOMAIN idx |-> firsts[idx[i]][1][n + 1]]

split_by_prefixes(names) ==
  LET group[pre \in Calls(names)] ==
        LET props == Bucket(names, pre)
            done == Keep(props, {p \in Range(props) : Len(p[1]) = Len(pre) + 1})
            heads == Heads(props, Len(pre))
        IN  [i \in DOMAIN done |-> <<"prop", done[i][2]>>]
            \o [i \in DOMAIN heads |-> <<"group", group[Append(pre, heads[i])]>>]
  IN  group[<<>>]

\* The properties of trees that are at most depth high: the groups are opened, one
\* level after the other.
Leaves(trees, depth) ==
  LET Open(ts) == FlattenSeq([i \in DOMAIN ts |-> IF ts[i][1] = "prop" THEN <<ts[i]>> ELSE ts[i][2]])
      opened[n \in 0..depth] == IF n = 0 THEN trees ELSE Open(opened[n - 1])
  IN  [i \in DOMAIN opened[depth] |-> opened[depth][i][2]]

\* The properties of a step: each has a name of its own, and a name has a chunk.
PropertyList(names) ==
  LET chunks == UNION {Range(p[1]) : p \in Range(names)}
  IN  /\ names \in Seq((Seq(chunks) \ {<<>>}) \X {p[2] : p \in Range(names)})
      /\ \A i, j \in DOMAIN names : names[i][2] = names[j][2] => i = j
=============================================================================
