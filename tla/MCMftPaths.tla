----------------------------- MODULE MCMftPaths -----------------------------
(* Values for MftPaths: the root and three more rows, with every parent    *)
(* reference among them: trees, cycles, orphans, reused records, hard links. *)
EXTENDS Naturals

MountPoint == <<"C:">>

Row(reference, up, name, given) ==
  [rec |-> reference[1], seq |-> reference[2], up |-> up, name |-> name, given |-> given]

References == {<<6, 1>>, <<6, 2>>, <<7, 1>>}
RootRow == Row(<<5, 1>>, <<5, 1>>, ".", FALSE)
Inner(name) ==
  {Row(r, up, name, given) : r \in References, up \in References \cup {<<5, 1>>},
                             given \in BOOLEAN}
\* The third row has no stated path: it is the one that is walked from.
Files == {<<RootRow, a, b, c>> : a \in Inner("a"), b \in Inner("b"),
                                 c \in {r \in Inner("c") : ~r.given}}

AllJournal == {[rec |-> r[1], seq |-> r[2], name |-> n, rename |-> m] :
                 r \in References, n \in {"a", "b", "c"}, m \in BOOLEAN}
=============================================================================
