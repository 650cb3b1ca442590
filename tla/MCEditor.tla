------------------------------ MODULE MCEditor ------------------------------
(* What the user may have configured, for model checking Editor. *)
EXTENDS Editor

MCCmds == {"c1", "c2", "c3", "c4"}

Plain(f) ==
  [does |-> f, bad |-> FALSE, all |-> <<>>, any |-> <<>>, each |-> <<>>, args |-> <<>>,
   hl |-> FALSE, stream |-> FALSE]

Broken == [Plain("done") EXCEPT !.bad = TRUE]

\* Commands of a process that highlight what they find.
Lint(s) == [Plain("exec") EXCEPT !.hl = TRUE, !.stream = s]

Session(defs, tops, hookCmds, threads) ==
  [cmd |-> [c \in MCCmds |-> IF c \in DOMAIN defs THEN defs[c] ELSE Plain("done")],
   top |-> tops, hooks |-> hookCmds, by |-> threads]

\* A hook that lints: edits of one thread, and of two that look up the signal at once.
LintHook(hookCmds, threads) ==
  Session([c \in ToSet(hookCmds) |-> Lint(FALSE)], {}, hookCmds, threads)

Linted == {LintHook(<<"c1", "c2", "c3">>, {t}) : t \in {CHOOSE t \in Callers : TRUE}}
            \cup {LintHook(<<"c1", "c2">>, Callers)}

\* Hooks with a chain, and a hook beside a command of the user's that highlights too.
LintChains ==
  {Session(s[1], s[2], s[3], {t}) :
     t \in {CHOOSE t \in Callers : TRUE},
     s \in {<<[c1 |-> [Lint(FALSE) EXCEPT !.any = <<"c3">>], c2 |-> Lint(FALSE),
               c3 |-> Plain("exec")], {}, <<"c1", "c2">>>>,
            <<[c1 |-> Lint(FALSE), c2 |-> Lint(FALSE)], {"c2"}, <<"c1">>>>}}

Chaining(defs, tops) == Session(defs, tops, <<>>, {})

\* c1 with c2 and c3 chained to it in every way, each of every kind.
Places == [{"c2", "c3"} -> Chains \cup {"args"}]
At(place, k) == SelectSeq(<<"c2", "c3">>, LAMBDA c : place[c] = k)

ChainOf(f, place) ==
  [Plain(f) EXCEPT !.all = At(place, "all"), !.any = At(place, "any"),
                   !.each = At(place, "each"), !.args = At(place, "args")]

Pairs ==
  {Chaining([c1 |-> ChainOf(f, place), c2 |-> x, c3 |-> y], {"c1"}) :
     f \in {"exec", "all", "any", "each"}, place \in Places,
     x \in {Plain("exec"), Plain("raise"), Broken}, y \in {Plain("done"), Plain("fail")}}

\* Chains within chains, gs.cmdebug, and two commands that highlight and stream.
Nested ==
  {Chaining([c1 |-> [Plain("each") EXCEPT !.args = <<"c2", "c3">>, !.hl = TRUE],
             c2 |-> [Lint(TRUE) EXCEPT !.any = <<"c4">>],
             c3 |-> Plain("exec")], {"c1"}),
   Chaining([c1 |-> [Plain("debug") EXCEPT !.args = <<"c2">>, !.all = <<"c3">>, !.any = <<"c4">>],
             c2 |-> Lint(TRUE)], {"c1"}),
   Chaining([c1 |-> Lint(TRUE), c2 |-> [Lint(TRUE) EXCEPT !.all = <<"c3">>]], {"c1", "c2"})}

MCPrograms == Linted \cup LintChains \cup Pairs \cup Nested
=============================================================================
