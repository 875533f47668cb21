---------------------------- MODULE MCIteration ----------------------------
(* Six scenarios, each for what it can tell the two interpreters apart by,  *)
(* and one that a monitor watches.                                         *)
EXTENDS StepJudge

Request(id, refs, use, think, extract) ==
    [type |-> "http", id |-> id, refs |-> refs, use |-> use, think |-> think,
     extract |-> extract]

Repeat(id, repeat, body) == [type |-> "loop", id |-> id, repeat |-> repeat, body |-> body]

Choice(id, refs, cond, then, elif, else) ==
    [type |-> "if", id |-> id, refs |-> refs, cond |-> cond, then |-> then,
     elif |-> elif, else |-> else]

Fork(id, branches) == [type |-> "parallel", id |-> id, branches |-> branches]

Exists(n) == [op |-> "exists", var |-> n]
Empty(n)  == [op |-> "empty", var |-> n]

G  == <<"g">>
H  == <<"h">>
X  == <<"x">>
Y  == <<"y">>
AX == <<"A", "x">>

\* A generator that an extraction overwrites half way.
Overwritten ==
    [vars |-> (G :> "request") @@ (H :> "gen"), row |-> {}, think |-> TRUE,
     steps |-> <<Request("a", {G, H}, "plain", "unset", {}),
                 Request("b", {G}, "plain", "zero", {G}),
                 Request("c", {G, H}, "plain", "some", {})>>]

\* A row over a generator, cast and put in a header; a variable of the loop.
Cast(use) ==
    [vars |-> (G :> "request"), row |-> {G}, think |-> FALSE,
     steps |-> <<Repeat("l", 2, <<Request("a", {}, "plain", "unset", {X}),
                                  Request("b", {X}, use, "unset", {})>>),
                 Request("c", {G, X}, use, "unset", {})>>]

\* Conditions on what was extracted before.
Chosen ==
    [vars |-> (H :> "static"), row |-> {}, think |-> FALSE,
     steps |-> <<Request("a", {H}, "plain", "unset", {X}),
                 Request("b", {}, "plain", "unset", {Y}),
                 Choice("i", {X, Y}, [op |-> "all", of |-> <<Exists(X), Exists(Y)>>],
                        <<Request("c", {X, Y}, "plain", "unset", {})>>,
                        <<[cond |-> [op |-> "any", of |->
                                       <<[op |-> "all", of |-> <<Empty(Y), Exists(X)>>],
                                         [op |-> "any", of |-> <<>>]>>],
                           then |-> <<Request("d", {Y}, "plain", "unset", {})>>]>>,
                        <<>>)>>]

\* Branches that use one generator, whose exports are used afterwards.
Parting ==
    [vars |-> (G :> "request"), row |-> {}, think |-> TRUE,
     steps |-> <<Request("a", {G}, "plain", "zero", {G, Y}),
                 Fork("p", <<[name |-> "A", steps |-> <<Request("b", {G}, "plain", "unset", {X})>>],
                             [name |-> "B", steps |-> <<Request("c", {G, Y}, "plain", "some", {G})>>]>>),
                 Request("d", {G, AX}, "plain", "zero", {})>>]

\* A loop around a parallel with an if in one branch.
Nested ==
    [vars |-> (G :> "request"), row |-> {}, think |-> FALSE,
     steps |-> <<Repeat("l", 2, <<
                   Fork("p", <<[name |-> "A", steps |->
                                  <<Choice("i", {AX}, Exists(AX), <<>>, <<>>,
                                           <<Request("a", {G}, "plain", "unset", {X})>>)>>],
                               [name |-> "B", steps |->
                                  <<Request("b", {G}, "plain", "unset", {})>>]>>)>>)>>]

\* What fails in a branch, after it, and in one turn of a loop only.
Watched ==
    [vars |-> (H :> "static"), row |-> {}, think |-> FALSE,
     steps |-> <<Repeat("l", 2, <<
                   Fork("p", <<[name |-> "A", steps |-> <<Request("a", {}, "plain", "unset", {X})>>],
                               [name |-> "B", steps |->
                                  <<Choice("i", {AX}, Exists(AX),
                                           <<Request("b", {}, "plain", "unset", {X})>>, <<>>, <<>>)>>]>>),
                   Request("c", {}, "plain", "unset", {Y})>>),
                 Request("d", {Y}, "plain", "unset", {G})>>]

MCScenarios == {Overwritten, Cast("cast"), Cast("header"), Chosen, Parting, Nested, Watched}

----------------------------------------------------------------------------
CutShort == phase = "load" /\ \E i \in DOMAIN finals.preview : finals.preview[i].cut

\* A preview that was cut is not compared with a load run that was, too; of
\* the deadline and the token a load run meets one; of the watched scenario
\* there are only test runs; one scenario shows test
\* runs without think time; and a request that fails is one that extracts.
FewDisturbances ==
    /\ CutShort => ~late /\ ~cancelled
    /\ ~late \/ ~cancelled
    /\ scn = Watched => phase = "preview"
    /\ opts.think \/ scn = Overwritten
    /\ \A s \in Https(scn.steps) : s.extract = {} => answers[s.id] = "yes"
=============================================================================
