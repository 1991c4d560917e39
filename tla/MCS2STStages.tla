--------------------------- MODULE MCS2STStages ---------------------------
(* A small instance of S2STStages for TLC. *)
EXTENDS S2STStages

CONSTANTS g1, g2, t1, t2, v1, sA, sB, en, zh, ja

\* Two languages with one slot each; then a second slot of the first and a third
\* language.
FirstConfig ==
    [langs |-> <<[lang |-> en, slots |-> <<"en0">>], [lang |-> zh, slots |-> <<"zh0">>]>>,
     reference |-> FALSE, speakers |-> <<"ann">>, initial |-> 1, interval |-> 2]
SecondConfig ==
    [FirstConfig EXCEPT !.langs = Append([@ EXCEPT ![1].slots = <<"en0", "en1">>],
                                         [lang |-> ja, slots |-> <<"ja0">>]),
                        !.speakers = <<"ann", "bo">>,
                        !.interval = 1]

TwoConfigs == <<FirstConfig, SecondConfig>>
Growing(n) == [len |-> n, sealed |-> FALSE]
Final(n) == [len |-> n, sealed |-> TRUE]

\* Two growers of sources that move while a language and a slot are added; every stage over
\* two pairs, where the translators race; every stage with one crash anywhere
\* while a language is added.
ThreeCasts ==
    {[members |-> {g1, g2}, changes |-> 2, crashes |-> 0, epoch |-> 1, stores |-> {sA},
      sources |-> {f \in [AllSlots -> {Growing(0), Growing(1), Final(1)}] :
                     \A s \in AllSlots : f[s] = Final(1) <=> s = "en1"}],
     [members |-> {g1, t1, t2}, changes |-> 0, crashes |-> 0, epoch |-> 2,
      stores |-> {sA, sB},
      sources |-> {[s \in AllSlots |-> IF s = "en0" THEN Final(1) ELSE Final(0)]}],
     [members |-> {g1, t1, v1}, changes |-> 1, crashes |-> 1, epoch |-> 1, stores |-> {sA},
      sources |-> {[s \in AllSlots |-> Final(IF s \in {"zh0", "en1"} THEN 0 ELSE 1)]}]}

SomeDraw(pool, slot, row, n) == (pool + row) % n
\* Two directories that hold the same bytes.
SomeContent(store) == sA

\* A plan that has nothing to add is complete (IdleMeansComplete), one that grows
\* ordinarily owes no language anything (NewLanguagesComeFirst), and what the stages
\* publish of the plans is whole, family by family (SourcesAreWhole).
FamiliesHold == IdleMeansComplete /\ NewLanguagesComeFirst /\ SourcesAreWhole
=============================================================================
