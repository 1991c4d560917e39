---------------------------- MODULE MCDatasets ----------------------------
(* Small instances of what lies between a store and a training, for TLC: of   *)
(* PlanSync, OnlineReplace, SpeakerGrid and AudioBatches, and of the filtered *)
(* views LiveFilter, DecisionPrefix and IndexReader.  They share no state:    *)
(* every behaviour runs one of them.                                          *)
EXTENDS PlanSync, OnlineReplace, SpeakerGrid, AudioBatches,
        LiveFilter, DecisionPrefix, IndexReader

VARIABLE turn   \* the part this behaviour runs

\* The costs of the samples; one is over the budget.
SomeCost(i) == <<3, 2, 1, 4, 3, 4, 1, 1, 2, 3, 12>>[i + 1]

\* Even epochs reverse the order of the groups, and of the samples in each.
SomeShuffle(groups, seed) ==
    IF seed % 2 = 0 THEN [g \in DOMAIN groups |-> Reverse(groups[Len(groups) + 1 - g])]
    ELSE IF groups = <<>> THEN groups ELSE Append(Tail(groups), Head(groups))

Padding == <<1, 4>>

Base ==
    [use |-> "loader", workers |-> 1, mode |-> "epoch", drop |-> TRUE, grows |-> FALSE,
     costs |-> "lazy", shuffle |-> TRUE, samples |-> Unbounded, selected |-> Unset, length |-> 10]

\* Every mode and option with an over-budget sample beyond or within reach; growing
\* sources; selections; iteration without a loader.  No source grows while costs
\* are materialized by a function that may raise: see the README.
SomeJobs ==
    {[Base EXCEPT !.mode = m, !.drop = d] : m \in {"epoch", "window"}, d \in BOOLEAN}
    \cup {[Base EXCEPT !.mode = m, !.samples = n, !.shuffle = FALSE] :
            m \in {"epoch", "window"}, n \in {1, 2}}
    \cup {[Base EXCEPT !.mode = m, !.grows = TRUE, !.length = n, !.costs = c] :
            m \in {"epoch", "window"}, n \in {1, 9}, c \in {"lazy", "fixed"}}
    \cup {[Base EXCEPT !.costs = "materialized", !.length = n] : n \in {2, 10, 11}}
    \cup {[Base EXCEPT !.selected = v, !.shuffle = s] :
            v \in {<<0, 2, 3, 4, 6>>, <<4, 1, 2>>}, s \in BOOLEAN}
    \cup {[Base EXCEPT !.use = "iterate", !.workers = w, !.length = n] :
            w \in {1, 2}, n \in {3, 9}}

-----------------------------------------------------------------------------
(* OnlineReplace. *)

\* Only rejects; a far accept; a reject before an accept, a raise in between.
SomeSources ==
    {<<"accept">>, <<"reject">>, <<"reject", "accept">>,
     <<"accept", "reject", "reject", "reject", "reject">>,
     <<"reject", "reject", "raise", "accept", "reject">>,
     <<"accept", "accept", "reject", "reject", "reject", "reject">>}

-----------------------------------------------------------------------------
(* SpeakerGrid. *)
Text(words, from) == [words |-> words, speaker |-> Missing, source |-> from]
Row(from, role) == [source |-> from, role |-> role]

Hi == <<Text("hi", 9)>>
HiAndBy == <<Text("hi", 9), Text("by", 9)>>

\* Two sources with two roles each, every text once for each of two speakers.
Paired ==
    <<Text("hi", 0), Text("hi", 0), Text("by", 0), Text("by", 0),
      Text("hi", 1), Text("hi", 1), Text("by", 1), Text("by", 1)>>

PairedRows ==
    {<<Row(0, "source"), Row(0, "target"), Row(1, "source"), Row(1, "target")>>,
     <<Row(0, "source"), Row(0, "target"), Row(1, "target"), Row(1, "source")>>,
     <<Row(0, "source"), Row(0, "target"), Row(1, "source"), Row(0, "target")>>}

Up(n) == [k \in 1 .. n |-> k]
Swap(n, a, b) == [k \in 1 .. n |-> IF k = a THEN b ELSE IF k = b THEN a ELSE k]

Cartesian ==
    [how |-> "cartesian", texts |-> HiAndBy, ids |-> <<"a", "b">>, speakers |-> <<"a", "b">>,
     rows |-> Missing, order |-> Up(4), views |-> {"waveform"}, named |-> TRUE]

\* A speaker "c" of another rate; two views; a wrong speaker axis; cells that lie in
\* another order; rows that are no grid; labels that are there already, or are wrong.
SomeMade ==
    {[Cartesian EXCEPT !.order = o] : o \in {Up(4), Swap(4, 1, 2), Swap(4, 2, 4), Swap(4, 2, 3)}}
    \cup {[Cartesian EXCEPT !.texts = Hi, !.ids = <<"a", "c">>, !.speakers = <<"a", "c">>,
                            !.order = Up(2), !.views = v] :
            v \in {{"waveform"}, {"bicodec"}, {"waveform", "bicodec"}}}
    \cup {[Cartesian EXCEPT !.speakers = <<"b", "a">>, !.named = FALSE]}
    \cup {[Cartesian EXCEPT !.how = "cycle", !.texts = Paired, !.rows = r, !.order = o,
                            !.named = FALSE] :
            r \in PairedRows, o \in {Up(8), Swap(8, 1, 3), Swap(8, 1, 2)}}
    \cup {[Cartesian EXCEPT !.how = "aligned", !.ids = i, !.speakers = <<"a">>, !.order = Up(2)] :
            i \in {<<"a", "b">>, <<"a">>}}
    \cup {[Cartesian EXCEPT !.how = "cycle", !.texts = t, !.ids = <<"a">>, !.speakers = <<"a">>,
                            !.order = Up(Len(t))] :
            t \in {<<[Text("hi", 0) EXCEPT !.speaker = "b"]>>,
                   <<[Text("hi", 0) EXCEPT !.speaker = "a"], Text("by", 1)>>}}

\* "b" speaks longer than the others, "by" is longer than "hi".
SomeVoice ==
    [x \in {"hi", "by"} \X {"a", "b", "c"} \X {"waveform", "bicodec"} |->
        [units |-> [k \in 1 .. ((IF x[1] = "hi" THEN 1 ELSE 2) + (IF x[2] = "b" THEN 1 ELSE 0)) |->
                        IF x[2] = "a" THEN 1 ELSE 2],
         width |-> 1,
         rate |-> IF x[3] = "bicodec" THEN 0 ELSE IF x[2] = "c" THEN 24 ELSE 16,
         global |-> IF x[3] = "bicodec" THEN <<IF x[2] = "a" THEN 1 ELSE 2>> ELSE <<>>]]

-----------------------------------------------------------------------------
(* AudioBatches. *)
Sound(units, rate, width, speaker) ==
    [units |-> units, rate |-> rate, width |-> width, speaker |-> speaker]

\* Lengths, rates, channels and speakers in every combination a batch tells apart.
SomeSounds ==
    {Sound(<<1>>, 16, 1, "a"), Sound(<<1, 2>>, 16, 1, Absent), Sound(<<2, 1>>, 24, 1, "b"),
     Sound(<<>>, 16, 1, "a"), Sound(<<2>>, 16, 2, "b"), Sound(<<3>>, 16, 1, "a")}

SomeBatches == UNION {[1 .. n -> SomeSounds] : n \in 1 .. 3}

Provider(how, schema, limit, unit) ==
    [how |-> how, schema |-> schema, limit |-> limit, unit |-> unit]

\* Limits that one sound exceeds or none, and a second part of a length it may not have.
SomeSpecs ==
    {Provider("codec", "frame", 60, 0), Provider("tokenizer", "frame", 60, 0),
     Provider("tokenizer", "semantic_acoustic", 60, 0),
     Provider("tokenizer", "semantic_acoustic", 90, 1),
     Provider("tokenizer", "semantic_global", 90, 1),
     Provider("tokenizer", "semantic_global", 90, 0)}

UpToTwoUnits == UNION {[1 .. n -> 0 .. 3] : n \in 0 .. 2}

\* Codes differ with the units, their number and the rate.
SomeTokens ==
    [x \in UpToTwoUnits \X {16, 24} |->
        [first |-> [i \in DOMAIN x[1] |-> (x[1][i] * 20) + (x[2] - 16)],
         second |-> [i \in 1 .. (IF x[1] = <<2, 1>> THEN 2 ELSE 1) |-> Len(x[1])]]]

SomeResampled == [x \in UpToTwoUnits \X {24} |-> Append(x[1], 9)]

(* LiveFilter. *)
Yes == {"accept"}
No == {"reject"}
Either == {"accept", "reject"}

WithReady(rule) == [ready |-> TRUE, rule |-> rule, labels |-> {"accept"}, breaks |-> FALSE]
Judged(rule) == [ready |-> FALSE, rule |-> rule, labels |-> {"accept"}, breaks |-> FALSE]
Breaks(rule) == [Judged(rule) EXCEPT !.breaks = TRUE]

Chain(ids, runs, ops) ==
    [ids |-> ids, upstream |-> <<>>, runs |-> runs, target |-> None, ops |-> ops]

NoChain == Chain(<<>>, <<>>, {})

AB == <<"a", "b">>
ABC == <<"a", "b", "c">>

SomeChains ==
    {NoChain,
     Chain(<<>>, <<Judged(<<>>)>>, {"len"}),
     Chain(AB, <<WithReady(<<No, Yes>>), Judged(<<Yes, Yes>>)>>, {"at"}),
     Chain(AB, <<[Judged(<<Yes, Either>>) EXCEPT !.labels = None]>>, {"at", "has"}),
     Chain(AB, <<Breaks(<<Yes, No>>)>>, {"at", "last"}),
     Chain(<<"a">>, <<Judged(<<Yes>>), Breaks(<<Yes>>)>>, {"at", "run"}),
     [Chain(AB, <<Judged(<<Yes, No>>)>>, {"at", "len"})
        EXCEPT !.upstream = <<<<"yes", "unknown">>>>],
     [Chain(ABC, <<Judged(<<Yes, No, Yes>>)>>, {"at"}) EXCEPT !.target = <<"c", "a", "b">>],
     [Chain(<<"a">>, <<Judged(<<Yes>>), Judged(<<Yes>>)>>, {"run", "view"})
        EXCEPT !.target = <<"a">>],
     Chain(<<"a">>, <<WithReady(<<Yes>>), Breaks(<<Yes>>)>>, {"run", "view"})}

-----------------------------------------------------------------------------
(* DecisionPrefix. *)
Input(catalog, sizes, rule, rebuild) ==
    [catalog |-> catalog, sizes |-> sizes, rule |-> rule, labels |-> Yes, rebuild |-> rebuild]

NoInput == Input(TRUE, <<>>, <<>>, FALSE)

SomeInputs ==
    {NoInput,
     Input(TRUE, <<1, 3>>, <<Yes, Either, No, Yes>>, FALSE),
     Input(TRUE, <<3, 1>>, <<No, Yes, Yes, Yes>>, TRUE),
     Input(FALSE, <<1, 2>>, <<Yes, No, Either>>, FALSE)}

-----------------------------------------------------------------------------
(* IndexReader. *)
\* The indexes 0 to 6 with these labels, in two chunks.
Written(labels) ==
    [c \in 1 .. 2 |-> [l \in {"x", "y", "z"} |->
        SelectSeq(IF c = 1 THEN <<0, 1, 2>> ELSE <<3, 4, 5, 6>>,
                  LAMBDA k : labels[k + 1] = l)]]

NoGeneration == [chunks |-> <<>>, open |-> <<>>]

SomeGenerations ==
    {NoGeneration} \cup
    {[chunks |-> Written(l), open |-> o] :
        l \in {<<"x", "y", "x", "y", "z", "y", "y">>, <<"y", "y", "y", "x", "y", "y", "x">>,
               <<"x", "x", "x", "x", "x", "y", "z">>, <<"z", "y", "x", "x", "y", "z", "z">>},
        o \in {<<"x", "y">>, <<"z", "y", "x">>, <<"y">>, <<"y", "z">>}}

-----------------------------------------------------------------------------
allvars == <<vars, ovars, gvars, avars, lvars, dvars, ivars, turn>>

AllInit ==
    /\ turn \in {"plan", "online", "grid", "batches", "filter", "prefix", "index"}
    /\ job \in IF turn = "plan" THEN Jobs ELSE {Base}
    /\ primary \in IF turn = "online" THEN Sources ELSE {<<"accept">>}
    /\ chain \in IF turn = "filter" THEN FilterJobs ELSE {NoChain}
    /\ input \in IF turn = "prefix" THEN DecisionInputs ELSE {NoInput}
    /\ generation \in IF turn = "index" THEN Generations ELSE {NoGeneration}
    /\ Init /\ OInit /\ GInit /\ AInit /\ LInit /\ DInit /\ IInit

AllNext ==
    /\ \/ turn = "plan" /\ Next /\ UNCHANGED <<ovars, gvars, avars, lvars, dvars, ivars>>
       \/ turn = "online" /\ ONext /\ UNCHANGED <<vars, gvars, avars, lvars, dvars, ivars>>
       \/ turn = "grid" /\ GNext /\ UNCHANGED <<vars, ovars, avars, lvars, dvars, ivars>>
       \/ turn = "batches" /\ ANext /\ UNCHANGED <<vars, ovars, gvars, lvars, dvars, ivars>>
       \/ turn = "filter" /\ LNext /\ UNCHANGED <<vars, ovars, gvars, avars, dvars, ivars>>
       \/ turn = "prefix" /\ DNext /\ UNCHANGED <<vars, ovars, gvars, avars, lvars, ivars>>
       \/ turn = "index" /\ INext /\ UNCHANGED <<vars, ovars, gvars, avars, lvars, dvars>>
    /\ UNCHANGED turn

\* RanksGoOn, where ranks run.
TrainingGoesOn ==
    /\ WF_vars(ExchangeLengths) /\ WF_vars(ExchangeCounts) /\ WF_vars(ExchangeGradients)
    /\ \A r \in Ranks : []<>~(turn = "plan" /\ Ready(r)) \/ []<><<Moves(r)>>_vars

AllSpec == AllInit /\ [][AllNext]_allvars /\ TrainingGoesOn /\ LFairness

\* A training that runs does not leave a rank waiting.
EveryTrainingEnds == turn = "plan" => EveryRankLeaves

\* A sample is what its place says, whichever way it is read.
SamplesHold == ReplacementsHold /\ GridIsExact /\ BatchesMatchSingles

\* What is stored agrees over windows and views (PrefixesHold) and is read exactly
\* (ReadsAreExact).
StoredDecisionsHold == PrefixesHold /\ ReadsAreExact
=============================================================================
