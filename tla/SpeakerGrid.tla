---------------------------- MODULE SpeakerGrid ----------------------------
(* Texts are labelled with speakers, spoken into a flat store of one cell per *)
(* text and speaker, read back as a grid of sources, text roles and speakers  *)
(* (dataset/speaker.py) and collated into padded batches                      *)
(* (dataset/morphology/grid.py).  A view of a cell is units of one width, a   *)
(* rate when it is a waveform, and global units when it is semantic-global.   *)
EXTENDS Naturals, Sequences, SequencesExt, Functions, FiniteSets

CONSTANTS
    Made,           \* how a store is made: from texts, ids, and for which axes
    Voice,          \* external: what the provider says, by words, speaker and view
    GridViews,      \* the audio views a grid can collate
    Waveform,
    MaxSamples,     \* bound: grid samples gathered into batches
    Missing

VARIABLES
    made,           \* the store at hand and what it was made from
    cells,          \* its samples
    out,            \* the last selection: what was asked and what came back
    batches,        \* grid batches not yet collated together
    gathered        \* history: the blocks that went into them, in order

gvars == <<made, cells, out, batches, gathered>>

Raised == [op |-> "none", ok |-> FALSE]

GInit ==
    /\ made = Missing /\ cells = <<>> /\ out = Raised
    /\ batches = <<>> /\ gathered = <<>>

-----------------------------------------------------------------------------
(* Labelling: SpeakerIdDataset keeps the length, SpeakerCartesianDataset      *)
(* multiplies it.                                                             *)

Assignable(how, ids, length) ==
    IF how = "aligned" THEN Len(ids) = length ELSE ids # <<>>

SpeakerFor(how, ids, index) == ids[(IF how = "aligned" THEN index ELSE index % Len(ids)) + 1]

\* A text that names another speaker already is refused.
Labelled(text, speaker) ==
    IF text.speaker \in {Missing, speaker} THEN [text EXCEPT !.speaker = speaker] ELSE Missing

CartesianIndexes(index, count) == <<index \div count, index % count>>

\* The text of one flat row, which remembers its place in the source.
Expanded(texts, ids, at) ==
    Labelled([texts[at[1] + 1] EXCEPT !.source = at[1]], ids[at[2] + 1])

FlatLength(m) == IF m.how = "cartesian" THEN Len(m.texts) * Len(m.ids) ELSE Len(m.texts)

FlatText(m, index) ==
    IF m.how = "cartesian" THEN Expanded(m.texts, m.ids, CartesianIndexes(index, Len(m.ids)))
    ELSE Labelled(m.texts[index + 1], SpeakerFor(m.how, m.ids, index))

\* The store that is made of the texts; order says where its samples then lie.
StoreCell(m, text) ==
    [text |-> text,
     audio |-> [speaker |-> IF m.named THEN text.speaker ELSE Missing,
                views |-> [v \in m.views |-> Voice[<<text.words, text.speaker, v>>]]]]

Make(m) ==
    /\ made = Missing
    /\ Assignable(m.how, m.ids, Len(m.texts))
    /\ \A index \in 0 .. FlatLength(m) - 1 : FlatText(m, index) # Missing
    /\ made' = m
    /\ cells' = [k \in 1 .. FlatLength(m) |-> StoreCell(m, FlatText(m, m.order[k] - 1))]
    /\ UNCHANGED <<out, batches, gathered>>

-----------------------------------------------------------------------------
(* The axes. *)

\* Without row_specs, row k is source k in the default role.
RowsOf(m) ==
    IF m.rows # Missing THEN m.rows
    ELSE [k \in 1 .. FlatLength(m) \div Len(m.speakers) |-> [source |-> k - 1, role |-> "default"]]

Groupable(m) ==
    /\ m.speakers # <<>>
    /\ FlatLength(m) % Len(m.speakers) = 0
    /\ m.rows # Missing => Len(m.rows) = FlatLength(m) \div Len(m.speakers)

\* The roles of the leading rows, those of the first source.
TextAxis(rows) ==
    LET other == {k \in DOMAIN rows : rows[k].source # rows[1].source}
        last == IF other = {} THEN Len(rows) ELSE CHOOSE k \in 0 .. Len(rows) :
                    k + 1 \in other /\ \A j \in other : k < j
    IN [k \in 1 .. last |-> rows[k].role]

SourceAxis(rows, n) == [g \in 1 .. Len(rows) \div n |-> rows[(g - 1) * n + 1].source]

\* _speaker_audio_axes: every source once, as a block of rows in one order of roles.
IsGrid(rows, roles) ==
    rows # <<>> =>
        /\ IsInjective(roles)
        /\ Len(rows) % Len(roles) = 0
        /\ IsInjective(SourceAxis(rows, Len(roles)))
        /\ \A k \in DOMAIN rows :
            /\ rows[k].source = SourceAxis(rows, Len(roles))[((k - 1) \div Len(roles)) + 1]
            /\ rows[k].role = roles[((k - 1) % Len(roles)) + 1]

GridBuilds(m) ==
    Groupable(m) /\ IsInjective(m.speakers) /\ IsGrid(RowsOf(m), TextAxis(RowsOf(m)))

\* _row_indices: the row of a source and a role.
RowsAt(rows, source, role) == {k \in DOMAIN rows : rows[k] = [source |-> source, role |-> role]}

-----------------------------------------------------------------------------
(* Values of one view, padded to the longest. *)
Units(values) == [k \in DOMAIN values |-> values[k].units]

Longest(seqs) == CHOOSE n \in {Len(seqs[k]) : k \in DOMAIN seqs} : \A k \in DOMAIN seqs : Len(seqs[k]) <= n

Pad(units, n) == [k \in 1 .. n |-> IF k <= Len(units) THEN units[k] ELSE 0]

\* One rate, one width and one shape of the global units; codec units are not empty.
Collatable(values, view) ==
    \A k \in DOMAIN values :
        /\ values[k].width = values[1].width /\ values[k].rate = values[1].rate
        /\ Len(values[k].global) = Len(values[1].global)
        /\ view # Waveform => values[k].units # <<>>

\* _collate_audio_view.
Collated(values, units) ==
    [units |-> [k \in DOMAIN units |-> Pad(units[k], Longest(units))],
     lengths |-> [k \in DOMAIN units |-> Len(units[k])],
     rate |-> values[1].rate, width |-> values[1].width,
     global |-> [k \in DOMAIN values |-> values[k].global]]

\* _selected_audio_view: the one asked for if all cells have it, or the only one they share.
SelectedViews(audio, requested) ==
    {v \in GridViews : /\ requested \in {Missing, v}
                       /\ \A k \in DOMAIN audio : v \in DOMAIN audio[k].views}

\* A block has one value and one length for every place, no length beyond its axis.
BlockFits(value, n) ==
    /\ Len(value.units) = n /\ Len(value.lengths) = n /\ Len(value.global) = n
    /\ \A k \in 1 .. n : value.lengths[k] <= Len(value.units[k])

-----------------------------------------------------------------------------
(* Reading a rectangle of rows and speakers (positions on the axes). *)
CellAt(row, speaker) == cells[(row - 1) * Len(made.speakers) + speaker]

\* Mutant: the speaker of a cell is taken from its place.
CellFitsUnlabelled(cell, row, speaker, first) ==
    /\ cell.text.words = first.text.words
    /\ cell.text.source = RowsOf(made)[row].source

\* A cell has the words of its row's first cell, and is labelled with its place.
CellFits(cell, row, speaker, first) ==
    /\ cell.text.words = first.text.words
    /\ cell.text.source = RowsOf(made)[row].source
    /\ cell.text.speaker = made.speakers[speaker]
    /\ cell.audio.speaker \in {Missing, made.speakers[speaker]}

Places(rows, speakers) ==
    [k \in 1 .. Len(rows) * Len(speakers) |->
        <<rows[((k - 1) \div Len(speakers)) + 1], speakers[((k - 1) % Len(speakers)) + 1]>>]

AudioOf(places) == [k \in DOMAIN places |-> CellAt(places[k][1], places[k][2]).audio]

Values(audio, view) == [k \in DOMAIN audio |-> audio[k].views[view]]

\* A call that came back, with its labels; op "group" is labelled by the grouped dataset.
Block(op, rows, speakers, asked, view, value) ==
    [op |-> op, ok |-> TRUE, asked |-> asked, view |-> view, value |-> value,
     rows |-> rows,
     texts |-> [k \in DOMAIN rows |-> CellAt(rows[k], speakers[1]).text.words],
     sources |-> [k \in DOMAIN rows |-> RowsOf(made)[rows[k]].source],
     speakers |-> [k \in DOMAIN speakers |-> made.speakers[speakers[k]]]]

Refused(op, rows, speakers, asked, requested) ==
    [op |-> op, ok |-> FALSE, asked |-> asked, view |-> requested, rows |-> rows,
     speakers |-> [k \in DOMAIN speakers |-> made.speakers[speakers[k]]]]

\* _load, and load of a grouped row: check every cell, choose the view, collate.
Loaded(op, rows, speakers, asked, requested, views, audio) ==
    IF /\ \A k \in DOMAIN rows, j \in DOMAIN speakers :
            CellFits(CellAt(rows[k], speakers[j]), rows[k], speakers[j], CellAt(rows[k], speakers[1]))
       /\ Cardinality(views) = 1
       /\ \A v \in views : Collatable(Values(audio, v), v)
    THEN LET view == CHOOSE v \in views : TRUE
         IN Block(op, rows, speakers, asked, view,
                  Collated(Values(audio, view), Units(Values(audio, view))))
    ELSE Refused(op, rows, speakers, asked, requested)

LoadRows(op, rows, speakers, asked, requested) ==
    LET audio == AudioOf(Places(rows, speakers))
    IN Loaded(op, rows, speakers, asked, requested, SelectedViews(audio, requested), audio)

\* select and load.  A source or role that is not on the axes is refused.
SelectedCells(sources, roles, speakers, requested) ==
    LET asked == [k \in 1 .. Len(sources) * Len(roles) |->
                    [source |-> sources[((k - 1) \div Len(roles)) + 1],
                     role |-> roles[((k - 1) % Len(roles)) + 1]]]
        rows == RowsOf(made)
    IN IF \E k \in DOMAIN asked : RowsAt(rows, asked[k].source, asked[k].role) = {}
       THEN Refused("select", <<>>, speakers, asked, requested)
       ELSE LoadRows("select",
                [k \in DOMAIN asked |-> CHOOSE r \in RowsAt(rows, asked[k].source, asked[k].role) : TRUE],
                speakers, asked, requested)

\* GroupedSpeakerAudioDataset.load: one row, all its speakers.
Group(row, requested) ==
    /\ made # Missing /\ Groupable(made) /\ row \in DOMAIN RowsOf(made)
    /\ batches = <<>>
    /\ out' = LoadRows("group", <<row>>, [k \in DOMAIN made.speakers |-> k],
                       <<RowsOf(made)[row]>>, requested)
    /\ UNCHANGED <<made, cells, batches, gathered>>

OneOrAll(axis) == {axis} \cup {<<axis[k]>> : k \in DOMAIN axis}

\* SpeakerAudioGrid.select(...).load(...): an axis that is not named is whole.
Select(requested) ==
    /\ made # Missing /\ cells # <<>> /\ GridBuilds(made)
    /\ batches = <<>>
    /\ \E sources \in OneOrAll(SourceAxis(RowsOf(made), Len(TextAxis(RowsOf(made))))),
          roles \in OneOrAll(TextAxis(RowsOf(made))),
          speakers \in OneOrAll([k \in DOMAIN made.speakers |-> k]) :
        out' = SelectedCells(sources, roles, speakers, requested)
    /\ UNCHANGED <<made, cells, batches, gathered>>

-----------------------------------------------------------------------------
(* SpeechGridView and its batches: speakers first, then texts. *)

\* speech_grid_batch: the block turned around, as a batch of one.
GridBatch(block) ==
    LET n == Len(block.speakers)
    IN [rate |-> block.value.rate, width |-> block.value.width,
        samples |-> <<[speakers |-> block.speakers, texts |-> block.texts]>>,
        units |-> << [s \in 1 .. n |-> [t \in DOMAIN block.texts |-> block.value.units[(t - 1) * n + s]]] >>,
        lengths |-> << [s \in 1 .. n |-> [t \in DOMAIN block.texts |-> block.value.lengths[(t - 1) * n + s]]] >>]

\* full, by_speaker, by_text and cell: a selection of the waveform.
View ==
    /\ made # Missing /\ cells # <<>> /\ GridBuilds(made)
    /\ Len(gathered) < MaxSamples
    /\ \E row \in {Missing} \cup DOMAIN RowsOf(made),
          speakers \in OneOrAll([k \in DOMAIN made.speakers |-> k]) :
        LET rows == RowsOf(made)
            block == IF row = Missing
                     THEN SelectedCells(SourceAxis(rows, Len(TextAxis(rows))), TextAxis(rows), speakers, Waveform)
                     ELSE SelectedCells(<<rows[row].source>>, <<rows[row].role>>, speakers, Waveform)
        IN /\ block.ok
           /\ batches' = Append(batches, GridBatch(block))
           /\ gathered' = Append(gathered, [texts |-> block.texts, speakers |-> block.speakers])
    /\ out' = Raised
    /\ UNCHANGED <<made, cells>>

\* One sample of a batch, cut to its own axes, its time axis as it is.
Piece(batch, k) ==
    [axes |-> batch.samples[k],
     units |-> [s \in DOMAIN batch.samples[k].speakers |->
                    [t \in DOMAIN batch.samples[k].texts |-> batch.units[k][s][t]]],
     lengths |-> [s \in DOMAIN batch.samples[k].speakers |->
                    [t \in DOMAIN batch.samples[k].texts |-> batch.lengths[k][s][t]]]]

Pieces(given) == FlattenSeq([b \in DOMAIN given |->
                    [k \in DOMAIN given[b].samples |-> Piece(given[b], k)]])

Widest(sizes) == CHOOSE n \in ToSet(sizes) : \A m \in ToSet(sizes) : m <= n

\* The padded axes: a place outside a piece is silent and has no length.
Padded(first, pieces, speakers, texts, time) ==
    [rate |-> first.rate, width |-> first.width,
     samples |-> [k \in DOMAIN pieces |-> pieces[k].axes],
     units |-> [k \in DOMAIN pieces |-> [s \in 1 .. speakers |-> [t \in 1 .. texts |->
        IF s \in DOMAIN pieces[k].units /\ t \in DOMAIN pieces[k].units[s]
        THEN Pad(pieces[k].units[s][t], time) ELSE Pad(<<>>, time)]]],
     lengths |-> [k \in DOMAIN pieces |-> [s \in 1 .. speakers |-> [t \in 1 .. texts |->
        IF s \in DOMAIN pieces[k].lengths /\ t \in DOMAIN pieces[k].lengths[s]
        THEN pieces[k].lengths[s][t] ELSE 0]]]]

\* SpeechGridBatch accepts it: no length outside a sample's axes or beyond the time axis.
BatchFits(batch) ==
    \A k \in DOMAIN batch.samples : \A s \in DOMAIN batch.units[k] : \A t \in DOMAIN batch.units[k][s] :
        /\ batch.lengths[k][s][t] <= Len(batch.units[k][s][t])
        /\ \/ s \in DOMAIN batch.samples[k].speakers /\ t \in DOMAIN batch.samples[k].texts
           \/ batch.lengths[k][s][t] = 0

\* speech_grid_collate: the batches taken apart and padded together.
CollateGrids(pieces) ==
    /\ Len(batches) > 1
    /\ \A b \in DOMAIN batches :
        batches[b].rate = batches[1].rate /\ batches[b].width = batches[1].width
    /\ LET batch == Padded(batches[1], pieces,
                Widest([k \in DOMAIN pieces |-> Len(pieces[k].units)]),
                Widest([k \in DOMAIN pieces |-> Len(pieces[k].units[1])]),
                Widest([k \in DOMAIN pieces |-> Len(pieces[k].units[1][1])]))
       IN BatchFits(batch) /\ batches' = <<batch>>
    /\ out' = Raised
    /\ UNCHANGED <<made, cells, gathered>>

GNext ==
    \/ \E m \in Made : Make(m)
    \/ \E requested \in GridViews \cup {Missing} :
        Select(requested) \/ \E row \in DOMAIN cells : Group(row, requested)
    \/ View
    \/ CollateGrids(Pieces(batches))

-----------------------------------------------------------------------------
Says(units, length, words, speaker, view) ==
    SubSeq(units, 1, length) = Voice[<<words, speaker, view>>].units

BlockSays(b) ==
    \A k \in DOMAIN b.texts, j \in DOMAIN b.speakers :
        LET at == (k - 1) * Len(b.speakers) + j
        IN /\ Says(b.value.units[at], b.value.lengths[at], b.texts[k], b.speakers[j], b.view)
           /\ b.value.global[at] = Voice[<<b.texts[k], b.speakers[j], b.view>>].global

\* The texts a store has for a source, by what it was made from.
TextsOf(source) ==
    IF made.how = "cartesian" THEN {made.texts[source + 1].words}
    ELSE {made.texts[k].words : k \in {k \in DOMAIN made.texts : made.texts[k].source = source}}

\* The cells lie where the axes say, each with the words of its row.
InOrder ==
    \A k \in DOMAIN cells :
        LET n == Len(made.speakers)
            row == ((k - 1) \div n) + 1
        IN /\ cells[k].text.speaker = made.speakers[((k - 1) % n) + 1]
           /\ cells[k].text.source = RowsOf(made)[row].source
           /\ cells[k].text.words = FlatText(made, (row - 1) * n).words

\* The words of the row with this source and this role, in a store in order.
WordsAt(rows, asked) ==
    FlatText(made, ((CHOOSE k \in DOMAIN rows : rows[k] = asked) - 1) * Len(made.speakers)).words

Alike(b) ==
    LET spoken == [k \in 1 .. Len(b.asked) * Len(b.speakers) |->
            Voice[<<WordsAt(RowsOf(made), b.asked[((k - 1) \div Len(b.speakers)) + 1]),
                    b.speakers[((k - 1) % Len(b.speakers)) + 1], b.view>>]]
    IN Collatable(spoken, b.view)

GatheredSays(samples) ==
    \A k \in DOMAIN samples :
        /\ samples[k].axes = gathered[k]
        /\ \A s \in DOMAIN gathered[k].speakers, t \in DOMAIN gathered[k].texts :
            Says(samples[k].units[s][t], samples[k].lengths[s][t],
                 gathered[k].texts[t], gathered[k].speakers[s], Waveform)

\* Whatever order the cells of a store lie in, a block that comes back holds at
\* each text and speaker what that speaker says of that text, unpadded, and the
\* text belongs to the source that was asked for; a misplaced cell is refused, not
\* returned under another label.  On a store in order every selection of a view
\* whose values are alike comes back, with the text of the row and role asked for.
\* Batches of batches keep every gathered sample, its axes and what is said at
\* each place of them.
GridIsExact ==
    /\ out.ok =>
        /\ BlockSays(out)
        /\ \A k \in DOMAIN out.asked :
            out.sources[k] = out.asked[k].source /\ out.texts[k] \in TextsOf(out.asked[k].source)
    /\ (out.op # "none" /\ InOrder) =>
        IF out.ok THEN \A k \in DOMAIN out.asked : out.texts[k] = WordsAt(RowsOf(made), out.asked[k])
        ELSE \/ out.view = Missing
             \/ out.view \notin made.views
             \/ ~Alike(out)
    /\ Len(gathered) = Len(Pieces(batches)) /\ GatheredSays(Pieces(batches))
=============================================================================
