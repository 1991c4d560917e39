---------------------------- MODULE AudioBatches ----------------------------
(* Sounds of different lengths collated into one padded batch                 *)
(* (dataset/collate.py), tokenized in groups by an audio provider             *)
(* (provider/codec.py, provider/abc.py), and the codes collated again; and the *)
(* utterance batches of dataset/morphology/utterance.py.  A sound is units of *)
(* one rate and channel count; a frame of codes is a number.                  *)
EXTENDS Naturals, Sequences, SequencesExt, FiniteSets

CONSTANTS
    Batches,        \* the samples a loader hands over together
    Specs,          \* the providers: how they batch, schema, limits, unit length
    Tokens,         \* external: what a tokenizer makes of units at a rate
    Resampled,      \* external: units of a rate at the rate of the utterances
    Rate, Channels, \* what utterances are prepared to
    Absent

VARIABLES
    samples,        \* the samples at hand, in order
    spec,           \* the provider called with them
    batch,          \* the collated waveforms: rows, mask, rates
    values,         \* what call_batch returned, in order
    codes,          \* those collated in turn
    speech,         \* the utterance batch
    refused         \* the steps that raised

avars == <<samples, spec, batch, values, codes, speech, refused>>

AInit ==
    /\ samples = <<>> /\ spec = Absent /\ batch = Absent
    /\ values = Absent /\ codes = Absent /\ speech = Absent /\ refused = {}

\* _validate_spec.
SpecFits(s) == s.how = "tokenizer" /\ s.schema = "semantic_global" => s.unit > 0

TakeBatch ==
    /\ samples = <<>>
    /\ samples' \in Batches /\ spec' \in {s \in Specs : SpecFits(s)}
    /\ UNCHANGED <<batch, values, codes, speech, refused>>

-----------------------------------------------------------------------------
(* Padding. *)
LongestOf(seqs) ==
    CHOOSE n \in {Len(seqs[k]) : k \in DOMAIN seqs} : \A k \in DOMAIN seqs : Len(seqs[k]) <= n

PaddedRows(seqs, n) ==
    [k \in DOMAIN seqs |-> [i \in 1 .. n |-> IF i <= Len(seqs[k]) THEN seqs[k][i] ELSE 0]]

MaskOf(seqs, n) == [k \in DOMAIN seqs |-> [i \in 1 .. n |-> i <= Len(seqs[k])]]

\* field_lengths: the marked places of each row.
FieldLengths(mask) == [k \in DOMAIN mask |-> Cardinality({i \in DOMAIN mask[k] : mask[k][i]})]

AllAlike(f) == \A j, k \in DOMAIN f : f[j] = f[k]

Channel == [k \in DOMAIN samples |-> samples[k].width]
Sounds == [k \in DOMAIN samples |-> samples[k].units]

\* _collate_waveforms, and _pad_waveforms of files: only the last axis may vary.
CollateSamples ==
    /\ samples # <<>> /\ batch = Absent /\ "collate" \notin refused
    /\ IF AllAlike(Channel)
       THEN /\ batch' = [rows |-> PaddedRows(Sounds, LongestOf(Sounds)),
                         mask |-> MaskOf(Sounds, LongestOf(Sounds)),
                         rates |-> [k \in DOMAIN samples |-> samples[k].rate]]
            /\ UNCHANGED refused
       ELSE refused' = refused \cup {"collate"} /\ UNCHANGED batch
    /\ UNCHANGED <<samples, spec, values, codes, speech>>

-----------------------------------------------------------------------------
(* call_batch. *)

\* Ids within the codebooks, and the second part as long as the schema says.
InRange(seq, limit) == \A i \in DOMAIN seq : seq[i] < limit

SecondFits(s, token) ==
    /\ InRange(token.second, s.limit)
    /\ IF s.schema = "semantic_acoustic" /\ s.unit = 0 THEN Len(token.second) = Len(token.first)
       ELSE Len(token.second) = s.unit

TokenFits(s, token) ==
    /\ InRange(token.first, s.limit)
    /\ s.schema # "frame" => SecondFits(s, token)

TokenView(s, token) == IF s.schema = "frame" THEN [token EXCEPT !.second = <<>>] ELSE token

\* _batch_axes, and one sample rate per batch of a frame codec.
AxesFit(s, lengths, rates) ==
    IF s.how = "codec" THEN AllAlike(rates) ELSE \A k \in DOMAIN lengths : lengths[k] > 0

\* Mutant: sounds of one length are one group whatever their rates.
SameGroupByLength(s, lengths, rates, j, k) == lengths[j] = lengths[k]

\* _length_groups of a codec, _rate_length_groups of a tokenizer.
SameGroup(s, lengths, rates, j, k) ==
    lengths[j] = lengths[k] /\ (s.how = "codec" \/ rates[j] = rates[k])

\* The group a row is tokenized with is clipped to the length, and has the rate, of
\* its first row.
Leader(s, lengths, rates, k) ==
    CHOOSE j \in 1 .. k : /\ SameGroup(s, lengths, rates, j, k)
                          /\ \A i \in 1 .. j - 1 : ~SameGroup(s, lengths, rates, i, k)

Tokenized(row, length, rate) == Tokens[<<SubSeq(row, 1, length), rate>>]

Encoded(s, lengths, rates) ==
    [k \in DOMAIN lengths |->
        Tokenized(batch.rows[k], lengths[Leader(s, lengths, rates, k)],
                  rates[Leader(s, lengths, rates, k)])]

\* Every group is tokenized in one call; a call that loses an output, an id out of
\* range or a part of the wrong length raises for the whole batch.
CallEnds(tokens, lost) ==
    IF ~lost /\ \A k \in DOMAIN tokens : TokenFits(spec, tokens[k])
    THEN values' = [k \in DOMAIN tokens |-> TokenView(spec, tokens[k])] /\ UNCHANGED refused
    ELSE refused' = refused \cup {IF lost THEN "lost" ELSE "call"} /\ UNCHANGED values

CallBatch(lengths) ==
    /\ batch # Absent /\ values = Absent /\ refused \cap {"call", "lost"} = {}
    /\ IF AxesFit(spec, lengths, batch.rates)
       THEN \E lost \in BOOLEAN : CallEnds(Encoded(spec, lengths, batch.rates), lost)
       ELSE refused' = refused \cup {"call"} /\ UNCHANGED values
    /\ UNCHANGED <<samples, spec, batch, codes, speech>>

\* __call__ with one sample: the same checks, no padding and no groups.
Single(s, sample) ==
    LET token == Tokens[<<sample.units, sample.rate>>]
    IN IF TokenFits(s, token) THEN TokenView(s, token) ELSE Absent

-----------------------------------------------------------------------------
(* The codes as the next batch's fields. *)
Firsts == [k \in DOMAIN values |-> values[k].first]
Seconds == [k \in DOMAIN values |-> values[k].second]

Aligned == \A k \in DOMAIN values : Len(values[k].first) = Len(values[k].second)

\* _stack_fixed_codec_codes: one shape, and not empty.
Fixed == Len(Seconds[1]) > 0 /\ \A k \in DOMAIN values : Len(Seconds[k]) = Len(Seconds[1])

\* _collate_codec_codes, _collate_semantic_acoustic and _collate_semantic_global.
CollateCodes ==
    /\ values # Absent /\ codes = Absent /\ "codes" \notin refused
    /\ IF \/ spec.schema = "frame"
          \/ spec.schema = "semantic_acoustic" /\ Aligned
          \/ Fixed
       THEN /\ codes' = [first |-> PaddedRows(Firsts, LongestOf(Firsts)),
                         second |-> IF spec.schema = "semantic_acoustic" /\ Aligned
                                    THEN PaddedRows(Seconds, LongestOf(Seconds)) ELSE Seconds,
                         mask |-> MaskOf(Firsts, LongestOf(Firsts))]
            /\ UNCHANGED refused
       ELSE refused' = refused \cup {"codes"} /\ UNCHANGED codes
    /\ UNCHANGED <<samples, spec, batch, values, speech>>

-----------------------------------------------------------------------------
(* Utterances. *)

\* prepare_audio: channels are averaged to one or must fit, the rate is converted.
Preparable(sample) == Len(sample.units) > 0 /\ (sample.width = Channels \/ Channels = 1)

Prepared(sample) ==
    IF sample.rate = Rate THEN sample.units ELSE Resampled[<<sample.units, sample.rate>>]

\* _optional_speaker_ids: on every sample or on none.
SpeakersFit ==
    \/ \A k \in DOMAIN samples : samples[k].speaker = Absent
    \/ \A k \in DOMAIN samples : samples[k].speaker # Absent

SpeechBatch(prepared) ==
    [rows |-> PaddedRows(prepared, LongestOf(prepared)),
     lengths |-> [k \in DOMAIN prepared |-> Len(prepared[k])],
     speakers |-> [k \in DOMAIN samples |-> samples[k].speaker]]

\* audio_collate has no speakers; speech_collate has.
CollateUtterances(withText) ==
    /\ samples # <<>> /\ speech = Absent /\ "speech" \notin refused
    /\ IF (\A k \in DOMAIN samples : Preparable(samples[k])) /\ (withText => SpeakersFit)
       THEN /\ speech' = SpeechBatch([k \in DOMAIN samples |-> Prepared(samples[k])])
            /\ UNCHANGED refused
       ELSE refused' = refused \cup {"speech"} /\ UNCHANGED speech
    /\ UNCHANGED <<samples, spec, batch, values, codes>>

ANext ==
    \/ TakeBatch
    \/ CollateSamples
    \/ batch # Absent /\ CallBatch(FieldLengths(batch.mask))
    \/ CollateCodes
    \/ \E withText \in BOOLEAN : CollateUtterances(withText)

-----------------------------------------------------------------------------
CutTo(rows, lengths) == [k \in DOMAIN rows |-> SubSeq(rows[k], 1, lengths[k])]

\* What a provider returns for a batch is, sample by sample, what it returns for
\* each sample alone: neither the padding, nor the group a sound is tokenized
\* with, nor the order of the groups shows.  A batch is refused only when a
\* provider would refuse one of its sounds alone, loses an output, or cannot take
\* them together: a frame codec two rates, a tokenizer an empty sound.  What it
\* returns always collates, and the codes and the utterances collated from the
\* samples are the same again when cut to their masks.
BatchesMatchSingles ==
    /\ values # Absent => values = [k \in DOMAIN samples |-> Single(spec, samples[k])]
    /\ "call" \in refused =>
        \/ \E k \in DOMAIN samples : Single(spec, samples[k]) = Absent
        \/ spec.how = "codec" /\ Cardinality({samples[k].rate : k \in DOMAIN samples}) > 1
        \/ spec.how = "tokenizer" /\ \E k \in DOMAIN samples : samples[k].units = <<>>
    /\ "codes" \notin refused
    /\ codes # Absent =>
        /\ CutTo(codes.first, FieldLengths(codes.mask)) = Firsts
        /\ spec.schema # "frame" =>
            \A k \in DOMAIN values :
                SubSeq(codes.second[k], 1,
                       IF spec.unit > 0 THEN spec.unit ELSE FieldLengths(codes.mask)[k])
                    = Single(spec, samples[k]).second
    /\ speech # Absent =>
        CutTo(speech.rows, speech.lengths) = [k \in DOMAIN samples |-> Prepared(samples[k])]
=============================================================================
