---------------------------- MODULE S2STGrowth ----------------------------
(***************************************************************************)
(* plan_growth: which source rows are admitted next, and which (family,    *)
(* target language) pairs are planned for them.  A plan is a pure function *)
(* of the declared configuration, of the state the previous plan returned  *)
(* and of how many rows each source slot has.                              *)
(*                                                                         *)
(* The loop over the slots is a fold whose step is the identity once the   *)
(* loop condition fails.  All slots are measured at one moment: slots grow *)
(* independently, so any mixture of measurements is such a moment.         *)
(***************************************************************************)
EXTENDS Integers, Sequences, FiniteSets, SequencesExt

CONSTANTS
    Unknown,         \* None: a slot that was never measured, a voice without speaker
    Draw(_, _, _, _) \* the keyed hash of (pool revision, slot, row), below its last argument

-----------------------------------------------------------------------------
(* Declarations.                                                           *)

\* S2STConfig: at least two languages, each with slots, none of them twice.
ValidConfig(config) ==
    /\ Len(config.langs) >= 2
    /\ \A i \in DOMAIN config.langs : config.langs[i].slots # <<>>
    /\ IsInjective([i \in DOMAIN config.langs |-> config.langs[i].lang])
    /\ IsInjective(FlattenSeq([i \in DOMAIN config.langs |-> config.langs[i].slots]))
    /\ config.initial >= 1 /\ config.interval >= 1
    /\ ~config.reference => config.speakers # <<>> /\ IsInjective(config.speakers)

\* The slots of a configuration, in the order of its languages.
Slots(config) ==
    FlattenSeq([i \in DOMAIN config.langs |->
        [j \in DOMAIN config.langs[i].slots |->
            [lang |-> config.langs[i].lang, slot |-> config.langs[i].slots[j]]]])

SlotNamesOf(config) == {s.slot : s \in ToSet(Slots(config))}
LanguagesOf(config) == {l.lang : l \in ToSet(config.langs)}

\* S2STDeclaration: the part of a configuration one lineage may only extend.
Declaration(config) ==
    [langs |-> config.langs, reference |-> config.reference, speakers |-> config.speakers]

\* Languages, slots of a language and speakers may only be appended.
ValidSuccessor(old, new) ==
    /\ new.reference = old.reference
    /\ Len(new.langs) >= Len(old.langs)
    /\ \A i \in DOMAIN old.langs :
        /\ new.langs[i].lang = old.langs[i].lang
        /\ IsPrefix(old.langs[i].slots, new.langs[i].slots)
    /\ IsPrefix(old.speakers, new.speakers)

-----------------------------------------------------------------------------
(* The growth state.                                                       *)

\* SlotCursor of a slot nobody has looked at.
NewCursor == [next |-> 0, count |-> Unknown, exhausted |-> FALSE]

\* SourceFamily: an admitted row, its place in the admission order, its voice.
SourceFamily(key, sequence, lang, voice) ==
    [key |-> key, sequence |-> sequence, lang |-> lang, voice |-> voice]

\* PairPlan: one family in one target language.
PairPlan(family, target, first) ==
    [key |-> family.key, sequence |-> family.sequence, target |-> target, first |-> first]

\* LanguageCatchup: a new language is owed this many families of its own.
LanguageCatchup(lang, target) == [lang |-> lang, target |-> target]

\* S2STState.empty
EmptyState(config) ==
    [decl     |-> Declaration(config),
     revision |-> -1,
     pool     |-> 0,
     families |-> <<>>,
     pairs    |-> <<>>,
     cursors  |-> [s \in SlotNamesOf(config) |-> NewCursor],
     next     |-> 0,
     catchup  |-> <<>>]

\* S2STState.__post_init__: keys do not repeat.
StateIsUnique(state) ==
    /\ IsInjective([k \in DOMAIN state.families |-> state.families[k].key])
    /\ IsInjective([k \in DOMAIN state.pairs |->
                        <<state.pairs[k].key, state.pairs[k].target>>])
    /\ IsInjective([k \in DOMAIN state.catchup |-> state.catchup[k].lang])

LanguageCount(state, lang) ==
    Cardinality({k \in DOMAIN state.families : state.families[k].lang = lang})

\* _updated: take over a longer declaration.  The next slot stays the same
\* slot, although slots may have been inserted before it.
Updated(config, state) ==
    IF Declaration(config) = state.decl THEN state ELSE
    LET olds   == {l.lang : l \in ToSet(state.decl.langs)}
        most   == Max({0} \cup {LanguageCount(state, l) : l \in olds})
        added  == SubSeq(config.langs, Len(state.decl.langs) + 1, Len(config.langs))
        before == Slots(state.decl)
        after  == Slots(config)
        resume == before[(state.next % Len(before)) + 1].slot
    IN [state EXCEPT
          !.decl    = Declaration(config),
          !.pool    = IF config.speakers = state.decl.speakers THEN @ ELSE @ + 1,
          !.cursors = [s \in SlotNamesOf(config) |->
                         IF s \in DOMAIN @ THEN @[s] ELSE NewCursor],
          !.catchup = @ \o [i \in DOMAIN added |-> LanguageCatchup(added[i].lang, most)],
          !.next    = (CHOOSE i \in DOMAIN after : after[i].slot = resume) - 1]

-----------------------------------------------------------------------------
(* Pairs of old families with new languages.                               *)

Planned(state) == {<<p.key, p.target>> : p \in ToSet(state.pairs)}

MissingLanguages(config, state, family) ==
    SelectSeq([i \in DOMAIN config.langs |-> config.langs[i].lang],
              LAMBDA l : l # family.lang /\ <<family.key, l>> \notin Planned(state))

\* Mutant: families that miss nothing use up the limit.
BackfillFirst(config, state, limit) ==
    LET touched == SubSeq(state.families, 1,
                          IF Len(state.families) < limit THEN Len(state.families) ELSE limit)
        PairsOf(f) == LET missing == MissingLanguages(config, state, f)
                      IN [i \in DOMAIN missing |-> PairPlan(f, missing[i], FALSE)]
    IN FlattenSeq([k \in DOMAIN touched |-> PairsOf(touched[k])])

\* _backfill: the first limit families that miss a language, all they miss.
Backfill(config, state, limit) ==
    LET lacking == SelectSeq(state.families,
                             LAMBDA f : MissingLanguages(config, state, f) # <<>>)
        touched == SubSeq(lacking, 1, IF Len(lacking) < limit THEN Len(lacking) ELSE limit)
        PairsOf(f) == LET missing == MissingLanguages(config, state, f)
                      IN [i \in DOMAIN missing |-> PairPlan(f, missing[i], FALSE)]
    IN FlattenSeq([k \in DOMAIN touched |-> PairsOf(touched[k])])

-----------------------------------------------------------------------------
(* Admission, round robin over the slots.                                  *)

\* _voice
Voice(config, state, key) ==
    IF config.reference THEN [speaker |-> Unknown, source |-> key]
    ELSE [speaker |-> config.speakers[1 + Draw(state.pool, key.slot, key.row,
                                               Len(config.speakers))],
          pool    |-> state.pool]

\* The loop passes a slot it takes nothing from.
PassSlot(loop, cursors, next) ==
    [loop EXCEPT !.cursors = cursors, !.next = next, !.stalled = @ + 1]

\* The loop takes the next row of a slot and pairs it with every other language.
TakeRow(config, state, loop, here, source, next) ==
    LET cursor  == loop.cursors[here.slot]
        key     == [slot |-> here.slot, row |-> cursor.next]
        family  == SourceFamily(key, Len(loop.families), here.lang, Voice(config, state, key))
        targets == SelectSeq([i \in DOMAIN config.langs |-> config.langs[i].lang],
                             LAMBDA l : l # here.lang)
    IN [loop EXCEPT
          !.families = Append(@, family),
          !.pairs    = @ \o [i \in DOMAIN targets |-> PairPlan(family, targets[i], i = 1)],
          !.cursors  = [@ EXCEPT ![here.slot] =
                          [next      |-> cursor.next + 1,
                           count     |-> source.len,
                           exhausted |-> source.sealed /\ cursor.next + 1 >= source.len]],
          !.next     = next,
          !.stalled  = 0,
          !.added    = @ + 1]

\* The loop looks at one slot.
VisitSlot(config, state, quota, loop, here, source, next) ==
    LET cursor == loop.cursors[here.slot]
    IN IF \/ here.lang \notin DOMAIN quota
          \/ LanguageCount(loop, here.lang) >= quota[here.lang]
       THEN PassSlot(loop, loop.cursors, next)
       ELSE IF cursor.count # Unknown /\ source.len < cursor.count
       THEN [loop EXCEPT !.shrank = TRUE]
       ELSE IF cursor.next >= source.len
       THEN PassSlot(loop,
                     [loop.cursors EXCEPT ![here.slot].count = source.len,
                                          ![here.slot].exhausted = source.sealed],
                     next)
       ELSE TakeRow(config, state, loop, here, source, next)

\* One turn of the loop of _admit.  quota bounds the families of a language
\* and names the languages that may be admitted at all.
AdmitStep(config, state, rows, slots, quota, limit, loop) ==
    IF loop.added >= limit \/ loop.stalled >= Len(slots) \/ loop.shrank THEN loop ELSE
    LET here == slots[(loop.next % Len(slots)) + 1]
    IN VisitSlot(config, state, quota, loop, here, rows[here.slot],
                 (loop.next + 1) % Len(slots))

AdmitLoop(config, state, rows, slots, quota, limit) ==
    FoldLeft(LAMBDA l, i : AdmitStep(config, state, rows, slots, quota, limit, l),
             [families |-> state.families, pairs |-> state.pairs,
              cursors |-> state.cursors, next |-> state.next % Len(slots),
              stalled |-> 0, added |-> 0, shrank |-> FALSE],
             [i \in 1 .. (limit + 1) * Len(slots) |-> i])

Admitted(state, loop) ==
    [shrank |-> loop.shrank,
     added  |-> loop.added,
     state  |-> [state EXCEPT !.families = loop.families, !.pairs = loop.pairs,
                              !.cursors = loop.cursors, !.next = loop.next]]

\* _admit: the state after at most limit admissions.
Admit(config, state, rows, quota, limit) ==
    Admitted(state, AdmitLoop(config, state, rows, Slots(config), quota, limit))

\* Mutant: a source that merely has no further row yet counts as exhausted.
LanguageDrained(config, state, lang) ==
    \A s \in ToSet(Slots(config)) : s.lang = lang =>
        /\ state.cursors[s.slot].count # Unknown
        /\ state.cursors[s.slot].next >= state.cursors[s.slot].count

LanguageExhausted(config, state, lang) ==
    \A s \in ToSet(Slots(config)) : s.lang = lang => state.cursors[s.slot].exhausted

\* Catch-up entries whose language is short of its target and not exhausted.
PendingCatchup(config, state, entries) ==
    SelectSeq(entries, LAMBDA c : /\ LanguageCount(state, c.lang) < c.target
                                  /\ ~LanguageExhausted(config, state, c.lang))

CatchupQuota(pending) ==
    [l \in {c.lang : c \in ToSet(pending)} |->
        (CHOOSE c \in ToSet(pending) : c.lang = l).target]

CaughtUp(config, result, pending) ==
    [result EXCEPT !.state.catchup = PendingCatchup(config, result.state, pending)]

CatchupOf(config, state, rows, limit, pending) ==
    IF pending = <<>>
    THEN [shrank |-> FALSE, added |-> 0, state |-> [state EXCEPT !.catchup = <<>>]]
    ELSE CaughtUp(config, Admit(config, state, rows, CatchupQuota(pending), limit), pending)

\* _catchup: admit families of the new languages alone, up to their targets.
Catchup(config, state, rows, limit) ==
    CatchupOf(config, state, rows, limit, PendingCatchup(config, state, state.catchup))

-----------------------------------------------------------------------------
(* The plan.                                                               *)

\* _commit: a plan that adds something takes the next revision.
Commit(before, after, phase) ==
    [phase |-> phase,
     pairs |-> SubSeq(after.pairs, Len(before.pairs) + 1, Len(after.pairs)),
     state |-> [after EXCEPT !.revision = @ + 1]]

Failed == [phase |-> "FAILED"]

\* The third phase: what any language offers.
PlanVertical(current, grown, phase) ==
    IF grown.shrank THEN Failed
    ELSE IF grown.added > 0 THEN Commit(current, grown.state, phase)
    ELSE [phase |-> "IDLE", pairs |-> <<>>, state |-> grown.state]

\* The second: what the new languages still owe.
PlanSources(config, current, caught, rows, limit, phase) ==
    IF caught.shrank THEN Failed
    ELSE IF caught.added > 0 THEN Commit(current, caught.state, "LANGUAGE_SOURCES")
    ELSE PlanVertical(current,
                      Admit(config, caught.state, rows,
                            [l \in LanguagesOf(config) |-> Len(caught.state.families) + limit],
                            limit),
                      phase)

\* The first: pairs of old families with new languages.
PlanPairs(config, current, added, rows, limit, phase) ==
    IF added # <<>>
    THEN Commit(current, [current EXCEPT !.pairs = @ \o added], "LANGUAGE_BACKFILL")
    ELSE PlanSources(config, current, Catchup(config, current, rows, limit),
                     rows, limit, phase)

PlanFrom(config, current, rows, limit, phase) ==
    PlanPairs(config, current, Backfill(config, current, limit), rows, limit, phase)

\* plan_growth.  previous is Unknown for the first plan of a lineage.
PlanGrowth(config, previous, rows) ==
    IF previous = Unknown
    THEN PlanFrom(config, EmptyState(config), rows, config.initial, "INITIAL")
    ELSE IF ~ValidSuccessor(previous.decl, Declaration(config)) THEN Failed
    ELSE PlanFrom(config, Updated(config, previous), rows, config.interval, "VERTICAL")
=============================================================================
