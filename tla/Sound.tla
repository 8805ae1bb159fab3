------------------------------- MODULE Sound -------------------------------
(***************************************************************************)
(* src/src/drivers/sound.c and the sound call of kernel/syscall_device.c:  *)
(* tones and sample sequences on the PC speaker, PCM on a Sound Blaster 16 *)
(* (16-bit samples streamed in chunks by its interrupt, 8-bit samples in   *)
(* one transfer) or on an AC97 controller, register sequences and effects  *)
(* on an OPL2.  A system call runs with interrupts off and is one step;    *)
(* the timer interrupt and the interrupt of the Sound Blaster run between  *)
(* calls.  A deadline is held as the ticks that are left until it, and     *)
(* Never stands for "no deadline"; a sample is its index in the request.   *)
(* The cards are external: what they do with the ports written to them.    *)
(***************************************************************************)
EXTENDS Integers, Sequences, SequencesExt, FiniteSetsExt

CONSTANTS SndKits,      \* the cards a machine may have: a set of subsets
                        \* of {"sb", "ac97", "opl"}
          SndTimer,     \* timer_get_hz()
          SndSlack,     \* the least slack of a PCM deadline
          SndChunk,     \* SB_PCM_STREAM_CHUNK_SAMPLES
          SndPcm,       \* requests [n, hz] for PCM
          SndTones,     \* tone lengths in ticks, 0 without end
          SndSeqs,      \* PIT sequences [samples, hz]
          SndSongs,     \* OPL sequences [events, hz, loop]; an event is
                        \* <<channel, key on, delay>>
          SndEffects,   \* OPL effects [samples, hz, ch]
          SndBudget,    \* OPL events or samples emitted per timer tick
          SndFirst,     \* OPL events emitted by the call itself
          SndFaults,    \* times a card stalls or its DSP stays busy
          SndCalls      \* bound on the calls

VARIABLES snd,      \* the variables of sound.c
          card,     \* the speaker gate, the transfers, the OPL keys
          take,     \* history: the last PCM request and what was heard of it
          sndKit, sndFaulty, sndLeft

sndVars == <<snd, card, take, sndKit, sndFaulty, sndLeft>>

Never == -1
SndIdle == [n |-> 0, from |-> 0, left |-> 0, mine |-> FALSE]
NoSong == [on |-> FALSE, events |-> <<>>, pos |-> 1, accum |-> 0, hz |-> 0,
           delay |-> 0, loop |-> FALSE]
NoEffect == [on |-> FALSE, samples |-> <<>>, pos |-> 1, accum |-> 0, hz |-> 0,
             ch |-> 1]

Channels == 1 .. 2

\* A step works on both halves at once.
S == [snd |-> snd, card |-> card, take |-> take]

SndInit ==
    /\ sndKit \in SndKits
    /\ snd = [active |-> FALSE, deadline |-> Never,
              seqOn |-> FALSE, seq |-> <<>>, seqPos |-> 1, seqAccum |-> 0,
              seqHz |-> 0,
              pcmOn |-> FALSE, pcmDeadline |-> 0, streaming |-> FALSE,
              pos |-> 0, len |-> 0, hz |-> 0, backend |-> "none",
              present |-> {}, song |-> NoSong, effect |-> NoEffect]
    /\ card = [gate |-> FALSE, sb |-> SndIdle, line |-> 0, stalled |-> FALSE,
               ac |-> SndIdle, key |-> [c \in Channels |-> "off"]]
    /\ take = [len |-> 0, done |-> 0, order |-> TRUE, cut |-> TRUE]
    /\ sndFaulty = SndFaults /\ sndLeft = SndCalls

----------------------------------------------------------------------------
(* The ports.                                                              *)

\* sound_sb_probe, sound_ac97_probe, sound_opl_probe: once found, present.
Probe(s, which) == [s EXCEPT !.snd.present = @ \cup (which \cap sndKit)]

SpeakerOff(s) == [s EXCEPT !.card.gate = FALSE]

\* sound_sb_ack_irq reads the two ports that lower the line.
SbAckIrq(s) == [s EXCEPT !.card.line = 0]

SbPause(s) == [s EXCEPT !.card.sb = SndIdle, !.card.stalled = FALSE]

SbStop(s) == IF "sb" \in s.snd.present THEN SbAckIrq(SbPause(s)) ELSE s

Ac97Stop(s) == IF "ac97" \in s.snd.present THEN [s EXCEPT !.card.ac = SndIdle] ELSE s

\* sound_opl_write_raw to the register that keys a channel on or off.
OplWrite(s, ch, on, by) ==
    [s EXCEPT !.card.key[ch] = IF on THEN by ELSE "off"]

\* sound_pcm_deadline_ticks, with its slack.
PcmDeadlineTicks(n, hz) ==
    Max({(n * SndTimer + hz - 1) \div hz, 1}) + Max({SndTimer \div 6, SndSlack})

\* The whole ticks a card needs for n samples.
PlayTicks(n, hz) == (n * SndTimer + hz - 1) \div hz

----------------------------------------------------------------------------
(* PCM.                                                                    *)

\* What is left of a request nothing will finish.
SndCut(s) == [s EXCEPT !.take.cut = TRUE, !.card.sb.mine = FALSE, !.card.ac.mine = FALSE]

PcmReset(s) ==
    [s EXCEPT !.snd.pcmOn = FALSE, !.snd.streaming = FALSE, !.snd.pos = 0,
              !.snd.len = 0, !.snd.hz = 0]

\* sound_stop.
SoundStop(s) ==
    LET t == Ac97Stop(SpeakerOff(s))
        u == IF t.snd.pcmOn \/ "sb" \in t.snd.present THEN SbStop(t) ELSE t
    IN  SndCut([PcmReset(u) EXCEPT !.snd.active = FALSE, !.snd.deadline = Never,
                                !.snd.seqOn = FALSE, !.snd.backend = "none"])

\* The transfer a card is set to: samples from on, n of them.
SbStart(s, from, n, hz) ==
    [s EXCEPT !.card.sb = [n |-> n, from |-> from, left |-> PlayTicks(n, hz),
                           mine |-> TRUE],
              !.snd.pcmDeadline = PcmDeadlineTicks(n, hz),
              !.snd.backend = "sb", !.snd.pcmOn = TRUE]

\* The offset is read after the position has moved.
MutStartNextChunk(s, busy) ==
    LET n == Min({s.snd.len - s.snd.pos, SndChunk})
        moved == [s EXCEPT !.snd.pos = @ + n]
        over == [s EXCEPT !.snd.streaming = FALSE, !.snd.pcmOn = FALSE]
    IN  IF s.snd.pos >= s.snd.len THEN [ok |-> FALSE, s |-> over]
        ELSE IF busy
        THEN [ok |-> FALSE, s |-> SndCut([moved EXCEPT !.snd.streaming = FALSE,
                                                    !.snd.pcmOn = FALSE])]
        ELSE [ok |-> TRUE, s |-> SbStart(moved, moved.snd.pos, n, s.snd.hz)]

\* sound_pcm16_start_next_chunk, with sound_pcm16_start_chunk.
StartNextChunk(s, busy) ==
    LET n == Min({s.snd.len - s.snd.pos, SndChunk})
        moved == [s EXCEPT !.snd.pos = @ + n]
        over == [s EXCEPT !.snd.streaming = FALSE, !.snd.pcmOn = FALSE]
    IN  IF s.snd.pos >= s.snd.len THEN [ok |-> FALSE, s |-> over]
        ELSE IF busy
        THEN [ok |-> FALSE, s |-> SndCut([moved EXCEPT !.snd.streaming = FALSE,
                                                    !.snd.pcmOn = FALSE])]
        ELSE [ok |-> TRUE, s |-> SbStart(moved, s.snd.pos, n, s.snd.hz)]

NewTake(s, n) ==
    [SndCut(s) EXCEPT !.take = [len |-> n, done |-> 0, order |-> TRUE, cut |-> FALSE]]

\* sound_ac97_pcm_u8.
Ac97Pcm(s, r) ==
    LET quiet == [s EXCEPT !.snd.active = FALSE, !.snd.seqOn = FALSE]
        halted == IF quiet.snd.pcmOn /\ quiet.snd.backend = "sb" THEN SbStop(quiet)
                  ELSE IF quiet.snd.pcmOn /\ quiet.snd.backend = "ac97"
                  THEN Ac97Stop(quiet) ELSE quiet
        ready == Ac97Stop(SpeakerOff([PcmReset(halted) EXCEPT !.snd.backend = "none"]))
    IN  [NewTake(ready, r.n) EXCEPT
           !.card.ac = [n |-> r.n, from |-> 0, left |-> PlayTicks(r.n, r.hz),
                        mine |-> TRUE],
           !.snd.pcmDeadline = PcmDeadlineTicks(r.n, r.hz),
           !.snd.backend = "ac97", !.snd.pcmOn = TRUE]

\* sound_pcm_u8_mode: the DSP may stay busy through a command, and the call
\* then fails with the card as far as it got.
PcmMode(s, r, mode, busy) ==
    LET quiet == [s EXCEPT !.snd.active = FALSE, !.snd.seqOn = FALSE]
        paused == PcmReset(IF quiet.snd.pcmOn THEN SbPause(quiet) ELSE quiet)
        alone == IF paused.snd.backend = "ac97" THEN Ac97Stop(paused) ELSE paused
        set == SbAckIrq(SpeakerOff([alone EXCEPT !.snd.backend = "sb"]))
        streams == [NewTake(set, r.n) EXCEPT !.snd.len = r.n, !.snd.hz = r.hz,
                                            !.snd.streaming = TRUE]
    IN  IF busy THEN SndCut(set)
        ELSE IF mode = "16" THEN StartNextChunk(streams, FALSE).s
        ELSE SbStart(NewTake(set, r.n), 0, r.n, r.hz)

\* sound_pcm_u8 prefers the AC97.
PcmU8(s, r, busy) ==
    LET t == Probe(s, {"ac97"})
        u == Probe(t, {"sb"})
    IN  IF "ac97" \in t.snd.present THEN Ac97Pcm(t, r)
        ELSE IF "sb" \in u.snd.present THEN PcmMode(u, r, "16", busy) ELSE u

PcmEight(s, r, busy) ==
    LET t == Probe(s, {"sb"})
    IN  IF "sb" \in t.snd.present THEN PcmMode(t, r, "8", busy) ELSE t

\* sound_irq_handler.
IrqHandler(s, busy) ==
    LET acked == IF "sb" \in s.snd.present THEN SbAckIrq(s) ELSE s
        next == StartNextChunk(acked, busy)
        over == IF acked.snd.streaming THEN next.s ELSE acked
    IN  IF acked.snd.streaming /\ next.ok THEN next.s
        ELSE [over EXCEPT !.snd.pcmOn = FALSE, !.snd.streaming = FALSE,
                          !.snd.backend = "none"]

----------------------------------------------------------------------------
(* The PC speaker.                                                         *)

ProgramDivisor(s) == [s EXCEPT !.card.gate = TRUE]

\* sound_emit_sequence_sample; a sample of zero is silence.
EmitSequenceSample(s) ==
    LET x == s.snd.seq[s.snd.seqPos]
        t == IF x = 0 THEN SpeakerOff(s) ELSE ProgramDivisor(s)
    IN  [t EXCEPT !.snd.seqPos = @ + 1]

\* sound_tone and sound_pit_divisor.
PitDivisor(s, ticks) ==
    [ProgramDivisor([s EXCEPT !.snd.pcmOn = FALSE, !.snd.seqOn = FALSE])
       EXCEPT !.snd.deadline = IF ticks = 0 THEN Never ELSE ticks,
              !.snd.active = TRUE]

\* sound_pit_sequence: the first sample sounds at once.
PitSequence(s, q) ==
    EmitSequenceSample(
      [s EXCEPT !.snd.pcmOn = FALSE, !.snd.active = FALSE, !.snd.deadline = Never,
                !.snd.seq = q.samples, !.snd.seqPos = 1, !.snd.seqAccum = 0,
                !.snd.seqHz = q.hz, !.snd.seqOn = TRUE])

\* One turn of the loop of sound_timer_tick over the sequence.
SequenceTurn(s) ==
    IF ~s.snd.seqOn \/ s.snd.seqAccum < SndTimer THEN s
    ELSE IF s.snd.seqPos > Len(s.snd.seq) THEN SoundStop(s)
    ELSE EmitSequenceSample([s EXCEPT !.snd.seqAccum = @ - SndTimer])

----------------------------------------------------------------------------
(* The OPL2.                                                               *)

\* One turn of sound_opl_sequence_emit_budget.
SongTurn(s) ==
    LET g == s.snd.song
        waited == g.accum >= g.delay * SndTimer
        rested == [g EXCEPT !.accum = @ - g.delay * SndTimer, !.delay = 0]
        at == IF g.pos > Len(g.events) THEN 1 ELSE g.pos
        e == g.events[at]
    IN  IF ~g.on \/ (g.delay > 0 /\ ~waited) THEN s
        ELSE IF g.pos > Len(g.events) /\ ~g.loop THEN [s EXCEPT !.snd.song = NoSong]
        ELSE OplWrite([s EXCEPT !.snd.song =
                         [rested EXCEPT !.pos = at + 1, !.delay = e[3]]],
                      e[1], e[2], "song")

Turns(s, Step(_), n) == FoldLeft(LAMBDA t, k : Step(t), s, [k \in 1 .. n |-> k])

\* sound_opl_sequence.
OplSequence(s, q) ==
    LET t == Probe(s, {"opl"})
    IN  IF "opl" \notin t.snd.present THEN t
        ELSE Turns([t EXCEPT !.snd.song =
                      [NoSong EXCEPT !.on = TRUE, !.events = q.events, !.hz = q.hz,
                                     !.loop = q.loop]], SongTurn, SndFirst)

SongStop(s) == [s EXCEPT !.snd.song = NoSong]

EffectKeyOff(s) == OplWrite(s, s.snd.effect.ch, FALSE, "effect")

\* sound_opl_effect_emit_sample.
EmitEffectSample(s) ==
    LET f == s.snd.effect
    IN  OplWrite([s EXCEPT !.snd.effect.pos = @ + 1], f.ch,
                 f.samples[f.pos] # 0, "effect")

\* sound_opl_effect_stop, which also begins sound_opl_effect.
EffectStop(s) ==
    [(IF s.snd.effect.on THEN EffectKeyOff(s) ELSE s) EXCEPT !.snd.effect = NoEffect]

\* sound_opl_effect.
OplEffect(s, f) ==
    LET t == Probe(s, {"opl"})
    IN  IF "opl" \notin t.snd.present THEN t
        ELSE EmitEffectSample([EffectStop(t) EXCEPT !.snd.effect =
               [NoEffect EXCEPT !.on = TRUE, !.samples = f.samples, !.hz = f.hz,
                                !.ch = f.ch]])

\* One turn of sound_opl_effect_emit_budget.
EffectTurn(s) ==
    LET f == s.snd.effect
        t == [s EXCEPT !.snd.effect.accum = @ - SndTimer]
    IN  IF ~f.on \/ f.accum < SndTimer THEN s
        ELSE IF f.pos > Len(f.samples) THEN [EffectKeyOff(t) EXCEPT !.snd.effect = NoEffect]
        ELSE EmitEffectSample(t)

\* sound_opl_reset clears every register.
OplReset(s) ==
    LET t == Probe(s, {"opl"})
    IN  IF "opl" \notin t.snd.present THEN t
        ELSE [EffectStop(SongStop(t)) EXCEPT !.card.key = [c \in Channels |-> "off"]]

----------------------------------------------------------------------------
(* sound_timer_tick.                                                       *)

OplTick(s) ==
    LET song == IF s.snd.song.on
                THEN Turns([s EXCEPT !.snd.song.accum = @ + s.snd.song.hz],
                           SongTurn, SndBudget) ELSE s
    IN  IF song.snd.effect.on
        THEN Turns([song EXCEPT !.snd.effect.accum = @ + song.snd.effect.hz],
                   EffectTurn, SndBudget)
        ELSE song

\* The deadline of a PCM transfer the card never finished, or of an AC97
\* one, which has no interrupt.
PcmTick(s) ==
    LET left == Max({s.snd.pcmDeadline - 1, 0})
        late == s.snd.pcmOn /\ left = 0
        s1 == [s EXCEPT !.snd.pcmDeadline = left]
        halted == IF s.snd.backend = "ac97" THEN Ac97Stop(s1) ELSE SbAckIrq(s1)
    IN  IF late THEN [halted EXCEPT !.snd.pcmOn = FALSE, !.snd.streaming = FALSE,
                                    !.snd.backend = "none"]
        ELSE s1

SpeakerTick(s) ==
    LET left == IF s.snd.deadline = Never THEN Never ELSE Max({s.snd.deadline - 1, 0})
        s1 == [s EXCEPT !.snd.deadline = left]
    IN  IF s.snd.seqOn
        THEN Turns([s1 EXCEPT !.snd.seqAccum = @ + s.snd.seqHz], SequenceTurn, SndBudget)
        ELSE IF s.snd.active /\ left = 0 THEN SoundStop(s1) ELSE s1

\* The cards play on between two ticks.
Played(s) == [s EXCEPT !.card.sb.left = Max({@ - 1, 0}),
                       !.card.ac.left = Max({@ - 1, 0}),
                       !.card.line = IF @ = 1 THEN 2 ELSE @]

TimerTick(s) == SpeakerTick(PcmTick(OplTick(Played(s))))

----------------------------------------------------------------------------
(* The cards.                                                              *)

\* A transfer ends: what it played counts when it belongs to the request
\* and continues it.
Heard(s, x) ==
    IF ~x.mine THEN s
    ELSE [s EXCEPT !.take.done = @ + x.n, !.take.order = @ /\ x.from = s.take.done]

\* No later than its last tick, unless it stalls.
SbDone(s) == [Heard(s, s.card.sb) EXCEPT !.card.sb = SndIdle, !.card.line = 1]
AcDone(s) == [Heard(s, s.card.ac) EXCEPT !.card.ac = SndIdle]

Becomes(s) == snd' = s.snd /\ card' = s.card /\ take' = s.take

SbFinishes ==
    /\ card.sb.n > 0 /\ card.sb.left <= 1 /\ ~card.stalled
    /\ Becomes(SbDone(S)) /\ UNCHANGED <<sndKit, sndFaulty, sndLeft>>

AcFinishes ==
    /\ card.ac.n > 0 /\ card.ac.left <= 1
    /\ Becomes(AcDone(S)) /\ UNCHANGED <<sndKit, sndFaulty, sndLeft>>

SbStalls ==
    /\ sndFaulty > 0 /\ card.sb.n > 0 /\ ~card.stalled
    /\ Becomes([SndCut(S) EXCEPT !.card.stalled = TRUE])
    /\ sndFaulty' = sndFaulty - 1 /\ UNCHANGED <<sndKit, sndLeft>>

----------------------------------------------------------------------------

Busy == IF sndFaulty > 0 THEN BOOLEAN ELSE {FALSE}
SndSpend(busy) == sndFaulty' = IF busy THEN sndFaulty - 1 ELSE sndFaulty

SndIrq(busy) ==
    /\ card.line > 0
    /\ Becomes(IrqHandler(S, busy)) /\ SndSpend(busy) /\ UNCHANGED <<sndKit, sndLeft>>

\* An interrupt is at most a tick late, and a card at most its last tick.
SndTick ==
    /\ card.line < 2
    /\ card.sb.n > 0 => card.sb.left > 0 \/ card.stalled
    /\ card.ac.n > 0 => card.ac.left > 0
    /\ Becomes(TimerTick(S)) /\ UNCHANGED <<sndKit, sndFaulty, sndLeft>>

SndCall(s) == sndLeft > 0 /\ sndLeft' = sndLeft - 1 /\ Becomes(s) /\ UNCHANGED sndKit

\* sys_sound_op.
CallPcm(r, busy) == r.n > 0 /\ SndCall(PcmU8(S, r, busy)) /\ SndSpend(busy)
CallEight(r, busy) == r.n > 0 /\ SndCall(PcmEight(S, r, busy)) /\ SndSpend(busy)
CallTone(ticks) == SndCall(PitDivisor(S, ticks)) /\ UNCHANGED sndFaulty
CallPit(q) == q.samples # <<>> /\ SndCall(PitSequence(S, q)) /\ UNCHANGED sndFaulty
CallSong(q) == q.events # <<>> /\ SndCall(OplSequence(S, q)) /\ UNCHANGED sndFaulty
CallEffect(f) == f.samples # <<>> /\ SndCall(OplEffect(S, f)) /\ UNCHANGED sndFaulty
CallStop == SndCall(SoundStop(S)) /\ UNCHANGED sndFaulty
CallSongStop == SndCall(SongStop(S)) /\ UNCHANGED sndFaulty
CallEffectStop == SndCall(EffectStop(S)) /\ UNCHANGED sndFaulty
CallReset == SndCall(OplReset(S)) /\ UNCHANGED sndFaulty
CallCaps == SndCall(Probe(S, {"ac97", "sb", "opl"})) /\ UNCHANGED sndFaulty

SndNext ==
    \/ \E r \in SndPcm, busy \in Busy : CallPcm(r, busy) \/ CallEight(r, busy)
    \/ \E t \in SndTones : CallTone(t)
    \/ \E q \in SndSeqs : CallPit(q)
    \/ \E q \in SndSongs : CallSong(q)
    \/ \E f \in SndEffects : CallEffect(f)
    \/ CallStop \/ CallSongStop \/ CallEffectStop \/ CallReset \/ CallCaps
    \/ \E busy \in Busy : SndIrq(busy)
    \/ SndTick \/ SbFinishes \/ AcFinishes \/ SbStalls

SndSpec == SndInit /\ [][SndNext]_sndVars

----------------------------------------------------------------------------

\* A PCM request nobody cut short (by another request, a stop, the end of a
\* tone or sequence, or a card that stalled or stayed busy) is played whole
\* and in order: the chunks the interrupt handler starts follow one another,
\* and no deadline of sound_timer_tick cuts off a card that is still playing.
PcmPlayedWhole ==
    /\ take.order
    /\ take.cut \/ take.done = take.len \/ card.line > 0
       \/ card.sb.mine \/ card.ac.mine

\* A note an effect holds on an OPL channel is released: a channel keyed on
\* by sound_opl_effect stays on only while that effect is the active one.
NoteReleased ==
    \A c \in Channels : card.key[c] = "effect" =>
        snd.effect.on /\ snd.effect.ch = c
=============================================================================
