--------------------------- MODULE ProgramProofs ----------------------------
(***************************************************************************)
(* The programs and the sound under them.                                  *)
(*                                                                         *)
(* The score never drifts from what is played, no key hangs, and a clip is *)
(* the device's until it is done, for any scores, rates and gaps between   *)
(* updates.  An editor that shows no " *" shows the file, if its disk did  *)
(* not fail.  A launch that nothing disturbed opens the file that was      *)
(* selected, if the path fits.                                             *)
(***************************************************************************)
EXTENDS Sound, Editor, Handoff, SharedFacts

-----------------------------------------------------------------------------
\* The score's clock.

Player(m) == m = [score |-> m.score, pos |-> m.pos, looping |-> m.looping, playing |-> m.playing,
                  remaining |-> m.remaining, carry |-> m.carry]
Update(u) == u = [step |-> u.step, n |-> u.n, rem |-> u.rem]

Clock ==
  /\ Player(mus) /\ Update(upd)
  /\ mus.score \in Scores \cup {<<>>} /\ mus.pos \in Nat \ {0}
  /\ mus.carry \in Int /\ mus.remaining \in Int /\ upd.rem \in Int /\ due \in Int

DInv == Clock /\ NoDrift

LEMMA InitDInv == InitSound => DInv
BY DEF InitSound, DInv, Clock, Player, Update, NoDrift

\* The one step that rounds: what is scheduled and what the clock shows grow alike.
LEMMA DelayKeepsDInv ==
  ASSUME DInv, upd.step = "block", mus.playing,
         NEW delay \in Nat, NEW total, total = delay * RATE + mus.carry,
         mus' = [mus EXCEPT !.pos = @ + 1, !.carry = carried(total)],
         upd' = [upd EXCEPT !.rem = @ + (total \div HZ)],
         due' = due + delay * RATE
  PROVE  DInv'
<1>1. RATE \in Nat /\ HZ \in Nat \ {0}
  BY SoundAssumption
<1>2. mus.carry \in 0 .. HZ - 1 /\ due = upd.rem * HZ + mus.carry /\ upd.rem \in Int
  BY DEF DInv, Clock, NoDrift
<1>3. total \in Nat
  <2>1. delay * RATE \in Nat
    BY <1>1
  <2> QED
    BY <1>2, <2>1
<1>4. /\ total \div HZ \in Nat /\ carried(total) \in 0 .. HZ - 1
      /\ total = (total \div HZ) * HZ + carried(total)
  BY <1>1, <1>3, DivMod DEF carried
<1>5. /\ mus' = [score |-> mus.score, pos |-> mus.pos + 1, looping |-> mus.looping, playing |-> mus.playing,
                 remaining |-> mus.remaining, carry |-> carried(total)]
      /\ upd' = [step |-> upd.step, n |-> upd.n, rem |-> upd.rem + (total \div HZ)]
  BY DEF DInv, Clock, Player, Update
<1>6. due' = (upd.rem + (total \div HZ)) * HZ + carried(total)
  <2>1. due' = upd.rem * HZ + total
    <3>1. delay * RATE \in Nat /\ upd.rem * HZ \in Int
      BY <1>1, <1>2
    <3> QED
      BY <1>2, <3>1
  <2>2. (upd.rem + (total \div HZ)) * HZ = upd.rem * HZ + (total \div HZ) * HZ
    BY <1>1, <1>2, <1>4
  <2>3. upd.rem * HZ \in Int /\ (total \div HZ) * HZ \in Int
    BY <1>1, <1>2, <1>4
  <2> QED
    BY <1>4, <2>1, <2>2, <2>3
<1>7. Clock'
  <2>1. due' \in Int
    BY <1>1, <1>2
  <2>2. upd.rem + (total \div HZ) \in Int /\ carried(total) \in Int /\ mus.pos + 1 \in Nat \ {0}
    BY <1>2, <1>4 DEF DInv, Clock
  <2> QED
    BY <1>5, <2>1, <2>2 DEF DInv, Clock, Player, Update
<1>8. NoDrift'
  BY <1>4, <1>5, <1>6 DEF NoDrift
<1> QED
  BY <1>7, <1>8 DEF DInv

LEMMA EventKeepsDInv == ASSUME DInv, process_event PROVE DInv'
<1> DEFINE e == mus.score[mus.pos]
           total == e.delay * RATE + mus.carry
<1>0. upd.step = "block" /\ mus.playing
  BY DEF process_event
<1>1. CASE UNCHANGED <<upd, due>> /\ (\/ mus' = [mus EXCEPT !.playing = FALSE]
                                    \/ mus' = [mus EXCEPT !.pos = @ + 1, !.playing = FALSE]
                                    \/ mus' = [mus EXCEPT !.pos = @ + 1]
                                    \/ mus' = [mus EXCEPT !.pos = 1])
  <2> DEFINE Now(pos, playing) ==
               [score |-> mus.score, pos |-> pos, looping |-> mus.looping, playing |-> playing,
                remaining |-> mus.remaining, carry |-> mus.carry]
  <2>1. ASSUME NEW pos \in Nat \ {0}, mus' = Now(pos, FALSE) PROVE DInv'
    <3>1. Clock'
      BY <1>1, <2>1 DEF DInv, Clock, Player, Update
    <3>2. NoDrift'
      BY <1>1, <2>1 DEF DInv, NoDrift
    <3> QED
      BY <3>1, <3>2 DEF DInv
  <2>2. ASSUME NEW pos \in Nat \ {0}, mus' = Now(pos, mus.playing) PROVE DInv'
    <3>1. Clock'
      BY <1>1, <2>2 DEF DInv, Clock, Player, Update
    <3>2. NoDrift'
      BY <1>1, <2>2 DEF DInv, NoDrift
    <3> QED
      BY <3>1, <3>2 DEF DInv
  <2>3. mus.pos \in Nat \ {0} /\ mus.pos + 1 \in Nat \ {0} /\ 1 \in Nat \ {0}
    BY DEF DInv, Clock
  <2>4. \/ mus' = Now(mus.pos, FALSE) \/ mus' = Now(mus.pos + 1, FALSE)
        \/ mus' = Now(mus.pos + 1, mus.playing) \/ mus' = Now(1, mus.playing)
    BY <1>1 DEF DInv, Clock, Player
  <2> HIDE DEF Now
  <2> QED
    BY <2>1, <2>2, <2>3, <2>4
<1>2. CASE /\ ~(mus.pos > Len(mus.score)) /\ e.delay \notin {Nil, Cut}
           /\ mus' = [mus EXCEPT !.pos = @ + 1, !.carry = carried(total)]
           /\ upd' = [upd EXCEPT !.rem = @ + (total \div HZ)]
           /\ due' = due + e.delay * RATE
  <2>1. mus.score \in Scores
    BY <1>2 DEF DInv, Clock
  <2>2. mus.pos \in 1 .. Len(mus.score)
    BY <1>2, <2>1, SoundAssumption DEF DInv, Clock
  <2>3. e.delay \in Nat
    BY <1>2, <2>1, <2>2, SoundAssumption
  <2> HIDE DEF e
  <2> QED
    BY <1>0, <1>2, <2>3, DelayKeepsDInv
<1> QED
  BY <1>1, <1>2 DEF process_event

LEMMA UpdateKeepsDInv == ASSUME DInv, NEW ms \in Gaps, dg_sound_update(ms) PROVE DInv'
<1> DEFINE n == samples(ms)
<1>1. n \in Int
  <2>1. lesser(ms, MAX_GAP) \in Nat
    BY SoundAssumption DEF lesser
  <2>2. lesser(ms, MAX_GAP) * RATE \in Nat
    BY <2>1, SoundAssumption
  <2> QED
    BY <2>2, SoundAssumption, DivMod DEF samples
<1>2. /\ upd.step = "idle" /\ mus' = mus
      /\ upd' = [step |-> IF mus.playing THEN "block" ELSE "render", n |-> n, rem |-> mus.remaining - n]
      /\ due' = IF mus.playing THEN due - n * HZ ELSE due
  BY DEF dg_sound_update, NoUpdate
<1> HIDE DEF n
<1>3. HZ \in Nat /\ n * HZ \in Int
  BY <1>1, SoundAssumption
<1>4. Clock'
  BY <1>1, <1>2, <1>3 DEF DInv, Clock, Player, Update
<1>5. NoDrift'
  <2> SUFFICES ASSUME mus.playing PROVE due' = (mus.remaining - n) * HZ + mus.carry /\ mus.carry \in 0 .. HZ - 1
    BY <1>2 DEF NoDrift
  <2>1. due = mus.remaining * HZ + mus.carry /\ mus.carry \in 0 .. HZ - 1
    BY <1>2 DEF DInv, NoDrift
  <2>2. (mus.remaining - n) * HZ = mus.remaining * HZ - n * HZ
    BY <1>1, <1>3 DEF DInv, Clock
  <2>3. mus.remaining * HZ \in Int /\ mus.carry \in Int
    BY <1>3 DEF DInv, Clock
  <2> QED
    BY <1>2, <1>3, <2>1, <2>2, <2>3
<1> QED
  BY <1>4, <1>5 DEF DInv

LEMMA NextDInv == DInv /\ [NextSound]_soundVars => DInv'
<1> SUFFICES ASSUME DInv, [NextSound]_soundVars PROVE DInv'
  OBVIOUS
<1>1. ASSUME NEW s \in Scores, NEW looping \in BOOLEAN, mus_player_play(s, looping) PROVE DInv'
  BY <1>1, SoundAssumption DEF mus_player_play, NoUpdate, DInv, Clock, Player, Update, NoDrift
<1>2. CASE mus_player_stop
  BY <1>2 DEF mus_player_stop, DInv, Clock, Player, Update, NoDrift
<1>3. CASE advance_end
  BY <1>3 DEF advance_end, DInv, Clock, Player, Update, NoDrift
<1>4. CASE audio_mixer_render
  BY <1>4 DEF audio_mixer_render, DInv, Clock, Player, Update, NoDrift
<1>5. CASE virtio_sound_play
  BY <1>5 DEF virtio_sound_play, DInv, Clock, Player, Update, NoDrift
<1>6. CASE \/ control_roundtrip \/ device_played \/ UNCHANGED soundVars
           \/ \E len \in SfxLens : dg_sound_start(len)
  <2>1. UNCHANGED <<mus, upd, due>>
    BY <1>6 DEF control_roundtrip, device_played, soundVars, dg_sound_start
  <2> QED
    BY <2>1 DEF DInv, Clock, Player, Update, NoDrift
<1> QED
  BY <1>1, <1>2, <1>3, <1>4, <1>5, <1>6, EventKeepsDInv, UpdateKeepsDInv DEF NextSound, UpdateStep

SpecSound == InitSound /\ [][NextSound]_soundVars

\* Rounding of delays to samples never accumulates, for any scores, rates and
\* gaps between updates (mus_player.c:164-193).
THEOREM ScoreNeverDrifts == SpecSound => []NoDrift
<1>1. DInv => NoDrift
  BY DEF DInv
<1> QED
  BY <1>1, InitDInv, NextDInv, PTL DEF SpecSound

-----------------------------------------------------------------------------
\* The voices.

VInv ==
  /\ voice = [v \in Voices |-> voice[v]]
  /\ VoicesHeld
  /\ Nil \notin held

LEMMA NoteOnKeeps == ASSUME VInv, NEW k, k # Nil, audio_mixer_note_on(k) PROVE VInv'
<1>1. CASE UNCHANGED <<voice, held, dropped>>
  BY <1>1 DEF VInv, VoicesHeld, Sounding
<1>2. ASSUME NEW first \in Voices, voice[first] = Nil, sounding(k) = {},
             voice' = [voice EXCEPT ![first] = k],
             held' = held \cup {k}, dropped' = dropped \ {k}
      PROVE  VInv'
  <2>1. \A v \in Voices : voice'[v] = IF v = first THEN k ELSE voice[v]
    BY <1>2 DEF VInv
  <2>2. \A v \in Voices : voice[v] # k
    BY <1>2 DEF sounding
  <2>3. Sounding' = Sounding \cup {k}
    BY <1>2, <2>1 DEF Sounding
  <2>4. Sounding' = held' \ dropped'
    BY <1>2, <2>3 DEF VInv, VoicesHeld
  <2>5. \A v, u \in Voices : voice'[v] = voice'[u] /\ voice'[v] # Nil => v = u
    BY <2>1, <2>2 DEF VInv, VoicesHeld
  <2>6. voice' = [v \in Voices |-> voice'[v]]
    BY <1>2 DEF VInv
  <2> QED
    BY <1>2, <2>4, <2>5, <2>6 DEF VInv, VoicesHeld
<1>3. CASE /\ sounding(k) = {} /\ voice' = voice
           /\ held' = held \cup {k} /\ dropped' = dropped \cup {k}
  <2>1. k \notin Sounding
    BY <1>3 DEF Sounding, sounding
  <2> QED
    BY <1>3, <2>1 DEF VInv, VoicesHeld, Sounding
<1> QED
  BY <1>1, <1>2, <1>3 DEF audio_mixer_note_on

LEMMA SilenceKeeps == ASSUME VInv, NEW keys, Nil \notin keys, Silence(keys) PROVE VInv'
<1>1. /\ voice' = [v \in Voices |-> IF voice[v] \in keys THEN Nil ELSE voice[v]]
      /\ held' = held \ keys /\ dropped' = dropped \ keys
  BY DEF Silence
<1>2. \A v \in Voices : voice'[v] = IF voice[v] \in keys THEN Nil ELSE voice[v]
  BY <1>1
<1>3. Sounding' = Sounding \ keys
  BY <1>2 DEF Sounding
<1>4. Sounding' = held' \ dropped'
  BY <1>1, <1>3 DEF VInv, VoicesHeld
<1>5. \A v, u \in Voices : voice'[v] = voice'[u] /\ voice'[v] # Nil => v = u
  BY <1>2 DEF VInv, VoicesHeld
<1>6. voice' = [v \in Voices |-> voice'[v]]
  BY <1>1
<1> QED
  BY <1>1, <1>4, <1>5, <1>6 DEF VInv, VoicesHeld

LEMMA AllSilent == ASSUME VInv, silence_all PROVE VInv'
<1>1. Nil \notin Sounding \cup held
  BY DEF VInv, Sounding
<1> QED
  BY <1>1, SilenceKeeps DEF silence_all

LEMMA PlayedKeeps ==
  ASSUME VInv, NEW e, <<e.ch, e.note>> # Nil, played(e)
  PROVE  VInv'
<1>1. CASE audio_mixer_note_off(<<e.ch, e.note>>)
  BY <1>1, SilenceKeeps DEF audio_mixer_note_off
<1>2. CASE audio_mixer_note_on(<<e.ch, e.note>>)
  BY <1>2, NoteOnKeeps
<1>3. CASE audio_mixer_channel_notes_off(e.ch)
  <2>1. Nil \notin {k \in Sounding \cup held : k[1] = e.ch}
    BY DEF VInv, Sounding
  <2> QED
    BY <1>3, <2>1, SilenceKeeps DEF audio_mixer_channel_notes_off
<1>4. CASE silence_all
  BY <1>4, AllSilent
<1>5. CASE UNCHANGED <<voice, held, dropped>>
  BY <1>5 DEF VInv, VoicesHeld, Sounding
<1> QED
  BY <1>1, <1>2, <1>3, <1>4, <1>5 DEF played

LEMMA NextVInv == DInv /\ VInv /\ [NextSound]_soundVars => VInv'
<1> SUFFICES ASSUME DInv, VInv, [NextSound]_soundVars PROVE VInv'
  OBVIOUS
<1>1. ASSUME NEW s \in Scores, NEW looping \in BOOLEAN, mus_player_play(s, looping) PROVE VInv'
  BY <1>1, AllSilent DEF mus_player_play
<1>2. CASE mus_player_stop
  BY <1>2, AllSilent DEF mus_player_stop
<1>3. CASE process_event /\ ~(mus.pos > Len(mus.score))
  <2> DEFINE e == mus.score[mus.pos]
  <2>1. mus.score \in Scores
    BY <1>3 DEF DInv, Clock
  <2>2. mus.pos \in 1 .. Len(mus.score)
    BY <1>3, <2>1, SoundAssumption DEF DInv, Clock
  <2>3. <<e.ch, e.note>> # Nil
    BY <2>1, <2>2, SoundAssumption
  <2>4. played(e)
    BY <1>3 DEF process_event
  <2> QED
    BY <2>3, <2>4, PlayedKeeps
<1>4. CASE \/ process_event /\ mus.pos > Len(mus.score)
           \/ advance_end \/ audio_mixer_render \/ virtio_sound_play
           \/ control_roundtrip \/ device_played \/ UNCHANGED soundVars
           \/ (\E len \in SfxLens : dg_sound_start(len)) \/ (\E ms \in Gaps : dg_sound_update(ms))
  <2>1. UNCHANGED <<voice, held, dropped>>
    BY <1>4 DEF process_event, advance_end, audio_mixer_render, virtio_sound_play, control_roundtrip,
                device_played, soundVars, dg_sound_start, dg_sound_update
  <2> QED
    BY <2>1 DEF VInv, VoicesHeld, Sounding
<1> QED
  BY <1>1, <1>2, <1>3, <1>4 DEF NextSound, UpdateStep

\* No key hangs and none is cut short, whatever the scores, the number of voices
\* and the calls in between (audio_mixer.c:62-102, mus_player.c:96-151).
THEOREM NoKeyHangs == SpecSound => []VoicesHeld
<1>1. InitSound => VInv
  BY DEF InitSound, VInv, VoicesHeld, Sounding, Silent
<1>2. VInv => VoicesHeld
  BY DEF VInv
<1> QED
  BY <1>1, <1>2, InitDInv, NextDInv, NextVInv, PTL DEF SpecSound

-----------------------------------------------------------------------------
\* The clip.

\* The device has the clip from when it is published until its index moves, and
\* the driver has seen the move by the time it publishes another.
ClipInv ==
  /\ tx = [avail |-> tx.avail, used |-> tx.used, last_used |-> tx.last_used, in_flight |-> tx.in_flight]
  /\ {tx.avail, tx.used, tx.last_used} \subseteq 0 .. TxMod - 1
  /\ upd = [step |-> upd.step, n |-> upd.n, rem |-> upd.rem]
  /\ IF tx.in_flight /\ tx.used = tx.last_used THEN tx.avail = wrap(tx.used) ELSE tx.avail = tx.used
  /\ ~tx.in_flight => tx.used = tx.last_used

LEMMA WrapMoves == ASSUME NEW i \in 0 .. TxMod - 1 PROVE wrap(i) \in 0 .. TxMod - 1 /\ wrap(i) # i
<1>1. TxMod \in Nat /\ TxMod > 1
  BY SoundAssumption
<1>2. CASE i + 1 < TxMod
  BY <1>1, <1>2, Remainder DEF wrap
<1>3. CASE i + 1 = TxMod
  BY <1>1, <1>3, Remainder DEF wrap
<1> QED
  BY <1>1, <1>2, <1>3

LEMMA InitClip == InitSound => ClipInv
BY SoundAssumption DEF InitSound, ClipInv

LEMMA PlayKeepsClip ==
  ASSUME ClipInv, virtio_sound_play
  PROVE  /\ ClipInv'
         /\ clip' # clip \/ tx'.avail # tx.avail => ~WithDevice
         /\ answer' = "refused" /\ control = "ready" => WithDevice
<1>1. upd' = [step |-> "idle", n |-> 0, rem |-> 0]
  BY DEF virtio_sound_play
<1>2. wrap(tx.avail) \in 0 .. TxMod - 1 /\ wrap(tx.used) # tx.used
  BY WrapMoves DEF ClipInv
<1>3. CASE control # "ready" \/ still_playing
  <2>1. answer' = "refused" /\ UNCHANGED <<tx, clip>>
    BY <1>3 DEF virtio_sound_play
  <2>2. control = "ready" => WithDevice
    BY <1>2, <1>3 DEF still_playing, WithDevice, ClipInv
  <2> QED
    BY <1>1, <2>1, <2>2 DEF ClipInv
<1>4. CASE ~(control # "ready" \/ still_playing)
  <2>1. /\ answer' = "taken"
        /\ tx' = [avail |-> wrap(tx.avail), used |-> tx.used,
                  last_used |-> IF tx.in_flight THEN tx.used ELSE tx.last_used, in_flight |-> TRUE]
    BY <1>4 DEF virtio_sound_play, ClipInv
  <2>2. ~WithDevice
    BY <1>4 DEF still_playing, WithDevice, ClipInv
  <2>3. tx.avail = tx.used /\ tx'.last_used = tx.used
    BY <2>1, <2>2 DEF WithDevice, ClipInv
  <2> QED
    BY <1>1, <1>2, <2>1, <2>2, <2>3 DEF ClipInv
<1> QED
  BY <1>3, <1>4

LEMMA NextClip == ClipInv /\ [NextSound]_soundVars =>
                    /\ ClipInv'
                    /\ [ /\ clip' # clip \/ tx'.avail # tx.avail => ~WithDevice
                         /\ answer' = "refused" /\ upd.step = "submit" /\ control = "ready" => WithDevice
                       ]_soundVars
<1> SUFFICES ASSUME ClipInv, [NextSound]_soundVars
             PROVE  /\ ClipInv'
                    /\ UNCHANGED soundVars \/ (clip' # clip \/ tx'.avail # tx.avail => ~WithDevice)
                    /\ UNCHANGED soundVars
                         \/ (answer' = "refused" /\ upd.step = "submit" /\ control = "ready" => WithDevice)
  OBVIOUS
<1>1. CASE virtio_sound_play
  BY <1>1, PlayKeepsClip
<1>2. CASE device_played
  <2>1. /\ tx' = [avail |-> tx.avail, used |-> wrap(tx.used), last_used |-> tx.last_used, in_flight |-> tx.in_flight]
        /\ WithDevice /\ UNCHANGED <<clip, upd>>
    BY <1>2 DEF device_played, ClipInv
  <2>2. tx.avail = wrap(tx.used) /\ tx.in_flight /\ tx.used = tx.last_used
    BY <2>1 DEF WithDevice, ClipInv
  <2>3. wrap(tx.used) \in 0 .. TxMod - 1 /\ wrap(tx.used) # tx.used
    BY WrapMoves DEF ClipInv
  <2> QED
    BY <2>1, <2>2, <2>3 DEF ClipInv
<1>3. ASSUME UNCHANGED <<tx, clip>>, upd' = [step |-> upd'.step, n |-> upd'.n, rem |-> upd'.rem],
             upd.step # "submit" \/ control # "ready"
      PROVE  /\ ClipInv'
             /\ clip' = clip /\ tx' = tx
  BY <1>3 DEF ClipInv
<1>4. CASE control_roundtrip
  BY <1>3, <1>4 DEF control_roundtrip, AfterRequest, ClipInv
<1>5. CASE \/ \E s \in Scores, looping \in BOOLEAN : mus_player_play(s, looping)
           \/ mus_player_stop
           \/ \E len \in SfxLens : dg_sound_start(len)
  BY <1>3, <1>5 DEF mus_player_play, mus_player_stop, dg_sound_start, NoUpdate, deviceSide, ClipInv
<1>6. CASE \E ms \in Gaps : dg_sound_update(ms)
  BY <1>3, <1>6 DEF dg_sound_update, NoUpdate, deviceSide, ClipInv
<1>7. CASE process_event
  <2>1. UNCHANGED <<tx, clip>> /\ upd.step = "block"
    BY <1>7 DEF process_event, deviceSide
  <2>2. upd' = upd \/ upd' = [upd EXCEPT !.rem = upd'.rem]
    BY <1>7 DEF process_event
  <2> QED
    BY <1>3, <2>1, <2>2 DEF ClipInv
<1>8. CASE advance_end
  BY <1>3, <1>8 DEF advance_end, deviceSide, ClipInv
<1>9. CASE audio_mixer_render
  BY <1>3, <1>9 DEF audio_mixer_render, deviceSide, ClipInv
<1>10. CASE UNCHANGED soundVars
  BY <1>10 DEF soundVars, deviceSide, ClipInv
<1> QED
  BY <1>1, <1>2, <1>4, <1>5, <1>6, <1>7, <1>8, <1>9, <1>10 DEF NextSound, UpdateStep

\* A clip stays as it was taken until the device is done with it, and one is
\* refused only while the device has one or there is no device
\* (virtio_sound.c:313-332).
THEOREM ClipStaysIntact == SpecSound => ClipIntact
<1> QED
  BY InitClip, NextClip, PTL DEF SpecSound, ClipIntact

-----------------------------------------------------------------------------
\* The editor.

LEMMA MinOf == ASSUME NEW S \in SUBSET Nat, S # {}
               PROVE  Min(S) \in S /\ \A x \in S : Min(S) <= x
<1>1. \E n \in S : \A m \in S : n <= m
  BY LeastOf
<1> QED
  BY <1>1 DEF Min

LEMMA MaxOf == ASSUME NEW n \in Nat, NEW S \in SUBSET (0 .. n), S # {}
               PROVE  Max(S) \in S /\ \A x \in S : x <= Max(S)
<1>1. PICK T : T = {n - x : x \in S}
  OBVIOUS
<1>2. T \in SUBSET Nat /\ T # {}
  <2>1. \A x \in S : n - x \in Nat
    OBVIOUS
  <2> QED
    BY <1>1, <2>1
<1>3. PICK k \in T : \A m \in T : k <= m
  BY <1>2, LeastOf
<1>4. PICK x \in S : k = n - x
  BY <1>1, <1>3
<1>5. \A y \in S : x >= y
  <2> SUFFICES ASSUME NEW y \in S PROVE x >= y
    OBVIOUS
  <2>1. n - x <= n - y
    BY <1>1, <1>3, <1>4
  <2> QED
    BY <2>1
<1> QED
  BY <1>5 DEF Max

Text == Seq(Char \cup {NL})

\* text_buf has room for the text and its final 0, and the cursor is in the text.
InText == text \in Text /\ Len(text) <= MAX_TEXT - 1 /\ cursor \in 0 .. Len(text)

EditorInv ==
  /\ InText
  /\ file \in Text \cup {Absent}
  /\ CleanIsSaved

LEMMA Joined == ASSUME NEW S, NEW a \in Seq(S), NEW b \in Seq(S)
                PROVE  a \o b \in Seq(S) /\ Len(a \o b) = Len(a) + Len(b)
OBVIOUS

\* A text that fits is loaded as it is, of another the beginning.
LEMMA Loaded == ASSUME NEW t \in Text
                PROVE  /\ load_file(t) \in Text /\ Len(load_file(t)) <= MAX_TEXT - 1
                       /\ Len(t) <= MAX_TEXT - 1 => load_file(t) = t
<1>1. t # Absent /\ Len(t) \in Nat /\ MAX_TEXT - 1 \in Nat
  BY EditorAssumption DEF Text
<1>2. PICK n : n = Min({Len(t), MAX_TEXT - 1})
  OBVIOUS
<1>3. n \in {Len(t), MAX_TEXT - 1} /\ n <= Len(t) /\ n <= MAX_TEXT - 1
  <2>1. {Len(t), MAX_TEXT - 1} \in SUBSET Nat
    BY <1>1
  <2> QED
    BY <1>2, <2>1, MinOf
<1>4. load_file(t) = SubSeq(t, 1, n)
  BY <1>1, <1>2 DEF load_file
<1>5. n \in Nat /\ SubSeq(t, 1, n) \in Text /\ Len(SubSeq(t, 1, n)) = n
  BY <1>1, <1>3 DEF Text
<1>6. ASSUME Len(t) <= MAX_TEXT - 1 PROVE SubSeq(t, 1, n) = t
  BY <1>1, <1>3, <1>6 DEF Text
<1> QED
  BY <1>3, <1>4, <1>5, <1>6

LEMMA InitEditorInv == InitEditor => EditorInv
<1> SUFFICES ASSUME InitEditor PROVE EditorInv
  OBVIOUS
<1>1. /\ file \in Text \cup {Absent} /\ cursor = 0
      /\ text = <<>> \/ (has_path /\ text = load_file(file))
      /\ io_failed = FALSE => text = IF has_path THEN load_file(file) ELSE <<>>
  BY EditorAssumption DEF InitEditor, Text
<1>2. load_file(Absent) = <<>> /\ <<>> \in Text /\ Len(<<>>) = 0 /\ MAX_TEXT - 1 \in Nat
  BY EditorAssumption DEF load_file, Text
<1>3. text \in Text /\ Len(text) <= MAX_TEXT - 1
  BY <1>1, <1>2, Loaded
<1> QED
  BY <1>1, <1>3 DEF EditorInv, InText, CleanIsSaved, Text

\* Where the scans for a line's ends stop.
LEMMA Scans == ASSUME InText, NEW pos \in 0 .. Len(text)
               PROVE  /\ line_start(pos) \in 0 .. pos
                      /\ line_end(pos) \in pos .. Len(text)
<1>1. Len(text) \in Nat /\ Ends \subseteq 0 .. Len(text) - 1
  BY DEF InText, Text, Ends, text_len
<1>2. line_start(pos) \in 0 .. pos
  <2>1. PICK S : S = {0} \cup {i + 1 : i \in {e \in Ends : e < pos}}
    OBVIOUS
  <2>2. S \in SUBSET (0 .. pos) /\ S # {} /\ pos \in Nat
    BY <1>1, <2>1
  <2>3. Max(S) \in S
    BY <2>2, MaxOf
  <2> QED
    BY <2>1, <2>2, <2>3 DEF line_start
<1>3. line_end(pos) \in pos .. Len(text)
  <2>1. PICK S : S = {Len(text)} \cup {i \in Ends : i >= pos}
    OBVIOUS
  <2>2. S \subseteq pos .. Len(text) /\ S # {}
    <3>1. ASSUME NEW i \in Ends, i >= pos PROVE i \in pos .. Len(text)
      BY <1>1, <3>1
    <3>2. Len(text) \in pos .. Len(text)
      BY <1>1
    <3> QED
      BY <2>1, <3>1, <3>2
  <2>3. S \in SUBSET Nat
    BY <1>1, <2>2
  <2>4. Min(S) \in S
    BY <2>2, <2>3, MinOf
  <2> QED
    BY <2>1, <2>2, <2>4 DEF line_end, text_len
<1> QED
  BY <1>2, <1>3

\* A key that moves the cursor leaves it in the text.
LEMMA CursorStays ==
  ASSUME InText, KC_LEFT \/ KC_RIGHT \/ move_up \/ move_down \/ KC_HOME \/ KC_END
  PROVE  cursor' \in 0 .. Len(text) /\ UNCHANGED <<text, has_path, dirty_flag, file, io_failed>>
<1>1. Len(text) \in Nat /\ cursor \in 0 .. Len(text)
  BY DEF InText, Text
<1>2. line_start(cursor) \in 0 .. cursor /\ line_end(cursor) \in cursor .. Len(text)
  BY <1>1, Scans
<1>3. CASE KC_LEFT \/ KC_RIGHT \/ KC_HOME \/ KC_END
  BY <1>1, <1>2, <1>3 DEF KC_LEFT, KC_RIGHT, KC_HOME, KC_END, Goto, text_len
<1>4. ASSUME NEW a \in Nat, NEW b \in Nat PROVE Min({a, b}) \in Nat /\ Min({a, b}) <= b
  <2>1. {a, b} \in SUBSET Nat
    OBVIOUS
  <2> QED
    BY <2>1, MinOf
<1>5. column \in Nat
  BY <1>1, <1>2 DEF column
<1>6. CASE move_up
  <2>1. PICK e, b : e = line_start(cursor) - 1 /\ b = line_start(e)
    OBVIOUS
  <2>2. /\ line_start(cursor) > 0 /\ cursor' = b + Min({column, e - b})
        /\ UNCHANGED <<text, has_path, dirty_flag, file, io_failed>>
    BY <1>6, <2>1 DEF move_up, Goto
  <2>3. e \in 0 .. Len(text)
    BY <1>1, <1>2, <2>1, <2>2
  <2>4. b \in 0 .. e
    BY <2>1, <2>3, Scans
  <2>5. Min({column, e - b}) \in Nat /\ Min({column, e - b}) <= e - b
    BY <1>4, <1>5, <2>3, <2>4
  <2> QED
    BY <1>1, <2>2, <2>3, <2>4, <2>5
<1>7. CASE move_down
  <2>1. PICK b, e : b = line_end(cursor) + 1 /\ e = line_end(b)
    OBVIOUS
  <2>2. /\ line_end(cursor) < Len(text) /\ cursor' = b + Min({column, e - b})
        /\ UNCHANGED <<text, has_path, dirty_flag, file, io_failed>>
    BY <1>7, <2>1 DEF move_down, Goto, text_len
  <2>3. b \in 0 .. Len(text)
    BY <1>1, <1>2, <2>1, <2>2
  <2>4. e \in b .. Len(text)
    BY <2>1, <2>3, Scans
  <2>5. Min({column, e - b}) \in Nat /\ Min({column, e - b}) <= e - b
    BY <1>4, <1>5, <2>3, <2>4
  <2> QED
    BY <1>1, <2>2, <2>3, <2>4, <2>5
<1> QED
  BY <1>3, <1>6, <1>7

LEMMA NextEditorInv == EditorInv /\ [NextEditor]_editorVars => EditorInv'
<1> SUFFICES ASSUME EditorInv, [NextEditor]_editorVars PROVE EditorInv'
  OBVIOUS
<1>1. /\ text \in Text /\ Len(text) \in Nat /\ Len(text) <= MAX_TEXT - 1 /\ cursor \in 0 .. Len(text)
      /\ file \in Text \cup {Absent} /\ MAX_TEXT \in Nat
  BY EditorAssumption DEF EditorInv, InText, Text
<1>2. ASSUME NEW c \in Char \cup {NL}, insert_char(c) PROVE EditorInv'
  <2>1. PICK l, r : l = SubSeq(text, 1, cursor) /\ r = SubSeq(text, cursor + 1, Len(text))
    OBVIOUS
  <2>2. /\ Len(text) < MAX_TEXT - 1 /\ dirty_flag' = TRUE /\ file' = file /\ cursor' = cursor + 1
        /\ text' = (l \o <<c>>) \o r
    BY <1>1, <1>2, <2>1 DEF insert_char, InsertAt, edited, text_len
  <2>3. l \in Text /\ Len(l) = cursor /\ r \in Text /\ Len(r) = Len(text) - cursor
    BY <1>1, <2>1 DEF Text
  <2>4. <<c>> \in Text /\ Len(<<c>>) = 1
    BY DEF Text
  <2>5. l \o <<c>> \in Text /\ Len(l \o <<c>>) = cursor + 1
    BY <2>3, <2>4, Joined DEF Text
  <2>6. text' \in Text /\ Len(text') = Len(text) + 1
    <3>1. text' \in Text /\ Len(text') = (cursor + 1) + (Len(text) - cursor)
      BY <2>2, <2>3, <2>5, Joined DEF Text
    <3> QED
      BY <1>1, <3>1
  <2>7. InText'
    BY <1>1, <2>2, <2>6 DEF InText, Text
  <2> QED
    BY <1>1, <2>2, <2>7 DEF EditorInv, CleanIsSaved, Text
<1>3. CASE delete_before_cursor
  <2>1. PICK l, r : l = SubSeq(text, 1, cursor - 1) /\ r = SubSeq(text, cursor + 1, Len(text))
    OBVIOUS
  <2>2. cursor > 0 /\ dirty_flag' = TRUE /\ file' = file /\ cursor' = cursor - 1 /\ text' = l \o r
    BY <1>3, <2>1 DEF delete_before_cursor, RemoveAt, edited
  <2>3. l \in Text /\ Len(l) = cursor - 1 /\ r \in Text /\ Len(r) = Len(text) - cursor
    BY <1>1, <2>1, <2>2 DEF Text
  <2>4. text' \in Text /\ Len(text') = Len(text) - 1
    <3>1. text' \in Text /\ Len(text') = (cursor - 1) + (Len(text) - cursor)
      BY <2>2, <2>3, Joined DEF Text
    <3> QED
      BY <1>1, <3>1
  <2>5. InText'
    BY <1>1, <2>2, <2>4 DEF InText, Text
  <2> QED
    BY <1>1, <2>2, <2>5 DEF EditorInv, CleanIsSaved, Text
<1>4. CASE KC_LEFT \/ KC_RIGHT \/ move_up \/ move_down \/ KC_HOME \/ KC_END
  <2>1. cursor' \in 0 .. Len(text) /\ UNCHANGED <<text, has_path, dirty_flag, file, io_failed>>
    BY <1>4, CursorStays DEF EditorInv
  <2> QED
    BY <1>1, <2>1 DEF EditorInv, InText, CleanIsSaved
<1>5. CASE save_file
  <2>1. /\ file' \in {text, <<>>, file} /\ io_failed' = (file' # text) /\ UNCHANGED <<text, cursor, has_path>>
    BY <1>5 DEF save_file
  <2>2. <<>> \in Text
    BY DEF Text
  <2>3. load_file(text) = text
    BY <1>1, Loaded
  <2>4. ~io_failed' => load_file(file)' = text
    BY <2>1, <2>3 DEF load_file
  <2> QED
    BY <1>1, <2>1, <2>2, <2>4 DEF EditorInv, InText, CleanIsSaved
<1>6. CASE UNCHANGED editorVars
  BY <1>6 DEF editorVars, EditorInv, InText, CleanIsSaved
<1> QED
  BY <1>2, <1>3, <1>4, <1>5, <1>6 DEF NextEditor

\* Whatever is typed, wherever the keys move the cursor, it and the text stay
\* inside text_buf (main.c:34-108).
THEOREM TextFits == SpecEditor => []InText
<1>1. EditorInv => InText
  BY DEF EditorInv
<1> QED
  BY <1>1, InitEditorInv, NextEditorInv, PTL DEF SpecEditor

\* Without the header's " *" the file holds the text shown, for any file and any
\* keys, unless the load or the last save failed below the editor, which it shows
\* nobody (main.c:110-134).
THEOREM CleanIsOnDisk == SpecEditor => []CleanIsSaved
<1>1. EditorInv => CleanIsSaved
  BY DEF EditorInv
<1> QED
  BY <1>1, InitEditorInv, NextEditorInv, PTL DEF SpecEditor

-----------------------------------------------------------------------------
\* How long paths are.

\* The characters of a path's first n words.
LettersTo(path, n) == UNION {{i} \X (1 .. Width[path[i]]) : i \in 1 .. n}

LEMMA LettersGrow ==
  ASSUME NEW path, NEW n \in Nat \ {0}, Width[path[n]] \in Nat, IsFiniteSet(LettersTo(path, n - 1))
  PROVE  /\ IsFiniteSet(LettersTo(path, n))
         /\ Cardinality(LettersTo(path, n)) = Cardinality(LettersTo(path, n - 1)) + Width[path[n]]
<1>1. PICK A, B, w : A = LettersTo(path, n - 1) /\ w = Width[path[n]] /\ B = {n} \X (1 .. w)
  OBVIOUS
<1>2. LettersTo(path, n) = A \cup B
  <2>1. \A c : c \in LettersTo(path, n) <=> \E i \in 1 .. n : c \in {i} \X (1 .. Width[path[i]])
    BY DEF LettersTo
  <2>2. \A c : c \in A <=> \E i \in 1 .. n - 1 : c \in {i} \X (1 .. Width[path[i]])
    BY <1>1 DEF LettersTo
  <2>3. \A i : i \in 1 .. n <=> i \in 1 .. n - 1 \/ i = n
    OBVIOUS
  <2> QED
    BY ONLY <1>1, <2>1, <2>2, <2>3
<1>3. A \cap B = {}
  <2>1. SUFFICES ASSUME NEW c, c \in A, c \in B PROVE FALSE
    OBVIOUS
  <2>2. PICK i \in 1 .. n - 1 : c \in {i} \X (1 .. Width[path[i]])
    BY <1>1, <2>1 DEF LettersTo
  <2>3. c[1] = i /\ c[1] = n
    BY <1>1, <2>1, <2>2
  <2>4. i # n
    OBVIOUS
  <2> QED
    BY <2>3, <2>4
<1>4. IsFiniteSet(B) /\ Cardinality(B) = w
  <2>1. IsFiniteSet({n}) /\ Cardinality({n}) = 1
    BY FS_Singleton
  <2>2. IsFiniteSet(1 .. w) /\ Cardinality(1 .. w) = w
    <3>1. w \in Int /\ 1 \in Int
      BY <1>1
    <3>2. IsFiniteSet(1 .. w) /\ Cardinality(1 .. w) = IF 1 > w THEN 0 ELSE w - 1 + 1
      BY <3>1, FS_Interval
    <3> QED
      BY <1>1, <3>2
  <2>3. IsFiniteSet({n} \X (1 .. w)) /\ Cardinality({n} \X (1 .. w)) = Cardinality({n}) * Cardinality(1 .. w)
    BY <2>1, <2>2, FS_Product
  <2>4. 1 * w = w
    BY <1>1
  <2> QED
    BY <1>1, <2>1, <2>2, <2>3, <2>4
<1>5. /\ IsFiniteSet(A \cup B)
      /\ Cardinality(A \cup B) = Cardinality(A) + Cardinality(B) - Cardinality(A \cap B)
  BY <1>1, <1>4, FS_Union
<1>6. Cardinality(A) \in Nat /\ Cardinality({}) = 0
  BY <1>1, FS_CardinalityType, FS_EmptySet
<1> QED
  BY <1>1, <1>2, <1>3, <1>4, <1>5, <1>6

LEMMA WidthNat == \A x \in Word : Width[x] \in Nat \ {0}
BY HandoffAssumption

LEMMA LettersFinite == ASSUME NEW path \in Seq(Word), NEW n \in 0 .. Len(path)
                       PROVE  IsFiniteSet(LettersTo(path, n))
<1> DEFINE Bad == {m \in 0 .. Len(path) : ~IsFiniteSet(LettersTo(path, m))}
<1>1. SUFFICES ASSUME Bad # {} PROVE FALSE
  OBVIOUS
<1>2. PICK m \in Bad : \A k \in Bad : m <= k
  <2>1. Bad \in SUBSET Nat
    OBVIOUS
  <2> HIDE DEF Bad
  <2> QED
    BY <1>1, <2>1, LeastOf
<1>3. m # 0
  <2>1. LettersTo(path, 0) = {}
    <3>1. 1 .. 0 = {}
      OBVIOUS
    <3> QED
      BY <3>1 DEF LettersTo
  <2> QED
    BY <2>1, FS_EmptySet
<1>4. m \in Nat \ {0} /\ m - 1 \in 0 .. Len(path) /\ ~(m <= m - 1) /\ m \in 1 .. Len(path)
  BY <1>3
<1>5. IsFiniteSet(LettersTo(path, m - 1))
  BY <1>2, <1>4
<1>6. Width[path[m]] \in Nat
  BY <1>4, WidthNat
<1> QED
  BY <1>4, <1>5, <1>6, LettersGrow

LEMMA CharsTo == ASSUME NEW path \in Seq(Word), NEW n \in 0 .. Len(path)
                 PROVE  /\ SubSeq(path, 1, n) \in Seq(Word)
                        /\ chars(SubSeq(path, 1, n)) = Cardinality(LettersTo(path, n))
                        /\ chars(SubSeq(path, 1, n)) \in Nat
<1>1. PICK q : q = SubSeq(path, 1, n)
  OBVIOUS
<1>2. q \in Seq(Word) /\ DOMAIN q = 1 .. n /\ \A i \in 1 .. n : q[i] = path[i]
  BY <1>1
<1>3. Letters(q) = LettersTo(path, n)
  BY <1>2 DEF Letters, LettersTo
<1>4. Cardinality(LettersTo(path, n)) \in Nat
  BY LettersFinite, FS_CardinalityType
<1> QED
  BY <1>1, <1>2, <1>3, <1>4 DEF chars

LEMMA CharsOf == ASSUME NEW path \in Seq(Word)
                 PROVE  chars(path) \in Nat /\ chars(path) = Cardinality(LettersTo(path, Len(path)))
<1>1. SubSeq(path, 1, Len(path)) = path /\ Len(path) \in 0 .. Len(path)
  OBVIOUS
<1> QED
  BY <1>1, CharsTo

LEMMA CharsNone == chars(<<>>) = 0
<1>1. Letters(<<>>) = {}
  BY DEF Letters
<1> QED
  BY <1>1, FS_EmptySet DEF chars

LEMMA CharsAdded == ASSUME NEW path \in Seq(Word), NEW x \in Word
                    PROVE  Append(path, x) \in Seq(Word) /\ chars(Append(path, x)) = chars(path) + Width[x]
<1>1. PICK q, n : q = Append(path, x) /\ n = Len(path) + 1
  OBVIOUS
<1>2. /\ q \in Seq(Word) /\ Len(q) = n /\ n \in Nat \ {0} /\ n - 1 = Len(path) /\ q[n] = x
      /\ \A i \in 1 .. n - 1 : q[i] = path[i]
  BY <1>1
<1>3. LettersTo(q, n - 1) = LettersTo(path, n - 1)
  BY <1>2 DEF LettersTo
<1>4. n - 1 \in 0 .. Len(path)
  BY <1>2
<1>5. IsFiniteSet(LettersTo(q, n - 1)) /\ Width[q[n]] \in Nat
  BY <1>2, <1>3, <1>4, LettersFinite, WidthNat
<1>6. Cardinality(LettersTo(q, n)) = Cardinality(LettersTo(q, n - 1)) + Width[q[n]]
  BY <1>2, <1>5, LettersGrow
<1> QED
  BY <1>1, <1>2, <1>3, <1>6, CharsOf

LEMMA CutShort == ASSUME NEW path, NEW max, chars(path) <= max PROVE cut(path, max) = path
BY DEF cut

\* What does not fit is cut to exactly what there is room for.
LEMMA CutLong == ASSUME NEW path \in Seq(Word), NEW max \in Nat, chars(path) > max
                 PROVE  cut(path, max) \in Seq(Word) /\ chars(cut(path, max)) = max
<1>1. PICK W : W = {n \in DOMAIN path : chars(SubSeq(path, 1, n)) <= max}
  OBVIOUS
<1>2. PICK w : w = Max({0} \cup W)
  OBVIOUS
<1>3. Len(path) \in Nat /\ DOMAIN path = 1 .. Len(path)
  OBVIOUS
<1>4. w \in {0} \cup W /\ \A k \in {0} \cup W : k <= w
  <2>1. {0} \cup W \in SUBSET (0 .. Len(path))
    BY <1>1, <1>3
  <2> QED
    BY <1>2, <1>3, <2>1, MaxOf
<1>5. w \in 0 .. Len(path)
  BY <1>1, <1>3, <1>4
<1>6. PICK kept : kept = SubSeq(path, 1, w)
  OBVIOUS
<1>7. kept \in Seq(Word) /\ chars(kept) \in Nat /\ chars(kept) <= max
  <2>1. kept \in Seq(Word) /\ chars(kept) \in Nat
    BY <1>5, <1>6, CharsTo
  <2>2. CASE w = 0
    <3>1. kept = <<>>
      BY <1>6, <2>2
    <3> QED
      BY <2>1, <3>1, CharsNone
  <2>3. CASE w # 0
    BY <1>1, <1>4, <1>6, <2>1, <2>3
  <2> QED
    BY <2>2, <2>3
<1>8. w # Len(path)
  <2>1. SUFFICES ASSUME w = Len(path) PROVE FALSE
    OBVIOUS
  <2>2. kept = path
    <3>1. SubSeq(path, 1, Len(path)) = path
      BY <1>3
    <3> QED
      BY ONLY <1>6, <2>1, <3>1
  <2>3. chars(path) \in Nat /\ chars(path) <= max
    BY <1>7, <2>2
  <2> QED
    BY <2>3
<1>9. PICK x : x = path[w + 1]
  OBVIOUS
<1>10. w + 1 \in 1 .. Len(path) /\ w + 1 \in 0 .. Len(path) /\ x \in Word /\ ~(w + 1 <= w)
  <2>1. w + 1 \in 1 .. Len(path) /\ w + 1 \in 0 .. Len(path) /\ ~(w + 1 <= w)
    <3>1. PICK n : n = Len(path)
      OBVIOUS
    <3>2. n \in Nat /\ w \in 0 .. n /\ w # n
      BY <1>3, <1>5, <1>8, <3>1
    <3>3. w + 1 \in 1 .. n /\ w + 1 \in 0 .. n /\ ~(w + 1 <= w)
      BY ONLY <3>2
    <3> QED
      BY ONLY <3>1, <3>3
  <2>2. \A i \in 1 .. Len(path) : path[i] \in Word
    OBVIOUS
  <2> QED
    BY <1>9, <2>1, <2>2
<1>11. chars(kept) + Width[x] > max
  <2>1. SubSeq(path, 1, w + 1) = Append(kept, x)
    BY <1>5, <1>6, <1>9, <1>10
  <2>2. chars(SubSeq(path, 1, w + 1)) = chars(kept) + Width[x]
    BY <1>7, <1>10, <2>1, CharsAdded
  <2>3. ~(chars(SubSeq(path, 1, w + 1)) <= max)
    BY <1>1, <1>3, <1>4, <1>10
  <2>4. chars(SubSeq(path, 1, w + 1)) \in Nat
    BY <1>10, CharsTo
  <2> QED
    BY <2>2, <2>3, <2>4
<1>12. PICK left : left = max - chars(kept)
  OBVIOUS
<1>13. cut(path, max) = IF left = 0 THEN kept ELSE Append(kept, Start[x][left])
  <2>1. ~(chars(path) <= max)
    <3>1. chars(path) \in Nat
      BY CharsOf
    <3> QED
      BY <3>1
  <2>2. whole(path, max) = w
    BY <1>1, <1>2 DEF whole
  <2> QED
    BY <1>6, <1>9, <1>12, <2>1, <2>2 DEF cut
<1>14. CASE left = 0
  BY <1>7, <1>12, <1>13, <1>14
<1>15. CASE left # 0
  <2>1. Width[x] \in Nat /\ left \in 1 .. Width[x] - 1
    BY <1>7, <1>10, <1>11, <1>12, <1>15, WidthNat
  <2>2. x \in Names
    BY <1>10, <2>1, HandoffAssumption DEF Word
  <2>3. Start[x][left] \in Word /\ Width[Start[x][left]] = left
    BY <2>1, <2>2, HandoffAssumption DEF Word
  <2>4. /\ Append(kept, Start[x][left]) \in Seq(Word)
        /\ chars(Append(kept, Start[x][left])) = chars(kept) + left
    BY <1>7, <2>3, CharsAdded
  <2> QED
    BY <1>7, <1>12, <1>13, <1>15, <2>4
<1> QED
  BY <1>14, <1>15

LEMMA CutPath == ASSUME NEW path \in Seq(Word), NEW max \in Nat
                 PROVE  cut(path, max) \in Seq(Word) /\ chars(cut(path, max)) <= max
<1>1. chars(path) \in Nat
  BY CharsOf
<1>2. CASE chars(path) <= max
  BY <1>2, CutShort
<1>3. CASE chars(path) > max
  BY <1>3, CutLong
<1> QED
  BY <1>1, <1>2, <1>3

-----------------------------------------------------------------------------
\* Where paths lead.

\* Where a path's first n words lead.
WayOf(w, path, n) ==
  /\ w = [k \in 0 .. n |-> w[k]]
  /\ w[0] = Root
  /\ \A k \in 1 .. n : w[k] = IF path[k] = Slash THEN w[k - 1] ELSE Enter(w[k - 1], path[k])

LEMMA WayExists == ASSUME NEW path, NEW n \in Nat PROVE \E w : WayOf(w, path, n)
<1> DEFINE Bad == {m \in Nat : ~ \E w : WayOf(w, path, m)}
<1>1. SUFFICES ASSUME Bad # {} PROVE FALSE
  OBVIOUS
<1>2. PICK m \in Bad : \A k \in Bad : m <= k
  <2>1. Bad \in SUBSET Nat
    OBVIOUS
  <2> HIDE DEF Bad
  <2> QED
    BY <1>1, <2>1, LeastOf
<1>3. m # 0
  <2>1. PICK w : w = [k \in 0 .. 0 |-> Root]
    OBVIOUS
  <2>2. WayOf(w, path, 0)
    BY <2>1 DEF WayOf
  <2> QED
    BY <2>2
<1>4. m \in Nat /\ m - 1 \in Nat
  BY <1>3
<1>5. PICK v : WayOf(v, path, m - 1)
  BY <1>2, <1>4
<1>6. PICK w : w = [k \in 0 .. m |-> IF k < m THEN v[k] ELSE IF path[m] = Slash THEN v[m - 1]
                                                              ELSE Enter(v[m - 1], path[m])]
  OBVIOUS
<1>7. /\ \A k \in 0 .. m - 1 : w[k] = v[k]
      /\ w[m] = IF path[m] = Slash THEN v[m - 1] ELSE Enter(v[m - 1], path[m])
  BY <1>4, <1>6
<1>8. WayOf(w, path, m)
  <2>1. w = [k \in 0 .. m |-> w[k]]
    BY <1>6
  <2>2. w[0] = Root
    BY <1>4, <1>5, <1>7 DEF WayOf
  <2>3. ASSUME NEW k \in 1 .. m
        PROVE  w[k] = IF path[k] = Slash THEN w[k - 1] ELSE Enter(w[k - 1], path[k])
    <3>1. w[k - 1] = v[k - 1]
      BY <1>4, <1>7
    <3>2. CASE k = m
      BY <1>7, <3>1, <3>2
    <3>3. CASE k # m
      <4>1. k \in 1 .. m - 1 /\ k \in 0 .. m - 1
        BY <1>4, <3>3
      <4> QED
        BY <1>5, <1>7, <3>1, <4>1 DEF WayOf
    <3> QED
      BY <3>2, <3>3
  <2> QED
    BY <2>1, <2>2, <2>3 DEF WayOf
<1> QED
  BY <1>8

\* Two paths that begin alike lead the same way as far.
LEMMA WayUnique ==
  ASSUME NEW v, NEW w, NEW path, NEW other, NEW n \in Nat, NEW m \in Nat,
         WayOf(v, path, n), WayOf(w, other, m), n <= m, \A k \in 1 .. n : path[k] = other[k]
  PROVE  v[n] = w[n]
<1> DEFINE Bad == {k \in 0 .. n : v[k] # w[k]}
<1>1. SUFFICES ASSUME Bad # {} PROVE FALSE
  OBVIOUS
<1>2. PICK k \in Bad : \A j \in Bad : k <= j
  <2>1. Bad \in SUBSET Nat
    OBVIOUS
  <2> HIDE DEF Bad
  <2> QED
    BY <1>1, <2>1, LeastOf
<1>3. k # 0
  BY DEF WayOf
<1>4. k \in 1 .. n /\ k \in 1 .. m /\ k - 1 \in 0 .. n /\ ~(k <= k - 1)
  BY <1>3
<1>5. v[k - 1] = w[k - 1]
  BY <1>2, <1>4
<1>6. v[k] = w[k]
  BY <1>4, <1>5 DEF WayOf
<1> QED
  BY <1>6

LEMMA Resolved == ASSUME NEW path, Len(path) \in Nat, NEW w, WayOf(w, path, Len(path))
                  PROVE  resolve_path(path) = w[Len(path)]
<1> DEFINE Is(v) == v = [n \in 0 .. Len(path) |->
                           IF n = 0 THEN Root
                           ELSE IF path[n] = Slash THEN v[n - 1] ELSE Enter(v[n - 1], path[n])]
<1>1. resolve_path(path) = (CHOOSE v : Is(v))[Len(path)]
  BY DEF resolve_path
<1>2. Is(w)
  <2>1. ASSUME NEW n \in 0 .. Len(path)
        PROVE  w[n] = IF n = 0 THEN Root ELSE IF path[n] = Slash THEN w[n - 1] ELSE Enter(w[n - 1], path[n])
    <3>1. n # 0 => n \in 1 .. Len(path)
      OBVIOUS
    <3> QED
      BY <3>1 DEF WayOf
  <2>2. w = [n \in 0 .. Len(path) |-> w[n]]
    BY DEF WayOf
  <2> QED
    BY <2>1, <2>2
<1>3. PICK v : v = CHOOSE u : Is(u)
  OBVIOUS
<1>4. Is(v)
  BY <1>2, <1>3
<1>5. WayOf(v, path, Len(path))
  <2>1. v = [n \in 0 .. Len(path) |-> v[n]]
    BY <1>4
  <2>2. v[0] = Root /\ \A k \in 1 .. Len(path) : v[k] = IF path[k] = Slash THEN v[k - 1] ELSE Enter(v[k - 1], path[k])
    BY <1>4
  <2> QED
    BY <2>1, <2>2 DEF WayOf
<1>6. v[Len(path)] = w[Len(path)]
  BY <1>5, WayUnique
<1> QED
  BY <1>1, <1>3, <1>6

LEMMA ResolvedRoot == resolve_path(<<>>) = Root
<1>1. PICK w : WayOf(w, <<>>, 0)
  BY WayExists
<1>2. Len(<<>>) = 0
  OBVIOUS
<1> QED
  BY <1>1, <1>2, Resolved DEF WayOf

\* Where a path and one name more lead.
LEMMA NamedUnder ==
  ASSUME NEW dir \in Seq(Word), NEW name \in Word, name # Slash
  PROVE  /\ <<name>> \in Seq(Word) /\ <<name>> # <<>> /\ resolve_path(<<name>>) = Enter(Root, name)
         /\ dir \o <<Slash, name>> \in Seq(Word) /\ dir \o <<Slash, name>> # <<>>
         /\ resolve_path(dir \o <<Slash, name>>) = Enter(resolve_path(dir), name)
<1>1. Slash \in Word /\ Len(dir) \in Nat
  BY HandoffAssumption DEF Word
<1>2. <<name>> \in Seq(Word) /\ <<name>> # <<>> /\ resolve_path(<<name>>) = Enter(Root, name)
  <2>1. PICK p : p = <<name>>
    OBVIOUS
  <2>2. p \in Seq(Word) /\ Len(p) = 1 /\ p[1] = name
    BY <2>1
  <2>3. PICK w : WayOf(w, p, 1)
    BY WayExists
  <2>4. w[1] = Enter(Root, name)
    <3>1. w[0] = Root /\ w[1] = IF p[1] = Slash THEN w[0] ELSE Enter(w[0], p[1])
      BY <2>3 DEF WayOf
    <3> QED
      BY <2>2, <3>1
  <2>5. resolve_path(p) = w[1]
    <3>1. WayOf(w, p, Len(p)) /\ Len(p) \in Nat
      BY <2>2, <2>3
    <3>2. resolve_path(p) = w[Len(p)]
      BY <3>1, Resolved
    <3> QED
      BY <2>2, <3>2
  <2> QED
    BY <2>1, <2>2, <2>4, <2>5
<1>3. /\ dir \o <<Slash, name>> \in Seq(Word) /\ dir \o <<Slash, name>> # <<>>
      /\ resolve_path(dir \o <<Slash, name>>) = Enter(resolve_path(dir), name)
  <2>1. PICK n, p, q : n = Len(dir) /\ q = <<Slash, name>> /\ p = dir \o q
    OBVIOUS
  <2>2. q \in Seq(Word) /\ Len(q) = 2 /\ q[1] = Slash /\ q[2] = name
    BY <1>1, <2>1
  <2>3. p \in Seq(Word) /\ Len(p) = n + 2
    BY <2>1, <2>2
  <2>4. (\A k \in 1 .. n : p[k] = dir[k]) /\ p[n + 1] = Slash /\ p[n + 2] = name
    BY <1>1, <2>1, <2>2
  <2>5. n \in Nat /\ n + 2 \in Nat /\ n + 1 \in 1 .. n + 2 /\ n + 2 \in 1 .. n + 2
        /\ (n + 1) - 1 = n /\ (n + 2) - 1 = n + 1
    BY <1>1, <2>1
  <2>6. PICK v : WayOf(v, dir, n)
    BY <2>5, WayExists
  <2>7. PICK w : WayOf(w, p, n + 2)
    BY <2>5, WayExists
  <2>8. v[n] = w[n]
    <3>1. n <= n + 2 /\ \A k \in 1 .. n : dir[k] = p[k]
      BY <2>4, <2>5
    <3> QED
      BY <2>5, <2>6, <2>7, <3>1, WayUnique
  <2>9. w[n + 1] = w[n]
    BY <2>4, <2>5, <2>7 DEF WayOf
  <2>10. w[n + 2] = Enter(w[n + 1], name)
    BY <2>4, <2>5, <2>7 DEF WayOf
  <2>11. resolve_path(dir) = v[n] /\ resolve_path(p) = w[n + 2]
    BY <2>1, <2>3, <2>5, <2>6, <2>7, Resolved
  <2>12. p # <<>>
    BY <2>3, <2>5
  <2> QED
    BY <2>1, <2>3, <2>8, <2>9, <2>10, <2>11, <2>12
<1> QED
  BY <1>2, <1>3

\* The path of an entry, if it fits the kernel's copy of it, leads where the
\* directory's entry of that name does.
LEMMA FullResolves ==
  ASSUME cur_dir \in Seq(Word), NEW name \in Word, name # Slash
  PROVE  /\ full(name) \in Seq(Word) /\ full(name) # <<>>
         /\ chars(full(name)) < KERNEL_PATH =>
              kernel_resolve(full(name)) = Enter(kernel_resolve(cur_dir), name)
<1>1. /\ KERNEL_PATH \in Nat \ {0} /\ KERNEL_PATH - 1 \in Nat
      /\ MAX_PATH - 1 \in Nat /\ MAX_PATH - 2 \in Nat
      /\ KERNEL_PATH <= MAX_PATH - 2 /\ KERNEL_PATH <= MAX_PATH - 1 /\ MAX_PATH - 1 > 0
  BY HandoffAssumption
<1>2. ASSUME NEW p \in Seq(Word), p # <<>>
      PROVE  /\ cut(p, MAX_PATH - 1) \in Seq(Word) /\ cut(p, MAX_PATH - 1) # <<>>
             /\ chars(cut(p, MAX_PATH - 1)) < KERNEL_PATH => cut(p, MAX_PATH - 1) = p
  <2>1. chars(p) \in Nat
    BY CharsOf
  <2>2. CASE chars(p) <= MAX_PATH - 1
    BY <1>2, <2>2, CutShort
  <2>3. CASE chars(p) > MAX_PATH - 1
    <3>1. cut(p, MAX_PATH - 1) \in Seq(Word) /\ chars(cut(p, MAX_PATH - 1)) = MAX_PATH - 1
      BY <1>1, <2>3, CutLong
    <3> QED
      BY <1>1, <3>1, CharsNone
  <2> QED
    BY <1>1, <2>1, <2>2, <2>3
<1>3. ASSUME NEW p, p = full(name), chars(p) < KERNEL_PATH PROVE kernel_resolve(p) = resolve_path(p)
  <2>1. p \in Seq(Word)
    <3>1. CASE cur_dir = <<>>
      <4>1. p = cut(<<name>>, MAX_PATH - 1) /\ <<name>> \in Seq(Word)
        BY <1>3, <3>1 DEF full
      <4> QED
        BY <1>1, <4>1, CutPath
    <3>2. CASE cur_dir # <<>>
      <4>1. PICK q : q = cut(cur_dir, MAX_PATH - 2)
        OBVIOUS
      <4>2. q \in Seq(Word)
        BY <1>1, <4>1, CutPath
      <4>3. p = cut(q \o <<Slash, name>>, MAX_PATH - 1) /\ q \o <<Slash, name>> \in Seq(Word)
        BY <1>3, <3>2, <4>1, <4>2, NamedUnder DEF full
      <4> QED
        BY <1>1, <4>3, CutPath
    <3> QED
      BY <3>1, <3>2
  <2>2. chars(p) <= KERNEL_PATH - 1
    BY <1>1, <1>3, <2>1, CharsOf
  <2> QED
    BY <2>2, CutShort DEF kernel_resolve
<1>4. CASE cur_dir = <<>>
  <2>1. full(name) = cut(<<name>>, MAX_PATH - 1)
    BY <1>4 DEF full
  <2>2. <<name>> \in Seq(Word) /\ <<name>> # <<>> /\ resolve_path(<<name>>) = Enter(Root, name)
    BY NamedUnder
  <2>3. kernel_resolve(cur_dir) = Root
    <3>1. chars(cur_dir) <= KERNEL_PATH - 1
      BY <1>1, <1>4, CharsNone
    <3> QED
      BY <1>4, <3>1, CutShort, ResolvedRoot DEF kernel_resolve
  <2>4. ASSUME chars(full(name)) < KERNEL_PATH
        PROVE  kernel_resolve(full(name)) = Enter(kernel_resolve(cur_dir), name)
    <3>1. full(name) = <<name>>
      BY <1>2, <2>1, <2>2, <2>4
    <3>2. kernel_resolve(full(name)) = resolve_path(full(name))
      BY <1>3, <2>4
    <3> QED
      BY <2>2, <2>3, <3>1, <3>2
  <2> QED
    BY <1>2, <2>1, <2>2, <2>4
<1>5. CASE cur_dir # <<>>
  <2>1. PICK q, p : q = cut(cur_dir, MAX_PATH - 2) /\ p = q \o <<Slash, name>>
    OBVIOUS
  <2>2. q \in Seq(Word)
    BY <1>1, <2>1, CutPath
  <2>3. full(name) = cut(p, MAX_PATH - 1) /\ p \in Seq(Word) /\ p # <<>>
        /\ resolve_path(p) = Enter(resolve_path(q), name)
    BY <1>5, <2>1, <2>2, NamedUnder DEF full
  <2>4. ASSUME chars(full(name)) < KERNEL_PATH
        PROVE  kernel_resolve(full(name)) = Enter(kernel_resolve(cur_dir), name)
    <3>1. full(name) = p
      BY <1>2, <2>3, <2>4
    <3>2. chars(q) \in Nat /\ chars(cur_dir) \in Nat /\ chars(q) <= chars(p)
      <4>1. chars(q) \in Nat /\ chars(cur_dir) \in Nat
        BY <2>2, CharsOf
      <4>2. Slash \in Word /\ Width[Slash] \in Nat /\ Width[name] \in Nat
        BY WidthNat DEF Word
      <4>3. Append(q, Slash) \in Seq(Word) /\ chars(Append(q, Slash)) = chars(q) + Width[Slash]
        BY <2>2, <4>2, CharsAdded
      <4>4. chars(Append(Append(q, Slash), name)) = chars(q) + Width[Slash] + Width[name]
        BY <4>3, CharsAdded
      <4>5. p = Append(Append(q, Slash), name)
        BY <2>1, <2>2
      <4> QED
        BY <4>1, <4>2, <4>4, <4>5
    <3>3. chars(q) < KERNEL_PATH
      <4>1. chars(p) \in Nat
        BY <2>3, CharsOf
      <4> QED
        BY <1>1, <2>4, <3>1, <3>2, <4>1
    <3>4. q = cur_dir
      <4>1. ~(chars(cur_dir) > MAX_PATH - 2)
        BY <1>1, <2>1, <3>2, <3>3, CutLong
      <4> QED
        BY <1>1, <2>1, <3>2, <4>1, CutShort
    <3>5. kernel_resolve(cur_dir) = resolve_path(cur_dir)
      <4>1. chars(cur_dir) <= KERNEL_PATH - 1
        BY <1>1, <3>2, <3>3, <3>4
      <4> QED
        BY <4>1, CutShort DEF kernel_resolve
    <3>6. kernel_resolve(full(name)) = resolve_path(full(name))
      BY <1>3, <2>4
    <3> QED
      BY <2>3, <3>1, <3>4, <3>5, <3>6
  <2> QED
    BY <1>2, <2>3, <2>4
<1> QED
  BY <1>4, <1>5

-----------------------------------------------------------------------------
\* The file manager's list.

Stages == {"none", "start", "read", "run"}

\* The list is of the directory the kernel's copy of the path leads to, or empty,
\* and the selection is one of its rows.
Listed ==
  /\ cur_dir \in Seq(Word)
  /\ entries \in listdir(cur_dir)
  /\ selected \in Nat /\ (selected = 0 \/ selected < total_rows)

LEMMA RowsCounted == ASSUME entries \in listdir(cur_dir)
                     PROVE  Len(entries) \in Nat /\ total_rows \in Nat
BY HandoffAssumption DEF listdir, total_rows

LEMMA CutIn == ASSUME NEW S, NEW q \in Seq(S), NEW T \in SUBSET DOMAIN q
               PROVE  SubSeq(q, 1, Max({0} \cup T)) \in Seq(S)
<1>1. Len(q) \in Nat /\ DOMAIN q = 1 .. Len(q)
  OBVIOUS
<1>2. {0} \cup T \in SUBSET (0 .. Len(q))
  BY <1>1
<1>3. PICK n : n = Max({0} \cup T)
  OBVIOUS
<1>4. n \in 0 .. Len(q)
  BY <1>1, <1>2, <1>3, MaxOf
<1>5. \A k \in 1 .. n : q[k] \in S
  BY <1>1, <1>4
<1>6. SubSeq(q, 1, n) \in Seq(S)
  BY <1>1, <1>4, <1>5
<1> QED
  BY <1>3, <1>6

LEMMA UpIsPath == ASSUME cur_dir \in Seq(Word) PROVE path_up \in Seq(Word)
<1>1. PICK q : q = SubSeq(cur_dir, 1, Max({0} \cup {i \in DOMAIN cur_dir : cur_dir[i] # Slash}))
  OBVIOUS
<1>2. q \in Seq(Word)
  BY <1>1, CutIn
<1>3. path_up = SubSeq(q, 1, Max({0} \cup {i \in DOMAIN q : q[i] = Slash}))
  BY <1>1 DEF path_up, CutAfter
<1> QED
  BY <1>2, <1>3, CutIn

\* The row selected is the entry the directory has of that name.
LEMMA EntryFound ==
  ASSUME Listed, total_rows > 0, ~OnDotDot
  PROVE  /\ entry.name \in Word /\ entry.name # Slash /\ entry.to # Nothing
         /\ Enter(kernel_resolve(cur_dir), entry.name) = entry.to
<1>1. Len(entries) \in Nat /\ selected \in Nat /\ selected < total_rows
  BY RowsCounted DEF Listed
<1>2. PICK k : k = IF has_dotdot THEN selected ELSE selected + 1
  OBVIOUS
<1>3. k \in 1 .. Len(entries) /\ entry = entries[k]
  BY <1>1, <1>2 DEF total_rows, OnDotDot, entry
<1>4. PICK d : d = kernel_resolve(cur_dir)
  OBVIOUS
<1>5. d \in DOMAIN Tree /\ entries = Tree[d]
  BY <1>1, <1>3, <1>4 DEF Listed, listdir
<1>6. /\ k \in DOMAIN Tree[d] /\ Tree[d][k].name \in Names /\ Slash \notin Names /\ Tree[d][k].to # Nothing
      /\ \A i \in DOMAIN Tree[d] : Tree[d][i].name = Tree[d][k].name => i = k
      /\ k \in Nat
  BY <1>3, <1>5, HandoffAssumption
<1>7. entry.name \in Word
  BY <1>3, <1>5, HandoffAssumption DEF Word
<1>8. {i \in DOMAIN Tree[d] : Tree[d][i].name = entry.name} = {k}
  BY <1>3, <1>5, <1>6
<1>9. Min({k}) = k
  BY <1>6, MinOf
<1>10. Enter(d, entry.name) = Tree[d][k].to
  BY <1>5, <1>8, <1>9 DEF Enter
<1> QED
  BY <1>3, <1>4, <1>5, <1>6, <1>7, <1>10

LEMMA RefreshKeepsListed == ASSUME NEW path \in Seq(Word), refresh(path) PROVE Listed'
<1>1. cur_dir' = path /\ entries' \in listdir(path) /\ selected' = 0
  BY DEF refresh
<1>2. (entries \in listdir(cur_dir))'
  BY <1>1
<1>3. total_rows' \in Nat
  BY <1>1, HandoffAssumption DEF listdir, total_rows, has_dotdot
<1> QED
  BY <1>1, <1>2, <1>3 DEF Listed

LEMMA SelectKeepsListed == ASSUME Listed, NEW row \in Nat, row < total_rows, Select(row) PROVE Listed'
<1>1. selected' = row /\ UNCHANGED <<cur_dir, entries>>
  BY DEF Select
<1> QED
  BY <1>1 DEF Listed, total_rows, has_dotdot

LEMMA InitListed == InitHandoff => Listed
<1> SUFFICES ASSUME InitHandoff PROVE Listed
  OBVIOUS
<1>1. cur_dir = <<>> /\ entries \in listdir(cur_dir) /\ selected = 0
  BY DEF InitHandoff
<1>2. total_rows \in Nat
  BY <1>1, RowsCounted
<1> QED
  BY <1>1, <1>2 DEF Listed

LEMMA NextListed == Listed /\ [NextHandoff]_handoffVars => Listed'
<1> SUFFICES ASSUME Listed, [NextHandoff]_handoffVars PROVE Listed'
  OBVIOUS
<1>1. cur_dir \in Seq(Word) /\ selected \in Nat /\ total_rows \in Nat
  BY RowsCounted DEF Listed
<1>2. CASE KC_UP \/ KC_DOWN \/ \E row \in 0 .. Len(entries) : click(row)
  <2>1. PICK row : row \in Nat /\ row < total_rows /\ Select(row)
    <3>1. CASE KC_UP
      <4>1. selected > 0 /\ Select(selected - 1)
        BY <3>1 DEF KC_UP
      <4>2. selected - 1 \in Nat /\ selected - 1 < total_rows
        BY <1>1, <4>1 DEF Listed
      <4> QED
        BY <4>1, <4>2
    <3>2. CASE KC_DOWN
      BY <1>1, <3>2 DEF KC_DOWN
    <3>3. CASE \E row \in 0 .. Len(entries) : click(row)
      BY <1>1, <3>3 DEF click
    <3> QED
      BY <1>2, <3>1, <3>2, <3>3
  <2> QED
    BY <2>1, SelectKeepsListed
<1>3. CASE KC_BACKSPACE \/ enter_dotdot
  <2>1. refresh(path_up)
    BY <1>3 DEF KC_BACKSPACE, enter_dotdot
  <2> QED
    BY <1>1, <2>1, UpIsPath, RefreshKeepsListed
<1>4. CASE enter_directory
  <2>1. entry.name \in Word /\ refresh(path_down(entry.name))
    BY <1>4, EntryFound DEF enter_directory
  <2>2. PICK mid : mid = IF cur_dir # <<>> /\ Last(cur_dir) # Slash THEN <<Slash>> ELSE <<>>
    OBVIOUS
  <2>3. mid \in Seq(Word) /\ <<entry.name>> \in Seq(Word)
    <3>1. Slash \in Word
      BY DEF Word
    <3> QED
      BY <2>1, <2>2, <3>1
  <2>4. (cur_dir \o mid) \o <<entry.name>> \in Seq(Word)
    BY <1>1, <2>3, Joined
  <2>5. path_down(entry.name) = cut((cur_dir \o mid) \o <<entry.name>>, MAX_PATH - 1)
    BY <2>2 DEF path_down, Unslashed
  <2>6. MAX_PATH - 1 \in Nat
    BY HandoffAssumption
  <2>7. path_down(entry.name) \in Seq(Word)
    BY <2>4, <2>5, <2>6, CutPath
  <2> QED
    BY <2>1, <2>7, RefreshKeepsListed
<1>5. ASSUME UNCHANGED <<cur_dir, entries, selected>> PROVE Listed'
  BY <1>5 DEF Listed, total_rows, has_dotdot
<1>6. CASE open_in_editor \/ spawn_editor \/ bare_launch
  BY <1>5, <1>6 DEF open_in_editor, spawn_editor, bare_launch
<1>7. CASE \E e \in Editors : read_handoff(e) \/ no_handoff(e) \/ clear_handoff(e) \/ ended(e)
  BY <1>5, <1>7 DEF read_handoff, no_handoff, clear_handoff, ended, StageOf
<1>8. CASE UNCHANGED handoffVars
  BY <1>5, <1>8 DEF handoffVars
<1> QED
  BY <1>2, <1>3, <1>4, <1>6, <1>7, <1>8 DEF NextHandoff, FileManager

-----------------------------------------------------------------------------
\* The hand-over.

EditorsTyped ==
  /\ editor = [e \in Editors |-> editor[e]]
  /\ \A e \in Editors : /\ editor[e] = [stage |-> editor[e].stage, path |-> editor[e].path, wanted |-> editor[e].wanted]
                        /\ editor[e].stage \in Stages
  /\ crossed \in BOOLEAN

\* A path that leads to a file, if it fits the kernel's copy of it.
Leads(path, to) ==
  path \in Seq(Word) /\ path # <<>> /\ (chars(path) < KERNEL_PATH => kernel_resolve(path) = to)

\* What an editor that starts has been given, or is about to read.
Given(x, arg) ==
  LET seen == IF x.stage = "read" THEN x.path ELSE arg
  IN  IF x.wanted = Nothing THEN (IF x.stage = "read" THEN seen = Nothing ELSE seen \in {Nothing, <<>>})
      ELSE Leads(seen, x.wanted)

\* The path is with the file manager, or with the one editor that starts.
Underway ==
  \/ Quiet
  \/ sending # Nothing /\ Starting = {} /\ Leads(argfile, sending)
  \/ sending = Nothing /\ \E e \in Editors : Starting = {e} /\ Given(editor[e], argfile)

HandoffInv == Listed /\ EditorsTyped /\ (~crossed => Underway)

\* Only what has disturbed nothing leaves a hand-over to be accounted for.
LEMMA Undisturbed == ASSUME NEW how \in BOOLEAN, Disturbed(how), crossed \in BOOLEAN
                     PROVE  crossed' \in BOOLEAN /\ (~crossed' => Quiet' \/ (~crossed /\ ~how))
<1>1. crossed' = ((crossed \/ how) /\ ~Quiet')
  BY DEF Disturbed
<1>2. Quiet' \in BOOLEAN
  BY DEF Quiet
<1> QED
  BY <1>1, <1>2

\* One editor's record is replaced.
LEMMA EditorChanged ==
  ASSUME EditorsTyped, NEW e \in Editors, NEW x, editor' = [editor EXCEPT ![e] = x]
  PROVE  /\ editor' = [f \in Editors |-> editor'[f]]
         /\ editor'[e] = x /\ \A f \in Editors \ {e} : editor'[f] = editor[f]
         /\ Starting' = (Starting \ {e}) \cup (IF x.stage \in {"start", "read"} THEN {e} ELSE {})
<1>1. /\ editor' = [f \in Editors |-> editor'[f]]
      /\ editor'[e] = x /\ \A f \in Editors \ {e} : editor'[f] = editor[f]
  BY DEF EditorsTyped
<1>2. Starting' = (Starting \ {e}) \cup (IF x.stage \in {"start", "read"} THEN {e} ELSE {})
  BY <1>1 DEF Starting
<1> QED
  BY <1>1, <1>2

LEMMA SpawnedOne ==
  ASSUME EditorsTyped, crossed' \in BOOLEAN, NEW file_of, Spawned(file_of)
  PROVE  /\ EditorsTyped'
         /\ \E e \in Editors : /\ Starting' = Starting \cup {e}
                               /\ editor'[e] = [stage |-> "start", path |-> Nothing, wanted |-> file_of]
<1>1. PICK e \in Editors :
        /\ editor[e].stage = "none"
        /\ editor' = [editor EXCEPT ![e] = [stage |-> "start", path |-> Nothing, wanted |-> file_of]]
  BY DEF Spawned
<1>2. PICK x : x = [stage |-> "start", path |-> Nothing, wanted |-> file_of]
  OBVIOUS
<1>3. /\ editor' = [f \in Editors |-> editor'[f]]
      /\ editor'[e] = x /\ \A f \in Editors \ {e} : editor'[f] = editor[f]
      /\ Starting' = (Starting \ {e}) \cup {e}
  BY <1>1, <1>2, EditorChanged
<1>4. x = [stage |-> x.stage, path |-> x.path, wanted |-> x.wanted] /\ x.stage \in Stages
  BY <1>2 DEF Stages
<1>5. EditorsTyped'
  BY <1>3, <1>4 DEF EditorsTyped
<1>6. e \notin Starting
  BY <1>1 DEF Starting
<1> QED
  BY <1>2, <1>3, <1>5, <1>6

LEMMA StageChanged ==
  ASSUME EditorsTyped, crossed' \in BOOLEAN, NEW e \in Editors, NEW from, NEW to \in Stages, NEW path,
         StageOf(e, from, to, path)
  PROVE  /\ EditorsTyped' /\ editor[e].stage = from
         /\ editor'[e] = [stage |-> to, path |-> path, wanted |-> editor[e].wanted]
         /\ \A f \in Editors \ {e} : editor'[f] = editor[f]
         /\ Starting' = (Starting \ {e}) \cup (IF to \in {"start", "read"} THEN {e} ELSE {})
         /\ sending' = sending
<1>1. /\ editor[e].stage = from /\ sending' = sending
      /\ editor' = [editor EXCEPT ![e].stage = to, ![e].path = path]
  BY DEF StageOf
<1>2. PICK x : x = [stage |-> to, path |-> path, wanted |-> editor[e].wanted]
  OBVIOUS
<1>3. editor' = [editor EXCEPT ![e] = x]
  <2>1. PICK r : /\ r = editor[e] /\ r = [stage |-> r.stage, path |-> r.path, wanted |-> r.wanted]
    BY DEF EditorsTyped
  <2>2. PICK m : m = [editor EXCEPT ![e].stage = to]
    OBVIOUS
  <2>3. editor' = [m EXCEPT ![e].path = path]
    BY <1>1, <2>2
  <2>4. DOMAIN editor = Editors /\ DOMAIN m = Editors
    BY <2>2 DEF EditorsTyped
  <2>5. m[e] = [stage |-> to, path |-> r.path, wanted |-> r.wanted]
    BY <2>1, <2>2, <2>4
  <2>6. editor'[e] = [stage |-> to, path |-> path, wanted |-> r.wanted]
    BY <2>3, <2>4, <2>5
  <2>7. \A f \in Editors : editor'[f] = IF f = e THEN x ELSE editor[f]
    BY <1>2, <2>1, <2>2, <2>3, <2>4, <2>6
  <2> QED
    BY <2>3, <2>4, <2>7
<1>4. x.stage = to /\ x = [stage |-> x.stage, path |-> x.path, wanted |-> x.wanted]
  BY <1>2
<1>5. /\ editor' = [f \in Editors |-> editor'[f]]
      /\ editor'[e] = x /\ \A f \in Editors \ {e} : editor'[f] = editor[f]
      /\ Starting' = (Starting \ {e}) \cup (IF to \in {"start", "read"} THEN {e} ELSE {})
  BY <1>3, <1>4, EditorChanged
<1>6. EditorsTyped'
  BY <1>4, <1>5 DEF EditorsTyped
<1> QED
  BY <1>1, <1>2, <1>5, <1>6

LEMMA InitUnderway == InitHandoff => HandoffInv
<1> SUFFICES ASSUME InitHandoff PROVE HandoffInv
  OBVIOUS
<1>1. /\ sending = Nothing /\ argfile = Nothing /\ crossed = FALSE
      /\ editor = [e \in Editors |-> [stage |-> "none", path |-> Nothing, wanted |-> Nothing]]
  BY DEF InitHandoff
<1>2. EditorsTyped
  BY <1>1 DEF EditorsTyped, Stages
<1>3. Starting = {}
  BY <1>1 DEF Starting
<1> QED
  BY <1>1, <1>2, <1>3, InitListed DEF HandoffInv, Underway, Quiet

\* What the file manager writes leads to the file of the row.
LEMMA WriteUnderway == ASSUME HandoffInv, open_in_editor PROVE EditorsTyped' /\ (~crossed' => Underway')
<1>1. /\ sending = Nothing /\ sending' = entry.to /\ editor' = editor /\ total_rows > 0 /\ ~OnDotDot
      /\ \/ argfile' = full(entry.name) /\ Disturbed(Starting # {})
         \/ Disturbed(TRUE)
  BY DEF open_in_editor
<1>2. /\ entry.name \in Word /\ entry.name # Slash /\ entry.to # Nothing
      /\ Enter(kernel_resolve(cur_dir), entry.name) = entry.to
  BY <1>1, EntryFound DEF HandoffInv
<1>3. Leads(full(entry.name), entry.to)
  BY <1>2, FullResolves DEF HandoffInv, Listed, Leads
<1>4. crossed \in BOOLEAN /\ Starting' = Starting
  BY <1>1 DEF HandoffInv, EditorsTyped, Starting
<1>5. ~Quiet'
  BY <1>1, <1>2 DEF Quiet
<1>6. crossed' \in BOOLEAN
  BY <1>1, <1>4, Undisturbed
<1>7. ASSUME ~crossed' PROVE argfile' = full(entry.name) /\ Starting = {}
  <2>1. CASE argfile' = full(entry.name) /\ Disturbed(Starting # {})
    BY <1>4, <1>5, <1>7, <2>1, Undisturbed
  <2>2. CASE Disturbed(TRUE)
    BY <1>4, <1>5, <1>7, <2>2, Undisturbed
  <2> QED
    BY <1>1, <2>1, <2>2
<1>8. EditorsTyped'
  BY <1>1, <1>6 DEF HandoffInv, EditorsTyped
<1>9. ASSUME ~crossed' PROVE Underway'
  <2>1. argfile' = full(entry.name) /\ Starting' = {} /\ sending' = entry.to /\ sending' # Nothing
    BY <1>1, <1>2, <1>4, <1>7, <1>9
  <2>2. Leads(argfile', sending')
    BY <1>3, <2>1
  <2> QED
    BY <2>1, <2>2 DEF Underway, Leads
<1> QED
  BY <1>8, <1>9

\* An editor is started: for the file whose path was written, or for none.
LEMMA StartUnderway == ASSUME HandoffInv, spawn_editor \/ bare_launch PROVE EditorsTyped' /\ (~crossed' => Underway')
<1>1. EditorsTyped /\ crossed \in BOOLEAN
  BY DEF HandoffInv, EditorsTyped
<1>2. CASE spawn_editor /\ Spawned(sending) /\ Disturbed(Starting # {})
  <2>1. sending # Nothing /\ sending' = Nothing /\ argfile' = argfile
    BY <1>2 DEF spawn_editor
  <2>2. crossed' \in BOOLEAN
    BY <1>1, <1>2, Undisturbed
  <2>3. EditorsTyped'
    BY <1>1, <1>2, <2>2, SpawnedOne
  <2>4. PICK e \in Editors : /\ Starting' = Starting \cup {e}
                             /\ editor'[e] = [stage |-> "start", path |-> Nothing, wanted |-> sending]
    BY <1>1, <1>2, <2>2, SpawnedOne
  <2>5. ASSUME ~crossed' PROVE Underway'
    <3>1. ~Quiet'
      BY <2>4 DEF Quiet
    <3>2. ~crossed /\ Starting = {}
      BY <1>1, <1>2, <2>5, <3>1, Undisturbed
    <3>3. Leads(argfile, sending)
      BY <2>1, <3>2 DEF HandoffInv, Underway, Quiet
    <3>4. Given(editor'[e], argfile')
      BY <2>1, <2>4, <3>3 DEF Given
    <3>5. Starting' = {e}
      BY <2>4, <3>2
    <3> QED
      BY <2>1, <3>4, <3>5 DEF Underway, Given, Leads
  <2> QED
    BY <2>3, <2>5
<1>3. CASE spawn_editor /\ UNCHANGED editor /\ Disturbed(TRUE)
  <2>1. crossed' \in BOOLEAN /\ (~crossed' => Quiet')
    BY <1>1, <1>3, Undisturbed
  <2>2. EditorsTyped'
    BY <1>1, <1>3, <2>1 DEF EditorsTyped
  <2> QED
    BY <2>1, <2>2 DEF Underway
<1>4. CASE bare_launch
  <2>1. sending' = sending /\ argfile' = argfile /\ Spawned(Nothing) /\ Disturbed(sending # Nothing \/ Starting # {})
    BY <1>4 DEF bare_launch
  <2>2. crossed' \in BOOLEAN
    BY <1>1, <2>1, Undisturbed
  <2>3. EditorsTyped'
    BY <1>1, <2>1, <2>2, SpawnedOne
  <2>4. PICK e \in Editors : /\ Starting' = Starting \cup {e}
                             /\ editor'[e] = [stage |-> "start", path |-> Nothing, wanted |-> Nothing]
    BY <1>1, <2>1, <2>2, SpawnedOne
  <2>5. ASSUME ~crossed' PROVE Underway'
    <3>1. ~Quiet'
      BY <2>4 DEF Quiet
    <3>2. ~crossed /\ ~(sending # Nothing \/ Starting # {})
      BY <1>1, <2>1, <2>5, <3>1, Undisturbed
    <3>3. argfile \in {Nothing, <<>>}
      BY <3>2 DEF HandoffInv, Underway, Quiet
    <3>4. Given(editor'[e], argfile')
      BY <2>1, <2>4, <3>3 DEF Given
    <3>5. Starting' = {e}
      BY <2>4, <3>2
    <3> QED
      BY <2>1, <3>2, <3>4, <3>5 DEF Underway, Given, Leads
  <2> QED
    BY <2>3, <2>5
<1> QED
  BY <1>2, <1>3, <1>4 DEF spawn_editor

\* A step that disturbs nothing, or leaves all quiet.
LEMMA QuietUnderway == ASSUME Quiet' \/ crossed' PROVE ~crossed' => Underway'
BY DEF Underway

\* An editor that starts reads what was written for it.
LEMMA ReadUnderway == ASSUME HandoffInv, NEW e \in Editors, read_handoff(e)
                      PROVE  EditorsTyped' /\ (~crossed' => Underway')
<1>1. EditorsTyped /\ crossed \in BOOLEAN
  BY DEF HandoffInv, EditorsTyped
<1>2. PICK path : path = IF argfile = <<>> THEN Nothing ELSE argfile
  OBVIOUS
<1>3. argfile # Nothing /\ StageOf(e, "start", "read", path) /\ argfile' = argfile /\ Disturbed(FALSE)
  BY <1>2 DEF read_handoff
<1>4. crossed' \in BOOLEAN /\ "read" \in Stages
  BY <1>1, <1>3, Undisturbed DEF Stages
<1>5. /\ EditorsTyped' /\ editor[e].stage = "start"
      /\ editor'[e] = [stage |-> "read", path |-> path, wanted |-> editor[e].wanted]
      /\ Starting' = (Starting \ {e}) \cup {e} /\ sending' = sending
  BY <1>1, <1>3, <1>4, StageChanged
<1>6. e \in Starting
  BY <1>5 DEF Starting
<1>7. ASSUME ~crossed' PROVE Underway'
  <2>1. ~crossed /\ ~Quiet
    BY <1>1, <1>3, <1>5, <1>6, <1>7, Undisturbed DEF Quiet
  <2>2. sending = Nothing /\ Starting = {e} /\ Given(editor[e], argfile)
    BY <1>6, <2>1 DEF HandoffInv, Underway
  <2>3. Given(editor'[e], argfile')
    <3>1. CASE editor[e].wanted = Nothing
      BY <1>2, <1>3, <1>5, <2>2, <3>1 DEF Given
    <3>2. CASE editor[e].wanted # Nothing
      BY <1>2, <1>5, <2>2, <3>2 DEF Given, Leads
    <3> QED
      BY <3>1, <3>2
  <2>4. sending' = Nothing /\ Starting' = {e}
    BY <1>5, <2>2
  <2> QED
    BY <2>3, <2>4 DEF Underway, Given, Leads
<1> QED
  BY <1>5, <1>7

\* An editor that starts finds nothing, for nothing was written for it.
LEMMA NoneUnderway == ASSUME HandoffInv, NEW e \in Editors, no_handoff(e)
                      PROVE  EditorsTyped' /\ (~crossed' => Underway')
<1>1. EditorsTyped /\ crossed \in BOOLEAN
  BY DEF HandoffInv, EditorsTyped
<1>2. StageOf(e, "start", "run", Nothing) /\ argfile' = argfile /\ Disturbed(argfile # Nothing)
  BY DEF no_handoff
<1>3. crossed' \in BOOLEAN /\ "run" \in Stages
  BY <1>1, <1>2, Undisturbed DEF Stages
<1>4. EditorsTyped' /\ editor[e].stage = "start" /\ Starting' = Starting \ {e} /\ sending' = sending
  BY <1>1, <1>2, <1>3, StageChanged
<1>5. ASSUME ~crossed', ~Quiet' PROVE FALSE
  <2>1. ~crossed /\ argfile = Nothing
    BY <1>1, <1>2, <1>5, Undisturbed
  <2>2. e \in Starting
    BY <1>4 DEF Starting
  <2>3. sending = Nothing /\ Starting = {e}
    BY <2>1, <2>2 DEF HandoffInv, Underway, Quiet
  <2> QED
    BY <1>2, <1>4, <1>5, <2>1, <2>3 DEF Quiet
<1> QED
  BY <1>4, <1>5, QuietUnderway

\* An editor empties the file it has read its path from.
LEMMA ClearUnderway == ASSUME HandoffInv, NEW e \in Editors, clear_handoff(e)
                       PROVE  EditorsTyped' /\ (~crossed' => Underway')
<1>1. EditorsTyped /\ crossed \in BOOLEAN
  BY DEF HandoffInv, EditorsTyped
<1>2. StageOf(e, "read", "run", Nothing) /\ ((argfile' = <<>> /\ Disturbed(FALSE)) \/ Disturbed(TRUE))
  BY DEF clear_handoff, emptied_file
<1>3. crossed' \in BOOLEAN /\ "run" \in Stages
  BY <1>1, <1>2, Undisturbed DEF Stages
<1>4. EditorsTyped' /\ editor[e].stage = "read" /\ Starting' = Starting \ {e} /\ sending' = sending
  BY <1>1, <1>2, <1>3, StageChanged
<1>5. ASSUME ~crossed', ~Quiet' PROVE FALSE
  <2>1. ~crossed /\ argfile' = <<>>
    BY <1>1, <1>2, <1>5, Undisturbed
  <2>2. e \in Starting
    BY <1>4 DEF Starting
  <2>3. sending = Nothing /\ Starting = {e}
    BY <2>1, <2>2 DEF HandoffInv, Underway, Quiet
  <2> QED
    BY <1>4, <1>5, <2>1, <2>3 DEF Quiet
<1> QED
  BY <1>4, <1>5, QuietUnderway

LEMMA EndUnderway == ASSUME HandoffInv, NEW e \in Editors, ended(e)
                     PROVE  EditorsTyped' /\ (~crossed' => Underway')
<1>1. EditorsTyped /\ crossed \in BOOLEAN
  BY DEF HandoffInv, EditorsTyped
<1>2. PICK x : x = [stage |-> "none", path |-> Nothing, wanted |-> Nothing]
  OBVIOUS
<1>3. editor' = [editor EXCEPT ![e] = x] /\ sending' = sending /\ argfile' = argfile /\ Disturbed(e \in Starting)
  BY <1>2 DEF ended
<1>4. x = [stage |-> x.stage, path |-> x.path, wanted |-> x.wanted] /\ x.stage = "none" /\ "none" \in Stages
  BY <1>2 DEF Stages
<1>5. /\ editor' = [f \in Editors |-> editor'[f]]
      /\ editor'[e] = x /\ \A f \in Editors \ {e} : editor'[f] = editor[f]
      /\ Starting' = Starting \ {e}
  BY <1>1, <1>3, <1>4, EditorChanged
<1>6. crossed' \in BOOLEAN /\ (~crossed' => Quiet' \/ (~crossed /\ e \notin Starting))
  <2>1. CASE e \in Starting
    <3>1. Disturbed(TRUE)
      BY <1>3, <2>1 DEF Disturbed
    <3> QED
      BY <1>1, <3>1, Undisturbed
  <2>2. CASE e \notin Starting
    <3>1. Disturbed(FALSE)
      BY <1>3, <2>2 DEF Disturbed
    <3> QED
      BY <1>1, <2>2, <3>1, Undisturbed
  <2> QED
    BY <2>1, <2>2
<1>7. EditorsTyped'
  BY <1>1, <1>4, <1>5, <1>6 DEF EditorsTyped
<1>8. ASSUME ~crossed', ~Quiet' PROVE Underway'
  <2>1. ~crossed /\ e \notin Starting
    BY <1>6, <1>8
  <2>2. Starting' = Starting /\ ~Quiet
    BY <1>3, <1>5, <1>8, <2>1 DEF Quiet
  <2>3. CASE sending # Nothing /\ Starting = {} /\ Leads(argfile, sending)
    BY <1>3, <2>2, <2>3 DEF Underway, Leads
  <2>4. CASE sending = Nothing /\ \E f \in Editors : Starting = {f} /\ Given(editor[f], argfile)
    <3>1. PICK f \in Editors : Starting = {f} /\ Given(editor[f], argfile)
      BY <2>4
    <3>2. editor'[f] = editor[f]
      BY <1>5, <2>1, <3>1
    <3>3. Given(editor'[f], argfile')
      BY <1>3, <3>1, <3>2
    <3> QED
      BY <1>3, <2>2, <2>4, <3>1, <3>3 DEF Underway, Given, Leads
  <2> QED
    BY <2>1, <2>2, <2>3, <2>4 DEF HandoffInv, Underway
<1> QED
  BY <1>7, <1>8, QuietUnderway

LEMMA NextUnderway == HandoffInv /\ [NextHandoff]_handoffVars => HandoffInv'
<1> SUFFICES ASSUME HandoffInv, [NextHandoff]_handoffVars PROVE HandoffInv'
  OBVIOUS
<1>1. Listed'
  BY NextListed DEF HandoffInv
<1>2. ASSUME UNCHANGED <<sending, argfile, editor, crossed>> PROVE EditorsTyped' /\ (~crossed' => Underway')
  BY <1>2 DEF HandoffInv, EditorsTyped, Underway, Quiet, Starting, Given, Leads
<1>3. CASE \/ KC_UP \/ KC_DOWN \/ KC_BACKSPACE
           \/ \E row \in 0 .. Len(entries) : click(row)
           \/ enter_dotdot \/ enter_directory \/ UNCHANGED handoffVars
  <2>1. UNCHANGED <<sending, argfile, editor, crossed>>
    BY <1>3 DEF KC_UP, KC_DOWN, KC_BACKSPACE, click, enter_dotdot, enter_directory, Select, refresh, handoffVars
  <2> QED
    BY <1>1, <1>2, <2>1 DEF HandoffInv
<1>4. CASE open_in_editor
  BY <1>1, <1>4, WriteUnderway DEF HandoffInv
<1>5. CASE spawn_editor \/ bare_launch
  BY <1>1, <1>5, StartUnderway DEF HandoffInv
<1>6. ASSUME NEW e \in Editors, read_handoff(e) \/ no_handoff(e) \/ clear_handoff(e) \/ ended(e)
      PROVE  HandoffInv'
  BY <1>1, <1>6, ReadUnderway, NoneUnderway, ClearUnderway, EndUnderway DEF HandoffInv
<1> QED
  BY <1>3, <1>4, <1>5, <1>6 DEF NextHandoff, FileManager

\* For any directories, names and sizes of the buffers, however many editors there
\* are and whatever their earlier launches met, an editor is given a path if a row
\* was selected for it, and none if it was started bare; a path that fits the copy
\* SYS_OPEN makes leads to that row's file. A longer one may lead elsewhere or
\* nowhere, and nothing is said of a hand-over that overlapped with another or one
\* of whose steps failed (filemgr/main.c:80-124, edit/main.c:212-233,
\* syscall.c:28-34).
THEOREM LaunchOpensSelected == SpecHandoff => []LaunchOpens
<1>1. HandoffInv => LaunchOpens
  <2> SUFFICES ASSUME HandoffInv, NEW e \in Editors, editor[e].stage = "read", ~crossed
               PROVE  IF editor[e].wanted = Nothing THEN editor[e].path = Nothing
                      ELSE /\ editor[e].path # Nothing
                           /\ chars(editor[e].path) < KERNEL_PATH =>
                                kernel_resolve(editor[e].path) = editor[e].wanted
    BY DEF LaunchOpens
  <2>1. e \in Starting
    BY DEF Starting
  <2>2. Given(editor[e], argfile)
    BY <2>1 DEF HandoffInv, Underway, Quiet
  <2> QED
    BY <2>2, HandoffAssumption DEF Given, Leads
<1> QED
  BY <1>1, InitUnderway, NextUnderway, PTL DEF SpecHandoff
=============================================================================
