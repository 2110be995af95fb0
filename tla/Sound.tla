------------------------------- MODULE Sound --------------------------------
(***************************************************************************)
(* Sound from DOOM down to the device: the score player (mus_player.c),    *)
(* the mixer (audio_mixer.c), dg_sound_update() which runs both once per   *)
(* game tic, and the driver (virtio_sound.c), which has one clip with the  *)
(* device at a time and drops what comes before that clip is done. DOOM    *)
(* calls the sound module from one thread; only the device runs beside it. *)
(* A step of the update is one event of the score, so that a score which   *)
(* never asks for a delay shows. Amplitudes, phases and volumes are left   *)
(* out: what sounds is a set of keys.                                      *)
(***************************************************************************)
EXTENDS Integers, Sequences, FiniteSets

CONSTANTS
  Scores,        \* sequences of [op, ch, note, vel, delay]
  Nil, Cut,     \* delay of an event that is not the last of its block; data ends there
  DrumChannel,   \* 15, never played
  Voices,        \* 1 .. MAX_MUS_VOICES
  SfxSlots,      \* 1 .. MAX_SFX_VOICES
  SfxLens,       \* lengths of sound effects in samples
  Gaps,          \* milliseconds between two updates
  RATE, MSEC, MAX_GAP,   \* MIXER_SAMPLE_RATE, 1000, the clamp of 200 ms
  HZ,            \* MUS_TICKS_HZ
  TxMod          \* 2^16: the range of the tx queue's indices

ASSUME SoundAssumption ==
  /\ RATE \in Nat /\ MSEC \in Nat \ {0} /\ HZ \in Nat \ {0} /\ TxMod \in Nat \ {0, 1}
  /\ Gaps \subseteq Nat /\ MAX_GAP \in Nat
  /\ \A s \in Scores :
       /\ Len(s) \in Nat
       /\ \A i \in 1 .. Len(s) :
            s[i].delay \in Nat \cup {Nil, Cut} /\ <<s[i].ch, s[i].note>> # Nil

VARIABLES
  control,    \* virtio_sound_init(): the control request it is at, "ready" or "silent"
  tx,         \* the tx queue [avail, used, last_used, in_flight]
  clip,       \* content of tx_clip_buf
  answer,     \* what the last virtio_sound_play() returned
  voice,      \* the mixer's music voices: the key each plays, or Nil
  sfx,        \* samples each effect slot has left, 0 if not active
  mus,        \* the player [score, pos, looping, playing, remaining, carry]
  velocity,   \* g_channel_velocity
  upd,        \* dg_sound_update() [step, n, rem]
  chunk,      \* the chunk rendered last, numbered modulo 2
  held, dropped,   \* history: keys the score holds down; those that got no voice
  due         \* history: what the score has scheduled less what has played, in 1/(RATE*HZ) s

deviceSide == <<control, tx, clip, answer>>
soundVars == <<deviceSide, voice, sfx, mus, velocity, upd, chunk, held, dropped, due>>

Channels == UNION {{s[i].ch : i \in 1 .. Len(s)} : s \in Scores}
Sounding == {voice[v] : v \in Voices} \ {Nil}
Silent == [v \in Voices |-> Nil]

-----------------------------------------------------------------------------
\* The mixer.

stacking(k) == {}

\* Slots already sounding this key; velocity alone changes there.
sounding(k) == {v \in Voices : voice[v] = k}

audio_mixer_note_on(k) ==
  LET free == {v \in Voices : voice[v] = Nil}
  IN  \/ sounding(k) # {} /\ UNCHANGED <<voice, held, dropped>>
      \/ /\ sounding(k) = {}
         /\ \E first \in free :
              /\ \A v \in free : first <= v
              /\ voice' = [voice EXCEPT ![first] = k]
         /\ held' = held \cup {k} /\ dropped' = dropped \ {k}
      \/ /\ sounding(k) = {} /\ free = {}
         /\ held' = held \cup {k} /\ dropped' = dropped \cup {k}
         /\ UNCHANGED voice

Silence(keys) ==
  /\ voice' = [v \in Voices |-> IF voice[v] \in keys THEN Nil ELSE voice[v]]
  /\ held' = held \ keys
  /\ dropped' = dropped \ keys

audio_mixer_note_off(k) == Silence({k})

audio_mixer_channel_notes_off(ch) == Silence({k \in Sounding \cup held : k[1] = ch})

silence_all == Silence(Sounding \cup held)

audio_mixer_play_sfx(len) ==
  LET free == {s \in SfxSlots : sfx[s] = 0}
      first == CHOOSE s \in free : \A u \in free : s <= u
  IN  \/ free # {} /\ sfx' = [sfx EXCEPT ![first] = len]
      \/ UNCHANGED sfx     \* no slot, or malloc() returned NULL

less_than_whole(left, n) == IF left > n THEN left - n ELSE left

Less(left, n) == IF left > n THEN left - n ELSE 0

-----------------------------------------------------------------------------
\* The player. Its calls and the update's come from one thread.

NoUpdate == upd.step = "idle"

mus_player_play(s, looping) ==
  /\ NoUpdate
  /\ silence_all
  /\ mus' = [score |-> s, pos |-> 1, looping |-> looping, playing |-> TRUE, remaining |-> 0, carry |-> 0]
  /\ velocity' = [c \in Channels |-> 127]
  /\ due' = 0
  /\ UNCHANGED <<deviceSide, sfx, upd, chunk>>

mus_player_stop ==
  /\ NoUpdate
  /\ silence_all
  /\ mus' = [mus EXCEPT !.playing = FALSE]
  /\ UNCHANGED <<deviceSide, sfx, velocity, upd, chunk, due>>

\* dg_sound_start() with a lump that is PCM.
dg_sound_start(len) ==
  /\ NoUpdate
  /\ audio_mixer_play_sfx(len)
  /\ UNCHANGED <<deviceSide, voice, mus, velocity, upd, chunk, held, dropped, due>>

\* One event's effect on the voices.
played(e) ==
  LET vel == IF e.vel = Nil THEN velocity[e.ch] ELSE e.vel
      key == <<e.ch, e.note>>
  IN  /\ velocity' = IF e.op = "press" THEN [velocity EXCEPT ![e.ch] = vel] ELSE velocity
      /\ CASE e.op = "release" /\ e.ch # DrumChannel -> audio_mixer_note_off(key)
           [] e.op = "press" /\ e.ch # DrumChannel /\ vel > 0 -> audio_mixer_note_on(key)
           [] e.op = "system" -> audio_mixer_channel_notes_off(e.ch)
           [] e.op = "end" -> silence_all
           [] OTHER -> UNCHANGED <<voice, held, dropped>>

carry_dropped(total) == 0

carried(total) == total % HZ

\* One turn of process_block(), with the delay after the last event of a block.
process_event ==
  LET ended == mus.pos > Len(mus.score)
      e == mus.score[mus.pos]
      total == e.delay * RATE + mus.carry
      stops == [mus EXCEPT !.pos = @ + 1, !.playing = FALSE]
      again == [mus EXCEPT !.pos = 1]
  IN  /\ upd.step = "block"
      /\ mus.playing /\ upd.rem <= 0
      /\ IF ended
         THEN /\ mus' = [mus EXCEPT !.playing = FALSE]
              /\ UNCHANGED <<voice, held, dropped, velocity, upd, due>>
         ELSE /\ played(e)
              /\ CASE e.op = "end" -> mus' = (IF mus.looping THEN again ELSE stops) /\ UNCHANGED <<upd, due>>
                   [] e.op = "corrupt" \/ (e.op # "end" /\ e.delay = Cut) -> mus' = stops /\ UNCHANGED <<upd, due>>
                   [] e.op \notin {"end", "corrupt"} /\ e.delay = Nil ->
                        mus' = [mus EXCEPT !.pos = @ + 1] /\ UNCHANGED <<upd, due>>
                   [] e.op \notin {"end", "corrupt"} /\ e.delay \notin {Nil, Cut} ->
                        /\ mus' = [mus EXCEPT !.pos = @ + 1, !.carry = carried(total)]
                        /\ upd' = [upd EXCEPT !.rem = @ + (total \div HZ)]
                        /\ due' = due + e.delay * RATE
      /\ UNCHANGED <<deviceSide, sfx, chunk>>

\* mus_player_advance() leaves its loop.
advance_end ==
  /\ upd.step = "block"
  /\ ~mus.playing \/ upd.rem > 0
  /\ mus' = [mus EXCEPT !.remaining = IF mus.playing THEN upd.rem ELSE 0]
  /\ upd' = [upd EXCEPT !.step = "render"]
  /\ UNCHANGED <<deviceSide, voice, sfx, velocity, chunk, held, dropped, due>>

-----------------------------------------------------------------------------
\* dg_sound_update().

lesser(a, b) == IF a < b THEN a ELSE b

samples(ms) == (lesser(ms, MAX_GAP) * RATE) \div MSEC

dg_sound_update(ms) ==
  LET n == samples(ms)
  IN  /\ NoUpdate
      /\ n > 0
      /\ upd' = [step |-> IF mus.playing THEN "block" ELSE "render", n |-> n, rem |-> mus.remaining - n]
      /\ due' = IF mus.playing THEN due - n * HZ ELSE due
      /\ UNCHANGED <<deviceSide, voice, sfx, mus, velocity, chunk, held, dropped>>

audio_mixer_render ==
  /\ upd.step = "render"
  /\ sfx' = [s \in SfxSlots |-> Less(sfx[s], upd.n)]
  /\ chunk' = 1 - chunk
  /\ upd' = [upd EXCEPT !.step = "submit"]
  /\ UNCHANGED <<deviceSide, voice, mus, velocity, held, dropped, due>>

-----------------------------------------------------------------------------
\* The driver.

wrap(i) == (i + 1) % TxMod

index_alone == tx.used = tx.last_used

still_playing == tx.in_flight /\ tx.used = tx.last_used

virtio_sound_play ==
  LET refused == control # "ready" \/ still_playing
  IN  /\ upd.step = "submit"
      /\ answer' = IF refused THEN "refused" ELSE "taken"
      /\ IF refused THEN UNCHANGED <<tx, clip>>
         ELSE /\ tx' = [tx EXCEPT !.avail = wrap(@), !.in_flight = TRUE,
                                  !.last_used = IF tx.in_flight THEN tx.used ELSE @]
              /\ clip' = chunk
      /\ upd' = [step |-> "idle", n |-> 0, rem |-> 0]
      /\ UNCHANGED <<control, voice, sfx, mus, velocity, chunk, held, dropped, due>>

WithDevice == tx.avail # tx.used

\* The device (not part of the repository) is done with the clip.
device_played ==
  /\ WithDevice
  /\ tx' = [tx EXCEPT !.used = wrap(@)]
  /\ UNCHANGED <<control, clip, answer, voice, sfx, mus, velocity, upd, chunk, held, dropped, due>>

\* virtio_sound_init(): three requests, each of which may fail or time out.
AfterRequest == [SET_PARAMS |-> "PREPARE", PREPARE |-> "START", START |-> "ready"]

control_roundtrip ==
  /\ control \in DOMAIN AfterRequest
  /\ control' \in {AfterRequest[control], "silent"}
  /\ UNCHANGED <<tx, clip, answer, voice, sfx, mus, velocity, upd, chunk, held, dropped, due>>

-----------------------------------------------------------------------------

InitSound ==
  /\ control = "SET_PARAMS"
  /\ tx = [avail |-> 0, used |-> 0, last_used |-> 0, in_flight |-> FALSE]
  /\ clip = 0 /\ answer = "none"
  /\ voice = Silent /\ held = {} /\ dropped = {}
  /\ sfx = [s \in SfxSlots |-> 0]
  /\ mus = [score |-> <<>>, pos |-> 1, looping |-> FALSE, playing |-> FALSE, remaining |-> 0, carry |-> 0]
  /\ velocity = [c \in Channels |-> 127]
  /\ upd = [step |-> "idle", n |-> 0, rem |-> 0]
  /\ chunk = 0 /\ due = 0

SoundUp == control \in {"ready", "silent"}

UpdateStep == process_event \/ advance_end \/ audio_mixer_render \/ virtio_sound_play

NextSound ==
  \/ control_roundtrip
  \/ /\ SoundUp
     /\ \/ \E s \in Scores, looping \in BOOLEAN : mus_player_play(s, looping)
        \/ mus_player_stop
        \/ \E len \in SfxLens : dg_sound_start(len)
        \/ \E ms \in Gaps : dg_sound_update(ms)
        \/ UpdateStep
  \/ device_played

\* DOOM's main loop updates once per tic, and an update is straight-line code in
\* a process the scheduler runs again and again.
FairSound ==
  /\ WF_soundVars(control_roundtrip)
  /\ WF_soundVars(SoundUp /\ UpdateStep)
  /\ WF_soundVars(SoundUp /\ \E ms \in Gaps : dg_sound_update(ms))

-----------------------------------------------------------------------------
\* Properties.

\* What sounds is what the score holds down: no key hangs after its release,
\* after "all notes off", the end of the score, a stop or another song, none is
\* cut short by another key's release, and a retriggered key keeps one voice;
\* but for keys that found every voice busy (audio_mixer.c:62-102).
VoicesHeld ==
  /\ Sounding = held \ dropped
  /\ \A v, u \in Voices : voice[v] = voice[u] /\ voice[v] # Nil => v = u

\* Rounding never accumulates: at any time the score is as far ahead of what has
\* been played as its delays say, to the fraction of a sample that is carried
\* over to the next delay (mus_player.c:164-193).
NoDrift ==
  mus.playing =>
    /\ due = (IF upd.step = "block" THEN upd.rem ELSE mus.remaining) * HZ + mus.carry
    /\ mus.carry \in 0 .. HZ - 1

\* A clip stays as it was taken until the device is done with it, and a clip is
\* refused only while the device does have one, or there is no device
\* (virtio_sound.c:313-332).
ClipIntact ==
  [][ /\ clip' # clip \/ tx'.avail # tx.avail => ~WithDevice
      /\ answer' = "refused" /\ upd.step = "submit" /\ control = "ready" => WithDevice ]_soundVars

\* An effect that got a slot is played out and gives the slot back, whatever the
\* player does meanwhile and however many chunks the driver drops: so an update
\* that has begun also ends, its loop over the score's blocks included, unless
\* the score is one that repeats without ever asking for a delay
\* (audio_mixer.c:178-190, mus_player.c:166-191).
Restless(s) == \A i \in 1 .. Len(s) : s[i].delay \in {Nil, Cut, 0}

EffectsEnd == \A s \in SfxSlots : sfx[s] > 0 ~> sfx[s] = 0 \/ (mus.playing /\ Restless(mus.score))
=============================================================================
