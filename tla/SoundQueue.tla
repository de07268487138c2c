----------------------------- MODULE SoundQueue -----------------------------
(***************************************************************************)
(* One layer of sound: the SOUND tags of the game (htmltags.cpp,           *)
(* htmlfmt.cpp), the queue they go into (CHtmlSoundQueue, htmlsnd.cpp), the *)
(* sounds (QTadsSound, qtadssound.cc) and their streams (AudioStream).     *)
(*                                                                         *)
(* Two threads run this code: the GUI's, in which the game runs, and the   *)
(* one from which SDL calls the audio callback.  The operations call each  *)
(* other - a sound that ends tells the queue, which starts the next - so   *)
(* each thread has a stack of calls, taken step by step.                   *)
(*                                                                         *)
(* A tag plays once, has a sound of its own (sounds are not cached) and so *)
(* one entry in the queue: the sound stands for the three of them.         *)
(***************************************************************************)
EXTENDS AudioStream, Sequences, SequencesExt

CONSTANTS
  Sounds,          \* bound: the sounds there may be at a time
  None,            \* a null pointer
  Attributes,      \* the attributes that tags may have
  LoopsPerBuffer,  \* bound: how often a stream may end within one buffer
  Overlap          \* whether the audio callback may run while the GUI thread
                   \* is in the middle of an operation

Hows == {"halt", "fade", "crossfade"}   \* ways to cancel: at once, with a
                                        \* fade, with a fade in background

ASSUME SoundAssumption ==
  /\ None \notin Sounds /\ LoopsPerBuffer \in Nat \ {0} /\ Overlap \in BOOLEAN
  /\ Attributes \subseteq
       [seq : {"default", "replace", "loop", "random"}, rnd : BOOLEAN, repeat : Nat,
        fadein : BOOLEAN, fadeout : BOOLEAN, xin : BOOLEAN, xout : BOOLEAN, interrupt : BOOLEAN]

VARIABLES
  life,     \* "none", "live", or "dead": ~QTadsSound has run, and the stream
            \* is in streamsPendingDeletion
  tag,      \* whether the tag has a reference to the sound
  attr, left, cancelled,  \* of the entry: the tag's attributes with the fades
                          \* set later, repeat_count_, cancel_
  queue, playing_, last_played_, seq_mode, \* of the queue
  snd,      \* of the sound: fPlaying, fRepeats, fCrossFade, fFadeOutTimer;
            \* done: fDone_func is set
  strm, list,                              \* the streams and fStreamList
  enabled,  \* Settings::enableSoundEffects
  stack,    \* per thread: the calls it is in, innermost first
  incb, rest,  \* the callback is running, and what is left of its copy of list
  calls     \* history: how often fDone_func was called since the sound started

entries == <<attr, left, cancelled>>
qvars   == <<queue, playing_, last_played_, seq_mode>>
audio   == <<strm, list, incb, rest>>
vars    == <<life, tag, entries, qvars, snd, audio, enabled, stack, calls>>

Silent == [fPlaying |-> FALSE, fRepeats |-> 0, fCrossFade |-> FALSE, timer |-> "off", done |-> FALSE]
NoAttr == [seq |-> "default", rnd |-> FALSE, repeat |-> 0, fadein |-> FALSE, fadeout |-> FALSE,
           xin |-> FALSE, xout |-> FALSE, interrupt |-> FALSE]

Init ==
  /\ life = [s \in Sounds |-> "none"] /\ tag = [s \in Sounds |-> FALSE]
  /\ attr = [s \in Sounds |-> NoAttr]
  /\ left = [s \in Sounds |-> 0] /\ cancelled = [s \in Sounds |-> FALSE]
  /\ queue = << >> /\ playing_ = None /\ last_played_ = None /\ seq_mode = "default"
  /\ snd = [s \in Sounds |-> Silent] /\ strm = [s \in Sounds |-> Stopped] /\ list = << >>
  /\ enabled = TRUE
  /\ stack = [t \in {"gui", "audio"} |-> << >>] /\ incb = FALSE /\ rest = << >>
  /\ calls = [s \in Sounds |-> 0]

-----------------------------------------------------------------------------
\* Calls.  A call is on a sound, or on none; how is for the ones that cancel,
\* n is the repeat count that on_sound_done is given.

Call(op, s) == [op |-> op, s |-> s, how |-> "halt", n |-> 0]
CallHow(op, s, how) == [Call(op, s) EXCEPT !.how = how]
DoneCall(s, n) == [Call("done", s) EXCEPT !.n = n]

In(t, op) == stack[t] # << >> /\ Head(stack[t]).op = op
Top(t) == Head(stack[t])
Become(t, more) == stack' = [stack EXCEPT ![t] = more \o Tail(@)]
Return(t) == Become(t, << >>)

\* SdlAudioLocker: SDL holds the lock while the callback runs.
Lock(t) == t = "gui" => ~incb

GuiIdle == stack["gui"] = << >> /\ (Overlap \/ ~incb)

-----------------------------------------------------------------------------
\* The queue.

\* What is left of a list when some are removed, in the same order.
Without(q, gone) ==
  LET kept[i \in 0 .. Len(q)] ==
        IF i = 0 THEN << >>
        ELSE IF q[i] \in gone THEN kept[i - 1] ELSE Append(kept[i - 1], q[i])
  IN  kept[Len(q)]

\* Mutant: last_played_ is left alone.
Survivor_stays(e, gone) == e

\* What last_played_ becomes when it was e: the nearest entry left before it.
Survivor(e, gone) ==
  IF e \notin gone THEN e
  ELSE LET before == {i \in DOMAIN queue :
                        queue[i] \notin gone /\ \E j \in DOMAIN queue : i < j /\ queue[j] = e}
       IN  IF before = {} THEN None ELSE queue[Max(before)]

\* delete_queue_entry for all of gone, and ~QTadsSound for those without a tag.
DeleteEntries(t, gone, last) ==
  /\ (\E s \in gone : ~tag[s]) => Lock(t)
  /\ attr' = [s \in Sounds |-> IF s \in gone THEN NoAttr ELSE attr[s]]
  /\ snd' = [s \in Sounds |-> IF s \in gone /\ ~tag[s] THEN Silent ELSE snd[s]]
  /\ queue' = Without(queue, gone)
  /\ last_played_' = Survivor(last, gone)
  /\ life' = [s \in Sounds |-> IF s \in gone /\ ~tag[s] THEN "dead" ELSE life[s]]

\* add_sound.  A crossfade into the new sound is one out of the last in the
\* queue: add_crossfade, set_crossfade_out.
AddSound(t) ==
  LET s == Top(t).s
      last == queue[Len(queue)]
      cross == attr[s].xin /\ queue # << >>
  IN  /\ In(t, "add")
      /\ queue' = Append(queue, s)
      /\ left' = [left EXCEPT ![s] = attr[s].repeat]
      /\ cancelled' = [cancelled EXCEPT ![s] = FALSE]
      /\ IF cross
         THEN /\ attr' = [attr EXCEPT ![last].xout = TRUE, ![last].fadeout = TRUE]
              /\ snd' = [snd EXCEPT ![last].fCrossFade = TRUE,
                                    ![last].timer = IF snd[last].fPlaying THEN "on" ELSE @]
         ELSE UNCHANGED <<attr, snd>>
      /\ IF playing_ = None THEN Become(t, <<Call("maybe", None)>>) ELSE Return(t)
      /\ UNCHANGED <<life, tag, playing_, last_played_, seq_mode, audio, enabled, calls>>

\* Mutant: the sound that plays is cancelled, but not those behind it.
MarkCancelled_first == [s \in Sounds |-> cancelled[s] \/ s = playing_]
MarkCancelled == [s \in Sounds |-> cancelled[s] \/ s \in Range(queue)]

\* stop_current_sound
StopCurrentSound(t) ==
  /\ In(t, "stopcur")
  /\ IF playing_ # None
     THEN /\ cancelled' = MarkCancelled
          /\ Become(t, <<CallHow("cancel", playing_, Top(t).how)>>)
          /\ UNCHANGED <<life, queue, last_played_, attr, snd>>
     ELSE /\ DeleteEntries(t, Range(queue), last_played_)
          /\ Return(t)
          /\ UNCHANGED cancelled
  /\ UNCHANGED <<tag, left, playing_, seq_mode, audio, enabled, calls>>

\* on_sound_done.  It is the sound being played that is over, whichever called.
OnSoundDone(t) ==
  LET p == playing_
      now == IF p = None \/ left[p] = 0 THEN left ELSE [left EXCEPT ![p] = @ - Top(t).n]
      gone == {e \in Range(queue) : cancelled[e]}
                \union {e \in {p} \ {None} : left[e] # 0 /\ now[e] = 0}
  IN  /\ In(t, "done")
      /\ seq_mode' = IF p = None THEN "default" ELSE attr[p].seq
      /\ playing_' = None
      /\ left' = [s \in Sounds |-> IF s \in gone THEN 0 ELSE now[s]]
      /\ cancelled' = [s \in Sounds |-> cancelled[s] /\ s \notin gone]
      /\ DeleteEntries(t, gone, p)
      /\ Become(t, <<Call("maybe", None)>>)
      /\ UNCHANGED <<tag, audio, enabled, calls>>

\* Where maybe_start_sound begins to look: in the default mode at the sound that
\* played last, which has been kept because it is not over.
From ==
  LET last == IF last_played_ = None THEN 0
              ELSE CHOOSE i \in DOMAIN queue : queue[i] = last_played_
  IN  CASE seq_mode = "loop"   -> {IF last = Len(queue) THEN 1 ELSE last + 1}
        [] seq_mode = "random" -> DOMAIN queue
        [] OTHER               -> {IF last = 0 THEN 1 ELSE last}

\* From i, every sound with RANDOM may be passed over, round to i again.
MayCome(i, j) ==
  \A k \in DOMAIN queue :
    (IF i <= j THEN i <= k /\ k < j ELSE k >= i \/ k < j) => attr[queue[k]].rnd

MaybeStartSound(t) ==
  /\ In(t, "maybe")
  /\ \/ /\ playing_ # None \/ \A e \in Range(queue) : attr[e].rnd
        /\ Return(t)
        /\ UNCHANGED <<life, attr, snd, qvars>>
     \/ /\ playing_ = None /\ queue # << >>
        /\ \E i \in From, j \in DOMAIN queue :
             LET e == queue[j]
                 more == seq_mode \in {"loop", "random"} /\ Len(queue) > 1
             IN  /\ MayCome(i, j)
                 /\ playing_' = e
                 /\ seq_mode' = attr[e].seq
                 /\ IF attr[e].seq = "replace"
                    THEN DeleteEntries(t, {queue[k] : k \in 1 .. j - 1}, last_played_)
                    ELSE UNCHANGED <<life, attr, snd, queue, last_played_>>
                 /\ Become(t, <<CallHow("start", e, IF more THEN "fade" ELSE "halt")>>)
  /\ UNCHANGED <<tag, left, cancelled, audio, enabled, calls>>

-----------------------------------------------------------------------------
\* The sounds.

\* The rest of maybe_start_sound, and startPlaying.  If that fails the entry is
\* cancelled, and on_sound_done(0) is called from here.
StartPlaying(t) ==
  LET e == Top(t).s
      repeat == IF attr[e].seq \in {"default", "replace"} /\ ~attr[e].rnd THEN left[e] ELSE 1
      fade_in == attr[e].fadein /\ left[e] = attr[e].repeat
      fade_out == attr[e].fadeout /\ repeat = left[e] /\ repeat # 0 /\ Top(t).how = "halt"
  IN  /\ In(t, "start")
      /\ IF enabled
         THEN /\ Lock(t)
              /\ strm' = [strm EXCEPT ![e] = Play(@, repeat, fade_in)]
              /\ list' = IF strm[e].playing THEN list ELSE Append(list, e)
              /\ snd' = [snd EXCEPT ![e] =
                   [fPlaying |-> TRUE, fRepeats |-> 1, fCrossFade |-> attr[e].xout, done |-> TRUE,
                    timer |-> IF fade_out /\ repeat = 1 THEN "on" ELSE @.timer]]
              /\ calls' = [calls EXCEPT ![e] = 0]
              /\ Return(t)
              /\ UNCHANGED cancelled
         ELSE /\ cancelled' = [cancelled EXCEPT ![e] = TRUE]
              /\ Become(t, <<DoneCall(e, 0)>>)
              /\ UNCHANGED <<strm, list, snd, calls>>
      /\ UNCHANGED <<life, tag, attr, left, qvars, incb, rest, enabled>>

\* Mutant: a sound that was played once does not report.
CallDone_repeated(t, s, then) ==
  IF snd[s].done /\ snd[s].fRepeats > 1
  THEN /\ Become(t, <<DoneCall(s, snd[s].fRepeats)>> \o then)
       /\ calls' = [calls EXCEPT ![s] = IF @ < 2 THEN @ + 1 ELSE @]
  ELSE Become(t, then) /\ UNCHANGED calls

\* fDone_func(fDone_func_ctx, fRepeats), and then the rest of the caller.
CallDone(t, s, then) ==
  IF snd[s].done
  THEN /\ Become(t, <<DoneCall(s, snd[s].fRepeats)>> \o then)
       /\ calls' = [calls EXCEPT ![s] = IF @ < 2 THEN @ + 1 ELSE @]
  ELSE Become(t, then) /\ UNCHANGED calls

\* cancelPlaying, which no one calls with sync while a sound plays on.
CancelPlaying(t) ==
  LET s == Top(t).s
  IN  /\ In(t, "cancel")
      /\ CASE ~snd[s].fPlaying -> Return(t) /\ UNCHANGED calls
           [] snd[s].fPlaying /\ Top(t).how = "crossfade" ->
                CallDone(t, s, <<CallHow("stop", s, "crossfade")>>)
           [] OTHER -> Become(t, <<CallHow("stop", s, Top(t).how)>>) /\ UNCHANGED calls
      /\ UNCHANGED <<life, tag, entries, qvars, snd, audio, enabled>>

\* fDoFadeOut.  addCrossFade may have made fFadeOut negative, if the sound has
\* been played longer than its length, being looped: then nothing is faded.
DoFadeOut(t) ==
  LET s == Top(t).s
  IN  /\ In(t, "fadeout")
      /\ \E how \in IF strm[s].wanted = 0 THEN {"crossfade", "cut"} ELSE {"crossfade"} :
           IF snd[s].fCrossFade
           THEN CallDone(t, s, <<CallHow("stop", s, how)>>)
           ELSE Become(t, <<CallHow("stop", s, "fade")>>) /\ UNCHANGED calls
      /\ UNCHANGED <<life, tag, entries, qvars, snd, audio, enabled>>

\* fDone_func is reset if it has just been called.
KeepsDone(how) == how \in {"halt", "fade"}

\* Mutant: so does it with one.
Finishes_fading(how) == how # "crossfade"

\* Without a fade, cancelPlaying calls fFinishCallback itself.
Finishes(how) == how = "halt"

\* The last part of both: the stream is stopped.
StopStream(t) ==
  LET s == Top(t).s
      how == Top(t).how
      fade == how \in {"fade", "crossfade"}
  IN  /\ In(t, "stop")
      /\ Lock(t)
      /\ snd' = [snd EXCEPT ![s].done = @ /\ KeepsDone(how)]
      /\ strm' = [strm EXCEPT ![s] = IF fade THEN StopFading(@) ELSE Stop(@)]
      /\ list' = IF fade THEN list ELSE Without(list, {s})
      /\ Become(t, IF Finishes(how) THEN <<Call("finish", s)>> ELSE << >>)
      /\ UNCHANGED <<life, tag, entries, qvars, incb, rest, enabled, calls>>

\* fFinishCallback
FinishCallback(t) ==
  LET s == Top(t).s
  IN  /\ In(t, "finish")
      /\ snd' = [snd EXCEPT ![s].fPlaying = FALSE]
      /\ CallDone(t, s, << >>)
      /\ UNCHANGED <<life, tag, entries, qvars, audio, enabled>>

\* obsolete_prev_sounds, for all tags but one: they let go of their sounds.
ObsoletePrevSounds(t) ==
  LET gone == {s \in Sounds : tag[s] /\ s # Top(t).s}
  IN  /\ In(t, "obsolete")
      /\ (gone \ Range(queue) # {}) => Lock(t)
      /\ tag' = [s \in Sounds |-> tag[s] /\ s \notin gone]
      /\ life' = [s \in Sounds |-> IF s \in gone \ Range(queue) THEN "dead" ELSE life[s]]
      /\ snd' = [s \in Sounds |-> IF s \in gone \ Range(queue) THEN Silent ELSE snd[s]]
      /\ Return(t)
      /\ UNCHANGED <<entries, qvars, audio, enabled, calls>>

CallStep(t) ==
  \/ AddSound(t) \/ StopCurrentSound(t) \/ OnSoundDone(t) \/ MaybeStartSound(t)
  \/ StartPlaying(t) \/ CancelPlaying(t) \/ DoFadeOut(t) \/ StopStream(t)
  \/ FinishCallback(t) \/ ObsoletePrevSounds(t)

-----------------------------------------------------------------------------
\* What starts these operations: the game's tags, the timers, the settings.

Begin(frames) == GuiIdle /\ stack' = [stack EXCEPT !["gui"] = frames]

\* CHtmlTagSOUND::format: the sound is loaded (createSound, which deletes the
\* streams that were waiting for that and have stopped) and put in the queue.
FormatSound(s, a) ==
  LET waiting == {x \in Sounds : life[x] = "dead" /\ ~strm[x].playing}
  IN  /\ ~incb
      /\ s \in waiting \/ life[s] = "none"
      /\ Begin((IF a.interrupt
                 THEN <<CallHow("stopcur", None, IF a.xin THEN "crossfade" ELSE "halt"),
                        Call("obsolete", s)>>
                 ELSE << >>) \o <<Call("add", s)>>)
      /\ life' = [x \in Sounds |-> IF x = s THEN "live" ELSE IF x \in waiting THEN "none" ELSE life[x]]
      /\ strm' = [x \in Sounds |-> IF x \in {s} \union waiting THEN Stopped ELSE strm[x]]
      /\ snd' = [snd EXCEPT ![s] = Silent]
      /\ attr' = [attr EXCEPT ![s] = [a EXCEPT !.interrupt = FALSE]]
      /\ tag' = [tag EXCEPT ![s] = TRUE]
      /\ calls' = [calls EXCEPT ![s] = 0]
      /\ UNCHANGED <<left, cancelled, qvars, list, incb, rest, enabled>>

\* Mutant: the tags let go of their sounds first.
FormatCancel_obsolete_first(how) ==
  /\ Begin(<<Call("obsolete", None), CallHow("stopcur", None, how)>>)
  /\ UNCHANGED <<life, tag, entries, qvars, snd, audio, enabled, calls>>

\* <SOUND CANCEL>
FormatCancel(how) ==
  /\ Begin(<<CallHow("stopcur", None, how), Call("obsolete", None)>>)
  /\ UNCHANGED <<life, tag, entries, qvars, snd, audio, enabled, calls>>

\* start_new_page: the tags are deleted, and then all sounds cancelled.
StartNewPage ==
  /\ Begin(<<Call("obsolete", None), Call("stopcur", None)>>)
  /\ UNCHANGED <<life, tag, entries, qvars, snd, audio, enabled, calls>>

\* notifyPreferencesChange
NotifyPreferencesChange ==
  /\ Begin(IF enabled THEN <<Call("stopcur", None)>> ELSE << >>)
  /\ enabled' = ~enabled
  /\ UNCHANGED <<life, tag, entries, qvars, snd, audio, calls>>

\* on_timer
OnTimer ==
  /\ playing_ = None /\ queue # << >>
  /\ Begin(<<Call("maybe", None)>>)
  /\ UNCHANGED <<life, tag, entries, qvars, snd, audio, enabled, calls>>

\* fFadeOutTimer, however late.
FadeOutTimer(s) ==
  /\ life[s] = "live" /\ snd[s].timer = "on"
  /\ Begin(<<Call("fadeout", s)>>)
  /\ snd' = [snd EXCEPT ![s].timer = "off"]
  /\ UNCHANGED <<life, tag, entries, qvars, audio, enabled, calls>>

-----------------------------------------------------------------------------
\* The audio callback, with the lock.  It takes the streams of a copy of the
\* list one by one.

CallbackIdle == incb /\ stack["audio"] = << >>

BeginCallback ==
  /\ ~incb /\ list # << >>
  /\ Overlap \/ stack["gui"] = << >>
  /\ incb' = TRUE
  /\ rest' = list
  /\ UNCHANGED <<life, tag, entries, qvars, snd, strm, list, enabled, stack, calls>>

\* fLoopCallback.  A timer that is on while the stream loops is there for a crossfade
\* (fRepeatsWanted is -1).  It is set anew, which only its own thread can do: it is
\* lost.
LoopCallback(sound) == [sound EXCEPT !.fRepeats = @ + 1, !.timer = "off"]

\* A stream is mixed.  If it has finished the finish callback is called, else if
\* it has looped the loop callback, unless the sound has unset them.
Mix(s, n, over) ==
  LET st == strm[s]
      ended == ~Skipped(st) /\ Finished(st, n, over)
      looped == ~Skipped(st) /\ ~ended /\ Looped(st, n)
  IN  /\ CallbackIdle /\ rest # << >> /\ Head(rest) = s
      /\ over => st.fading # "no"
      /\ rest' = Tail(rest)
      /\ strm' = [strm EXCEPT ![s] = IF Skipped(@) THEN @ ELSE Buffer(@, n, over)]
      /\ list' = IF ended THEN Without(list, {s}) ELSE list
      /\ snd' = [snd EXCEPT ![s] = IF looped /\ life[s] = "live"
                                   THEN LoopCallback(@) ELSE @]
      /\ stack' = [stack EXCEPT !["audio"] =
                      IF ended /\ life[s] = "live" THEN <<Call("finish", s)>> ELSE << >>]
      /\ UNCHANGED <<life, tag, entries, qvars, incb, enabled, calls>>

EndCallback ==
  /\ CallbackIdle /\ rest = << >>
  /\ incb' = FALSE
  /\ UNCHANGED <<life, tag, entries, qvars, snd, strm, list, rest, enabled, stack, calls>>

Buffers(s) == \E n \in 0 .. LoopsPerBuffer, over \in BOOLEAN : Mix(s, n, over)

Next ==
  \/ \E t \in {"gui", "audio"} : CallStep(t)
  \/ \E s \in Sounds, a \in Attributes : FormatSound(s, a)
  \/ \E how \in Hows : FormatCancel(how)
  \/ StartNewPage \/ NotifyPreferencesChange \/ OnTimer
  \/ \E s \in Sounds : FadeOutTimer(s)
  \/ BeginCallback \/ EndCallback
  \/ \E s \in Sounds : Buffers(s)
\* The GUI thread goes on, and SDL calls for buffers.  In the end a stream comes
\* to its end, and a fade to its own, whatever else goes on meanwhile.
Fairness ==
  /\ \A t \in {"gui", "audio"} : WF_vars(CallStep(t))
  /\ SF_vars(BeginCallback) /\ WF_vars(EndCallback)
  /\ \A s \in Sounds :
       /\ WF_vars(Buffers(s))
       /\ SF_vars(\E n \in 1 .. LoopsPerBuffer, over \in BOOLEAN : Mix(s, n, over))
       /\ SF_vars(\E n \in 0 .. LoopsPerBuffer : Mix(s, n, TRUE))

Spec == Init /\ [][Next]_vars /\ Fairness

-----------------------------------------------------------------------------
\* Type correctness.  No entry is played more often than its tag asks for: what
\* is left never becomes negative.
TypeOK ==
  /\ life \in [Sounds -> {"none", "live", "dead"}] /\ tag \in [Sounds -> BOOLEAN]
  /\ \A s \in Sounds : StreamOK(strm[s])
  /\ left \in [Sounds -> Nat] /\ cancelled \in [Sounds -> BOOLEAN]
  /\ {queue, list, rest} \subseteq Seq(Sounds)
  /\ {playing_, last_played_} \subseteq Range(queue) \union {None}
  /\ snd \in [Sounds -> [fPlaying : BOOLEAN, fRepeats : Nat, fCrossFade : BOOLEAN,
                         timer : {"on", "off"}, done : BOOLEAN]]

Quiet == \A t \in {"gui", "audio"} : stack[t] = << >>

\* While no operation is under way, the sound that the queue waits for is being
\* played and will report its end; no other sound will.
QueueBacked ==
  Quiet =>
    \A s \in Sounds :
      playing_ = s <=> (life[s] = "live" /\ snd[s].fPlaying /\ snd[s].done /\ strm[s].playing)

\* fStreamList has the streams that are playing, each once, and no other:
\* "removing streams that have stopped" (stream_p.cpp) while others are started.
ListExact ==
  /\ IsInjective(list)
  /\ Range(list) = {s \in Sounds : strm[s].playing}
  /\ \A s \in Range(list) \union Range(rest) : life[s] # "none"

\* No operation goes on with a sound that has been deleted under it - but for a
\* crossfade out of one that was being faded out already, the tag being gone.
AliveWhenUsed ==
  \A t \in {"gui", "audio"} : \A i \in DOMAIN stack[t] :
    LET call == stack[t][i]
    IN  call.op \in {"add", "cancel", "fadeout", "start", "stop", "finish"} =>
          \/ life[call.s] = "live"
          \/ call.op = "stop" /\ call.how = "crossfade" /\ strm[call.s].fading = "out"

\* "Immediately stop the sound currently playing.  Do not start a new sound."
\* (htmlsnd.h): none is started before what has been stopped is forgotten.
StopStartsNothing ==
  LET calling == stack["gui"]
  IN  ~\E i, j \in DOMAIN calling :
         i < j /\ calling[i].op = "start" /\ calling[j].op = "obsolete"

\* "Make sure our SDL callback won't call the TADS callback a second time."
\* (qtadssound.cc): the queue is told of the end of a sound once.
DoneOnce == \A s \in Sounds : calls[s] <= 1

\* The queue does not get stuck: a sound that is not looped for ever, or that is
\* cancelled, gives way.
QueueMoves ==
  \A s \in Sounds :
    (playing_ = s /\ (left[s] # 0 \/ cancelled[s])) ~> playing_ # s

\* A sound that has been deleted is not heard for ever, so that its stream is
\* deleted too.
DeadSoundsStop == \A s \in Sounds : life[s] = "dead" ~> ~(life[s] = "dead" /\ strm[s].playing)
=============================================================================
