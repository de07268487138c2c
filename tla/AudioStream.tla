----------------------------- MODULE AudioStream -----------------------------
(***************************************************************************)
(* One stream of SDL_audiolib (Aulib::Stream): playing it, stopping it, and *)
(* what the audio callback makes of it.  A stream is a record; its methods *)
(* are operators that return the stream as it is afterwards.               *)
(*                                                                         *)
(* fFadingIn and fFadingOut are never both set: they are one field.        *)
(***************************************************************************)
EXTENDS Integers

Fading == {"no", "in", "out"}

Stopped == [playing |-> FALSE, iter |-> 0, wanted |-> 0, fading |-> "no",
            stop_after |-> FALSE, paused |-> FALSE]

StreamOK(st) ==
  /\ {st.playing, st.stop_after, st.paused} \subseteq BOOLEAN
  /\ {st.iter, st.wanted} \subseteq Nat /\ st.fading \in Fading
  /\ DOMAIN st = DOMAIN Stopped

\* Stream::play.  A stream that is playing goes on as it is.  Without a fade
\* fFadingIn is reset, fFadingOut and the rest are not.
Play(st, iterations, fade) ==
  IF st.playing THEN st
  ELSE [st EXCEPT !.playing = TRUE, !.iter = 0, !.wanted = iterations,
          !.fading = IF fade THEN "in" ELSE IF @ = "in" THEN "no" ELSE @]

\* Mutant: fIsPlaying is left as it is.
Stop_playing(st) == st

\* Mutant: a fade-out only pauses.
StopFading_pauses(st) == [st EXCEPT !.fading = "out"]

\* Stream::stop, without a fade (fStop) and with one.
Stop(st) == [st EXCEPT !.playing = FALSE]
StopFading(st) == [st EXCEPT !.fading = "out", !.stop_after = TRUE]

\* The callback passes over a stream that has been played out or is paused.
Skipped(st) == st.paused \/ (st.wanted # 0 /\ st.iter >= st.wanted)

\* What happens within one buffer: the stream comes to its end n times, and its
\* fade runs out (over) or does not.
PlayedOut(st, n) == st.wanted # 0 /\ st.iter + n >= st.wanted
Looped(st, n) == st.wanted # 0 /\ n > 0 /\ ~PlayedOut(st, n)
\* Mutant: the end of the fade does not stop the stream.
FadedOut_never(st, over) == FALSE
FadedOut(st, over) == over /\ st.fading = "out" /\ st.stop_after

\* The decoding loop, then fProcessFadeAndCheckIfFinished.  At the end of a
\* fade-out it is fFadingIn that is reset.
Buffer(st, n, over) ==
  [st EXCEPT
     !.iter = IF st.wanted = 0 THEN @ ELSE IF PlayedOut(st, n) THEN st.wanted ELSE @ + n,
     !.playing = @ /\ ~PlayedOut(st, n) /\ ~FadedOut(st, over),
     !.fading = IF over /\ @ = "in" THEN "no" ELSE @,
     !.stop_after = @ /\ ~FadedOut(st, over),
     !.paused = @ \/ (over /\ st.fading = "out" /\ ~st.stop_after)]

Finished(st, n, over) == PlayedOut(st, n) \/ FadedOut(st, over)
=============================================================================
