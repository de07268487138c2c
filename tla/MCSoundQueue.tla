---------------------------- MODULE MCSoundQueue ----------------------------
(***************************************************************************)
(* Instances of SoundQueue for TLC.                                        *)
(***************************************************************************)
EXTENDS SoundQueue

Tag(seq, repeat) == [NoAttr EXCEPT !.seq = seq, !.repeat = repeat]
Interrupting(a) == [a EXCEPT !.interrupt = TRUE]

\* Effects and music of all the sequence modes.  A crossfade into a tag's sound
\* comes with INTERRUPT.
Medley ==
  {Tag("default", 0), Tag("loop", 2),
   [Tag("random", 2) EXCEPT !.rnd = TRUE],
   [Tag("replace", 1) EXCEPT !.fadeout = TRUE],
   Interrupting([Tag("default", 2) EXCEPT !.fadein = TRUE, !.fadeout = TRUE, !.xin = TRUE])}

\* One effect after the other.
Effects == {Tag("default", 1)}
=============================================================================
