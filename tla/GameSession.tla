----------------------------- MODULE GameSession -----------------------------
(***************************************************************************)
(* The life of a game in the Qt front end (sysframe.cc, syswininput.cc,    *)
(* syswingroup.cc): games are started, ask for lines and keys, are ended   *)
(* or replaced by the user, and leave.                                     *)
(*                                                                         *)
(* All of it is one thread, and no game yields: the user's events and the  *)
(* timers are handled inside the calls of the game, wherever one of them   *)
(* runs an event loop.  Each call of fRunGame that has not returned is a   *)
(* frame; events are handled in the innermost one.                         *)
(***************************************************************************)
EXTENDS Naturals, Sequences

CONSTANTS
  MaxBanners,  \* bound: the banners that may wait for the user to read them
  Impatient    \* whether the user may ask for a game while another, ended by
               \* him, has not left yet

ASSUME SessionAssumption == MaxBanners \in Nat \ {0} /\ Impatient \in BOOLEAN

VARIABLES
  frames,         \* the calls of fRunGame, innermost first
  fGameRunning,
  fNextGame,      \* "none", a "good" game, or a file that is "bad"
  fInputMode,     \* "No", "Normal", "SingleKey", "PagePause"
  fTag,           \* whether there is a tag for the line being edited
  fInputReady, fHrefEvent,
  fLastKey,       \* fLastKeyEvent and fLastKeyText: a key of one code or of two
  fPagePauseQueue,                \* how many banners are in it
  fPendingWaitForKeystrokeCmd,    \* "none", "eof", or the second code of a "key"
  result                          \* what the game got from its last input

window == <<fInputMode, fTag, fInputReady, fHrefEvent, fLastKey, fPagePauseQueue>>
vars == <<frames, fGameRunning, fNextGame, window, fPendingWaitForKeystrokeCmd, result>>

Pcs == {"next", "run", "pause", "line", "key", "sleep", "flush"}
Ops == {"none", "line", "event", "keystroke", "cancel", "suspend"}
Frame == [pc |-> "next", op |-> "none", timed |-> FALSE, quit |-> FALSE]

Init ==
  /\ frames = << >> /\ fGameRunning = FALSE /\ fNextGame = "none"
  /\ fInputMode = "No" /\ fTag = FALSE /\ fInputReady = FALSE /\ fHrefEvent = FALSE
  /\ fLastKey = "plain" /\ fPagePauseQueue = 0
  /\ fPendingWaitForKeystrokeCmd = "none" /\ result = "none"

Top == Head(frames)
At(pc) == frames # << >> /\ Top.pc = pc
Goto(f) == frames' = <<f>> \o Tail(frames)
Compute == [Top EXCEPT !.pc = "run", !.op = "none", !.timed = FALSE, !.quit = FALSE]

-----------------------------------------------------------------------------
\* Games come and go.

\* The event loops of their own that wait for a time-out and for gameQuitting.
\* What is emitted before such a loop is entered does not end it.
InIdleLoop(f) == f.timed /\ f.pc \in {"line", "key", "sleep"}

\* Mutant: it ends a loop that has not been entered.
GameQuitting_early(fs) == [i \in DOMAIN fs |-> [fs[i] EXCEPT !.quit = @ \/ fs[i].timed]]
GameQuitting(fs) == [i \in DOMAIN fs |-> [fs[i] EXCEPT !.quit = @ \/ InIdleLoop(fs[i])]]

\* The loop of fRunGame.  A game gets a new window.
RunNext ==
  /\ At("next") /\ fNextGame = "good"
  /\ fNextGame' = "none"
  /\ fInputMode' = "No" /\ fTag' = FALSE /\ fInputReady' = FALSE /\ fHrefEvent' = FALSE
  /\ fPagePauseQueue' = 0
  /\ fGameRunning' = TRUE
  /\ Goto(Compute)
  /\ UNCHANGED <<fLastKey, fPendingWaitForKeystrokeCmd, result>>

NotAGame ==
  /\ At("next") /\ fNextGame = "bad"
  /\ fNextGame' = "none"
  /\ UNCHANGED <<frames, fGameRunning, window, fPendingWaitForKeystrokeCmd, result>>

NothingToRun ==
  /\ At("next") /\ fNextGame = "none"
  /\ frames' = Tail(frames)
  /\ UNCHANGED <<fGameRunning, fNextGame, window, fPendingWaitForKeystrokeCmd, result>>

\* Mutant: what is pending stays.
Left_pending == fPendingWaitForKeystrokeCmd
\* What fPendingWaitForKeystrokeCmd is when a game has left.
Left == "none"

\* Mutant: no other game is run before fRunGame has returned.
AfterGame_returns == Tail(frames)
AfterGame == <<Frame>> \o Tail(frames)

\* fRunT2Game or fRunT3Game returns.
GameLeaves ==
  /\ At("run")
  /\ fGameRunning' = FALSE
  /\ fPendingWaitForKeystrokeCmd' = Left
  /\ frames' = AfterGame
  /\ UNCHANGED <<fNextGame, window, result>>

-----------------------------------------------------------------------------
\* Input.  The game computes, and asks for a line or a key.

\* removeFromPagePauseQueue.  n is the number of banners left.
ModeWithBanners(n) == IF n = 0 /\ fInputMode = "PagePause" THEN "No" ELSE fInputMode

RemoveFromPagePauseQueue ==
  /\ fPagePauseQueue > 0
  /\ fPagePauseQueue' = fPagePauseQueue - 1
  /\ fInputMode' = ModeWithBanners(fPagePauseQueue - 1)
  /\ UNCHANGED <<frames, fGameRunning, fNextGame, fTag, fInputReady, fHrefEvent, fLastKey,
                 fPendingWaitForKeystrokeCmd, result>>

\* Text in a banner that does not fit, or a banner that is cleared or deleted.
AddToPagePauseQueue ==
  /\ At("run") /\ fPagePauseQueue < MaxBanners
  /\ fPagePauseQueue' = fPagePauseQueue + 1
  /\ UNCHANGED <<frames, fGameRunning, fNextGame, fInputMode, fTag, fInputReady, fHrefEvent,
                 fLastKey, fPendingWaitForKeystrokeCmd, result>>
ClearBanner == At("run") /\ RemoveFromPagePauseQueue

\* Waiting for the input itself.
Wait(f) ==
  /\ fInputReady' = FALSE
  /\ IF f.op = "line"
     THEN fInputMode' = "Normal" /\ Goto([f EXCEPT !.pc = "line"]) /\ UNCHANGED fHrefEvent
     ELSE fInputMode' = "SingleKey" /\ Goto([f EXCEPT !.pc = "key"]) /\ fHrefEvent' = FALSE

\* getInput and getKeypress: first, fProcessPagePauseQueue.
StartInput(op, timed) ==
  LET f == [Top EXCEPT !.op = op, !.timed = timed]
  IN  /\ At("run")
      /\ op = "keystroke" => ~timed /\ fPendingWaitForKeystrokeCmd = "none"
      /\ fTag' = (fTag \/ op = "line")
      /\ result' = "none"
      /\ IF fPagePauseQueue = 0
         THEN Wait(f)
         ELSE /\ fInputMode' = "PagePause"
              /\ Goto([f EXCEPT !.pc = "pause"])
              /\ UNCHANGED <<fInputReady, fHrefEvent>>
      /\ UNCHANGED <<fGameRunning, fNextGame, fLastKey, fPagePauseQueue,
                     fPendingWaitForKeystrokeCmd>>

\* Mutant: only the user can end it.
PauseEnded_by_user == fInputMode # "PagePause"
PauseEnded == fInputMode # "PagePause" \/ ~fGameRunning

PauseOver ==
  /\ At("pause") /\ PauseEnded
  /\ Wait(Top)
  /\ UNCHANGED <<fGameRunning, fNextGame, fTag, fLastKey, fPagePauseQueue,
                 fPendingWaitForKeystrokeCmd, result>>

\* Mutant: the time-out has the last word.
TimedOut_first == Top.timed /\ fGameRunning
TimedOut == Top.timed /\ ~fInputReady /\ fGameRunning

\* Mutant: a line that is interrupted can still be edited.
ModeInterrupted_edits == fInputMode
ModeInterrupted == "No"

\* The end of getInput: the line is interrupted, the tag remains; or cancelInput.
LineOver ==
  /\ At("line") /\ (IF Top.timed THEN Top.quit ELSE fInputReady \/ ~fGameRunning)
  /\ IF TimedOut
     THEN fInputMode' = ModeInterrupted /\ result' = "timeout" /\ Goto(Compute)
     ELSE Goto([Top EXCEPT !.pc = "flush", !.quit = FALSE]) /\ UNCHANGED <<fInputMode, result>>
  /\ UNCHANGED <<fGameRunning, fNextGame, fTag, fInputReady, fHrefEvent, fLastKey,
                 fPagePauseQueue, fPendingWaitForKeystrokeCmd>>

\* get_input_cancel
CancelInput(reset) ==
  /\ At("run") /\ fTag
  /\ Goto([Top EXCEPT !.pc = "flush", !.op = IF reset THEN "cancel" ELSE "suspend"])
  /\ UNCHANGED <<fGameRunning, fNextGame, window, fPendingWaitForKeystrokeCmd, result>>

\* cancelInput returns, having let events in, and get_input_timeout with it.
FlushOver ==
  /\ At("flush")
  /\ fTag' = (fTag /\ Top.op = "suspend")
  /\ result' = IF Top.op # "line" THEN result ELSE IF fGameRunning THEN "line" ELSE "eof"
  /\ Goto(Compute)
  /\ UNCHANGED <<fGameRunning, fNextGame, fInputMode, fInputReady, fHrefEvent, fLastKey,
                 fPagePauseQueue, fPendingWaitForKeystrokeCmd>>

\* The end of getKeypress and get_input_event: what wait_for_keystroke makes of
\* it is the first of two codes, or the only one.
KeyOver ==
  LET got == CASE ~fGameRunning -> "eof"
               [] fGameRunning /\ fHrefEvent -> "href"
               [] fGameRunning /\ ~fHrefEvent /\ TimedOut -> "timeout"
               [] OTHER -> "key"
  IN  /\ At("key")
      /\ IF Top.timed THEN Top.quit ELSE fInputReady \/ fHrefEvent \/ ~fGameRunning
      /\ result' = got
      /\ fPendingWaitForKeystrokeCmd' =
           CASE Top.op = "keystroke" /\ got = "eof" -> "eof"
             [] Top.op = "keystroke" /\ got = "key" /\ fLastKey = "extended" -> "key"
             [] OTHER -> fPendingWaitForKeystrokeCmd
      /\ Goto(Compute)
      /\ UNCHANGED <<fGameRunning, fNextGame, window>>

\* wait_for_keystroke, when it has the second code.
PendingKeystroke ==
  /\ At("run") /\ fPendingWaitForKeystrokeCmd # "none"
  /\ result' = fPendingWaitForKeystrokeCmd
  /\ fPendingWaitForKeystrokeCmd' = "none"
  /\ UNCHANGED <<frames, fGameRunning, fNextGame, window>>

\* os_sleep_ms
Sleep ==
  /\ At("run") /\ fGameRunning
  /\ Goto([Top EXCEPT !.pc = "sleep", !.timed = TRUE])
  /\ UNCHANGED <<fGameRunning, fNextGame, window, fPendingWaitForKeystrokeCmd, result>>

WakeUp ==
  /\ At("sleep") /\ Top.quit
  /\ Goto(Compute)
  /\ UNCHANGED <<fGameRunning, fNextGame, window, fPendingWaitForKeystrokeCmd, result>>

-----------------------------------------------------------------------------
\* Events: they are handled where an event loop runs.

EventLoop == frames # << >> => Top.pc \in {"pause", "line", "key", "sleep", "flush"}

TimerFires ==
  /\ frames # << >> /\ InIdleLoop(Top) /\ ~Top.quit
  /\ Goto([Top EXCEPT !.quit = TRUE])
  /\ UNCHANGED <<fGameRunning, fNextGame, window, fPendingWaitForKeystrokeCmd, result>>

\* inputReady is emitted; only the loops of getInput and getKeypress care.
InputReady ==
  /\ fInputReady' = TRUE
  /\ fInputMode' = "No"
  /\ Goto([Top EXCEPT !.quit = @ \/ (InIdleLoop(Top) /\ Top.pc # "sleep")])

\* The line is completed, by the Enter key or by a link (processCommand).
EnterLine ==
  /\ EventLoop /\ fGameRunning /\ fInputMode = "Normal"
  /\ InputReady
  /\ UNCHANGED <<fGameRunning, fNextGame, fTag, fHrefEvent, fLastKey, fPagePauseQueue,
                 fPendingWaitForKeystrokeCmd, result>>

\* singleKeyPressEvent
SingleKeyPress(k) ==
  /\ EventLoop /\ fGameRunning /\ fInputMode = "SingleKey"
  /\ fLastKey' = k
  /\ InputReady
  /\ UNCHANGED <<fGameRunning, fNextGame, fTag, fHrefEvent, fPagePauseQueue,
                 fPendingWaitForKeystrokeCmd, result>>

\* A link, while waiting for a key (processCommand): no idle loop is told.
FollowLink ==
  /\ EventLoop /\ fGameRunning /\ fInputMode = "SingleKey"
  /\ fHrefEvent' = TRUE
  /\ UNCHANGED <<frames, fGameRunning, fNextGame, fInputMode, fTag, fInputReady, fLastKey,
                 fPagePauseQueue, fPendingWaitForKeystrokeCmd, result>>

\* A banner is scrolled to its end, by a key while pausing or by the mouse.
ScrollBanner == frames # << >> /\ EventLoop /\ RemoveFromPagePauseQueue

\* fEndCurrentGame: setGameRunning(false)
EndGame ==
  /\ EventLoop /\ fGameRunning
  /\ fGameRunning' = FALSE
  /\ frames' = GameQuitting(frames)
  /\ UNCHANGED <<fNextGame, window, fPendingWaitForKeystrokeCmd, result>>

\* setNextGame: a game is opened, dropped, or started again.
SetNextGame(g) ==
  /\ EventLoop /\ (Impatient \/ frames = << >> \/ fGameRunning)
  /\ fNextGame' = g
  /\ fGameRunning' = FALSE
  /\ frames' = IF fGameRunning THEN GameQuitting(frames) ELSE <<Frame>> \o frames
  /\ UNCHANGED <<window, fPendingWaitForKeystrokeCmd, result>>

-----------------------------------------------------------------------------
Events ==
  \/ TimerFires \/ EnterLine \/ FollowLink \/ ScrollBanner \/ EndGame
  \/ \E k \in {"plain", "extended"} : SingleKeyPress(k)
  \/ \E g \in {"good", "bad"} : SetNextGame(g)

\* What the code does by itself once its turn has come.
Proceed == RunNext \/ NotAGame \/ NothingToRun \/ PauseOver \/ LineOver \/ FlushOver \/ KeyOver \/ WakeUp

Game ==
  \/ GameLeaves \/ AddToPagePauseQueue \/ ClearBanner \/ PendingKeystroke \/ Sleep
  \/ \E op \in {"line", "event", "keystroke"}, timed \in BOOLEAN : StartInput(op, timed)
  \/ \E reset \in BOOLEAN : CancelInput(reset)

Next == Events \/ Proceed \/ Game

\* Timers fire.  A game that is told that there is no more input leaves sooner or
\* later, if only because it is killed in the end (check_eof_loop); users promise
\* nothing.
Fairness ==
  /\ WF_vars(TimerFires) /\ WF_vars(Proceed)
  /\ SF_vars(GameLeaves /\ ~fGameRunning)

Spec == Init /\ [][Next]_vars /\ Fairness

-----------------------------------------------------------------------------
\* Type correctness.  Only a loop that runs has been told to quit.
TypeOK ==
  /\ frames \in Seq([pc : Pcs, op : Ops, timed : BOOLEAN, quit : BOOLEAN])
  /\ \A i \in DOMAIN frames : frames[i].quit => InIdleLoop(frames[i])
  /\ fNextGame \in {"none", "good", "bad"}
  /\ fInputMode \in {"No", "Normal", "SingleKey", "PagePause"}
  /\ {fGameRunning, fTag, fInputReady, fHrefEvent} \subseteq BOOLEAN
  /\ fLastKey \in {"plain", "extended"} /\ fPagePauseQueue \in 0 .. MaxBanners
  /\ fPendingWaitForKeystrokeCmd \in {"none", "eof", "key"}
  /\ result \in {"none", "line", "timeout", "eof", "href", "key"}

\* "If no game is currently executing, run it now. Otherwise, end the current
\* game." (sysframe.h): no game is run inside another one.
OneGame == Len(frames) <= 1

\* The handlers of keys and links use the input tag whenever the mode is the one
\* for editing a line, wherever the event loop runs that calls them.
EditedLineHasTag == fGameRunning /\ fInputMode = "Normal" => fTag

\* A game does not begin with a key that was pressed in, or an end of file that
\* was meant for, the one before.
NoStaleCommand == [][~fGameRunning /\ fGameRunning' => fPendingWaitForKeystrokeCmd' = "none"]_vars

\* A line that has been entered, or a key pressed, in time or in the last moment,
\* is what the game gets, unless it is ended (or a link was followed before).
InputArrives ==
  /\ (At("line") /\ fInputReady) ~> (result = "line" \/ ~fGameRunning)
  /\ (At("key") /\ (fInputReady \/ fHrefEvent)) ~> (result \in {"key", "href"} \/ ~fGameRunning)

\* A game that the user ends does leave, whatever it waits for.
GameEnds == ~fGameRunning ~> (fGameRunning \/ frames = << >>)

\* The game that the user has asked for is run.
NextGameRuns == fNextGame = "good" ~> (fGameRunning \/ fNextGame = "bad")
=============================================================================
