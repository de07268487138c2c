-------------------------- MODULE GameSession_proof --------------------------
(***************************************************************************)
(* Proofs about GameSession, for any number of banners: a line that is     *)
(* being edited has its input tag, and a key or an end of file that was    *)
(* pending for one game reaches another only if that is run inside it,     *)
(* which it is not if the user waits for games to leave.                   *)
(***************************************************************************)
EXTENDS GameSession, TLAPS

FrameType == [pc : Pcs, op : Ops, timed : BOOLEAN, quit : BOOLEAN]

\* A call of fRunGame that has been told to quit is in a loop that ends by it.
QuitOK(f) == f.quit => InIdleLoop(f)

\* While a game runs there is a call of fRunGame that runs it, and the modes of
\* input are those of what it waits for; an input that is ready was the last.
InputOK ==
  /\ fGameRunning => frames # << >> /\ Top.pc # "next"
  /\ fGameRunning /\ fInputMode = "Normal" => At("line") /\ fTag
  /\ fGameRunning /\ At("pause") /\ Top.op = "line" => fTag
  /\ fInputReady => fInputMode # "Normal"

\* The inductive invariant.
Inv == TypeOK /\ InputOK

\* Lemma: the innermost call is replaced.
LEMMA GotoFacts ==
  ASSUME NEW S, NEW q \in Seq(S), q # << >>, NEW f \in S
  PROVE  LET r == <<f>> \o Tail(q)
         IN  /\ r \in Seq(S) /\ r # << >> /\ Head(r) = f /\ Len(r) = Len(q)
             /\ \A i \in DOMAIN r : r[i] = f \/ (i \in DOMAIN q /\ r[i] = q[i])
             /\ \A i \in 2 .. Len(q) : r[i] = q[i]
<1> DEFINE r == <<f>> \o Tail(q)
<1>1. /\ Len(q) \in Nat \ {0} /\ Tail(q) \in Seq(S) /\ Len(Tail(q)) = Len(q) - 1
      /\ \A i \in 1 .. Len(q) - 1 : Tail(q)[i] = q[i + 1]
  OBVIOUS
<1>2. r \in Seq(S) /\ Len(r) = Len(q) /\ r[1] = f
      /\ \A i \in 2 .. Len(q) : r[i] = Tail(q)[i - 1]
  BY <1>1
<1>3. \A i \in 2 .. Len(q) : r[i] = q[i]
  BY <1>1, <1>2
<1> QED BY <1>1, <1>2, <1>3

\* The part of TypeOK about the calls of fRunGame.
FramesOK == frames \in Seq(FrameType) /\ \A i \in DOMAIN frames : QuitOK(frames[i])

\* The other part.
RestOK ==
  /\ fNextGame \in {"none", "good", "bad"}
  /\ fInputMode \in {"No", "Normal", "SingleKey", "PagePause"}
  /\ fGameRunning \in BOOLEAN /\ fTag \in BOOLEAN
  /\ fInputReady \in BOOLEAN /\ fHrefEvent \in BOOLEAN
  /\ fLastKey \in {"plain", "extended"} /\ fPagePauseQueue \in 0 .. MaxBanners
  /\ fPendingWaitForKeystrokeCmd \in {"none", "eof", "key"}
  /\ result \in {"none", "line", "timeout", "eof", "href", "key"}

\* Lemma: the two parts make up TypeOK.
LEMMA TypeParts == TypeOK <=> FramesOK /\ RestOK
  BY DEF TypeOK, FramesOK, RestOK, FrameType, QuitOK

\* Lemma: the same of the state after a step.
LEMMA TypePartsNext == FramesOK' /\ RestOK' => TypeOK'
  BY TypeParts, PTL

\* Lemma: the innermost call is in a state of its type.
LEMMA TopFacts ==
  ASSUME FramesOK, frames # << >>
  PROVE  Top \in FrameType /\ QuitOK(Top)
<1>1. 1 \in DOMAIN frames /\ Top = frames[1]
  BY DEF FramesOK, Top
<1> QED BY <1>1 DEF FramesOK

\* Lemma: what Goto leaves.
LEMMA GotoOK ==
  ASSUME FramesOK, frames # << >>, NEW f \in FrameType, QuitOK(f), Goto(f)
  PROVE  FramesOK' /\ frames' # << >> /\ Top' = f
<1>1. frames \in Seq(FrameType) /\ frames' = <<f>> \o Tail(frames)
  BY DEF FramesOK, Goto
<1>2. /\ frames' \in Seq(FrameType) /\ frames' # << >> /\ Head(frames') = f
      /\ \A i \in DOMAIN frames' :
           frames'[i] = f \/ (i \in DOMAIN frames /\ frames'[i] = frames[i])
  BY <1>1, GotoFacts
<1> QED BY <1>2 DEF FramesOK, Top

\* Lemma: what the game goes on with.
LEMMA ComputeFacts ==
  ASSUME FramesOK, frames # << >>
  PROVE  Compute \in FrameType /\ QuitOK(Compute) /\ Compute.pc = "run"
  BY TopFacts DEF Compute, FrameType, QuitOK, Pcs, Ops

\* Lemma: what the invariant says of the state a step starts from.
LEMMA InvParts == Inv => FramesOK /\ RestOK /\ InputOK
  BY TypeParts DEF Inv

\* Lemma: and of the state it leads to.
LEMMA InvPartsNext == Inv' => FramesOK' /\ RestOK' /\ InputOK'
  BY InvParts, PTL

\* Lemma: the same parts make up the invariant after the step.
LEMMA PartsInvNext == FramesOK' /\ RestOK' /\ InputOK' => Inv'
  BY TypePartsNext DEF Inv

\* Lemma: calls that are left alone stay as they should be.
LEMMA SameFrames == FramesOK /\ frames' = frames => FramesOK'
  BY DEF FramesOK

\* Lemma: the first call of fRunGame is as it should be.
LEMMA FrameOK == Frame \in FrameType /\ QuitOK(Frame) /\ Frame.pc = "next"
  BY DEF Frame, FrameType, QuitOK, Pcs, Ops

\* Lemma: when a call has returned, those it was made from are left.
LEMMA TailOK ==
  ASSUME FramesOK, frames # << >>, frames' = Tail(frames)
  PROVE  FramesOK'
<1>1. /\ frames \in Seq(FrameType) /\ Tail(frames) \in Seq(FrameType)
      /\ \A i \in DOMAIN Tail(frames) : i + 1 \in DOMAIN frames /\ Tail(frames)[i] = frames[i + 1]
  BY DEF FramesOK
<1> QED BY <1>1 DEF FramesOK

\* Lemma: a new call of fRunGame is made from an event loop.
LEMMA PushOK ==
  ASSUME FramesOK, NEW f \in FrameType, QuitOK(f), frames' = <<f>> \o frames
  PROVE  FramesOK' /\ frames' # << >> /\ Top' = f
<1>1. /\ frames \in Seq(FrameType) /\ <<f>> \o frames \in Seq(FrameType)
      /\ Head(<<f>> \o frames) = f /\ <<f>> \o frames # << >>
      /\ \A i \in DOMAIN (<<f>> \o frames) :
           \/ (<<f>> \o frames)[i] = f
           \/ i - 1 \in DOMAIN frames /\ (<<f>> \o frames)[i] = frames[i - 1]
  BY DEF FramesOK
<1> QED BY <1>1 DEF FramesOK, Top

\* Lemma: a call that is told to quit for a reason that holds of running loops only.
LEMMA ToldToQuit ==
  ASSUME NEW f \in FrameType, QuitOK(f), NEW b, b => InIdleLoop(f)
  PROVE  [f EXCEPT !.quit = @ \/ b] \in FrameType /\ QuitOK([f EXCEPT !.quit = @ \/ b])
<1> DEFINE c == f.quit \/ b
           g == [f EXCEPT !.quit = c]
<1>1. c \in BOOLEAN /\ (c => InIdleLoop(f))
  BY DEF QuitOK
<1> HIDE DEF c
<1>2. g \in FrameType /\ g.quit = c /\ g.timed = f.timed /\ g.pc = f.pc
  BY <1>1 DEF FrameType
<1>3. QuitOK(g)
  BY <1>1, <1>2 DEF QuitOK, InIdleLoop
<1> QED BY <1>2, <1>3 DEF c

\* Lemma: the loops that are told to quit are those that run.
LEMMA GameQuittingOK ==
  ASSUME FramesOK, frames' = GameQuitting(frames)
  PROVE  FramesOK'
<1> DEFINE g(i) == [frames[i] EXCEPT !.quit = @ \/ InIdleLoop(frames[i])]
<1>1. frames \in Seq(FrameType) /\ Len(frames) \in Nat /\ DOMAIN frames = 1 .. Len(frames)
  BY DEF FramesOK
<1>2. \A i \in DOMAIN frames : g(i) \in FrameType /\ QuitOK(g(i))
  <2> SUFFICES ASSUME NEW i \in DOMAIN frames PROVE g(i) \in FrameType /\ QuitOK(g(i))
    OBVIOUS
  <2>1. frames[i] \in FrameType /\ QuitOK(frames[i])
    BY DEF FramesOK
  <2> QED BY <2>1, ToldToQuit
<1>3. frames' = [i \in 1 .. Len(frames) |-> g(i)]
  BY <1>1 DEF GameQuitting
<1> HIDE DEF g
<1>4. frames' \in Seq(FrameType) /\ DOMAIN frames' = DOMAIN frames
      /\ \A i \in DOMAIN frames : frames'[i] = g(i)
  BY <1>1, <1>2, <1>3
<1> QED BY <1>2, <1>4 DEF FramesOK

-----------------------------------------------------------------------------
\* Lemma: games come and go, and the invariant stays.
LEMMA GamesInv ==
  ASSUME Inv, RunNext \/ NotAGame \/ NothingToRun \/ GameLeaves
  PROVE  Inv'
<1>1. FramesOK /\ RestOK /\ InputOK
  BY InvParts
<1>2. CASE RunNext
  <2>1. FramesOK' /\ frames' # << >> /\ Top' = Compute /\ Compute.pc = "run"
    BY <1>1, <1>2, ComputeFacts, GotoOK DEF RunNext, At
  <2>2. RestOK'
    <3>1. 0 \in 0 .. MaxBanners
      BY SessionAssumption
    <3>2. /\ fNextGame' = "none" /\ fInputMode' = "No" /\ fPagePauseQueue' = 0
          /\ fTag' = FALSE /\ fInputReady' = FALSE /\ fHrefEvent' = FALSE
          /\ fGameRunning' = TRUE
      BY <1>2 DEF RunNext
    <3>3. /\ fLastKey' = fLastKey /\ result' = result
          /\ fPendingWaitForKeystrokeCmd' = fPendingWaitForKeystrokeCmd
      BY <1>2 DEF RunNext
    <3> QED BY <1>1, <3>1, <3>2, <3>3 DEF RestOK
  <2>3. InputOK'
    BY <1>2, <2>1 DEF RunNext, InputOK, At
  <2> QED BY <2>1, <2>2, <2>3, PartsInvNext
<1>3. CASE NotAGame
  <2>1. FramesOK' /\ RestOK'
    BY <1>1, <1>3, SameFrames DEF NotAGame, window, RestOK
  <2>2. InputOK'
    BY <1>1, <1>3 DEF NotAGame, window, InputOK, At, Top
  <2> QED BY <2>1, <2>2, PartsInvNext
<1>4. CASE NothingToRun
  <2>1. FramesOK' /\ RestOK'
    BY <1>1, <1>4, TailOK DEF NothingToRun, window, RestOK, At
  <2>2. ~fGameRunning'
    BY <1>1, <1>4 DEF NothingToRun, InputOK, At
  <2>3. InputOK'
    BY <1>1, <1>4, <2>2 DEF NothingToRun, window, InputOK
  <2> QED BY <2>1, <2>3, PartsInvNext
<1>5. CASE GameLeaves
  <2>1. FramesOK' /\ RestOK'
    <3>1. frames # << >> /\ Goto(Frame)
      BY <1>5 DEF GameLeaves, AfterGame, Goto, At
    <3> QED BY <1>1, <1>5, <3>1, FrameOK, GotoOK DEF GameLeaves, window, Left, RestOK
  <2>2. InputOK'
    BY <1>1, <1>5 DEF GameLeaves, window, InputOK
  <2> QED BY <2>1, <2>2, PartsInvNext
<1> QED BY <1>2, <1>3, <1>4, <1>5

-----------------------------------------------------------------------------
\* Lemma: banners are added and removed, which only can end a pause.
LEMMA BannersInv ==
  ASSUME Inv, AddToPagePauseQueue \/ ClearBanner \/ ScrollBanner
  PROVE  Inv'
<1>1. FramesOK /\ RestOK /\ InputOK
  BY InvParts
<1>2. frames' = frames /\ fGameRunning' = fGameRunning /\ fTag' = fTag
      /\ fInputReady' = fInputReady
  BY DEF AddToPagePauseQueue, ClearBanner, ScrollBanner, RemoveFromPagePauseQueue
<1>3. fInputMode' = fInputMode \/ fInputMode' = "No"
  BY DEF AddToPagePauseQueue, ClearBanner, ScrollBanner, RemoveFromPagePauseQueue,
         ModeWithBanners
<1>4. fPagePauseQueue' \in 0 .. MaxBanners
  BY <1>1, SessionAssumption DEF AddToPagePauseQueue, ClearBanner, ScrollBanner,
         RemoveFromPagePauseQueue, RestOK
<1>5. fNextGame' = fNextGame /\ fHrefEvent' = fHrefEvent /\ fLastKey' = fLastKey
      /\ fPendingWaitForKeystrokeCmd' = fPendingWaitForKeystrokeCmd /\ result' = result
  BY DEF AddToPagePauseQueue, ClearBanner, ScrollBanner, RemoveFromPagePauseQueue
<1>6. RestOK'
  BY <1>1, <1>2, <1>3, <1>4, <1>5 DEF RestOK
<1>7. InputOK'
  BY <1>1, <1>2, <1>3 DEF InputOK, At, Top
<1> QED BY <1>1, <1>2, <1>6, <1>7, SameFrames, PartsInvNext

\* Lemma: what waiting for the input itself leaves.
LEMMA WaitOK ==
  ASSUME FramesOK, frames # << >>, NEW f \in FrameType, ~f.quit, Wait(f)
  PROVE  /\ FramesOK' /\ frames' # << >> /\ fInputReady' = FALSE
         /\ \/ f.op = "line" /\ fInputMode' = "Normal" /\ Top'.pc = "line" /\ fHrefEvent' = fHrefEvent
            \/ fInputMode' = "SingleKey" /\ Top'.pc = "key" /\ fHrefEvent' = FALSE
<1> DEFINE l == [f EXCEPT !.pc = "line"]
           k == [f EXCEPT !.pc = "key"]
<1>1. l \in FrameType /\ k \in FrameType /\ l.pc = "line" /\ k.pc = "key"
      /\ ~l.quit /\ ~k.quit
  BY DEF FrameType, Pcs
<1>2. QuitOK(l) /\ QuitOK(k)
  BY <1>1 DEF QuitOK
<1>3. CASE f.op = "line"
  <2>1. Goto(l) /\ fInputMode' = "Normal" /\ fHrefEvent' = fHrefEvent /\ fInputReady' = FALSE
    BY <1>3 DEF Wait
  <2> HIDE DEF l
  <2>2. FramesOK' /\ frames' # << >> /\ Top' = l
    BY <1>1, <1>2, <2>1, GotoOK
  <2> QED BY <1>1, <1>3, <2>1, <2>2
<1>4. CASE f.op # "line"
  <2>1. Goto(k) /\ fInputMode' = "SingleKey" /\ fHrefEvent' = FALSE /\ fInputReady' = FALSE
    BY <1>4 DEF Wait
  <2> HIDE DEF k
  <2>2. FramesOK' /\ frames' # << >> /\ Top' = k
    BY <1>1, <1>2, <2>1, GotoOK
  <2> QED BY <1>1, <2>1, <2>2
<1> QED BY <1>3, <1>4

\* Lemma: a line or a key is asked for, or first that banners are read.
LEMMA StartInputInv ==
  ASSUME Inv, NEW op \in {"line", "event", "keystroke"}, NEW timed \in BOOLEAN,
         StartInput(op, timed)
  PROVE  Inv'
<1> DEFINE f == [Top EXCEPT !.op = op, !.timed = timed]
           p == [f EXCEPT !.pc = "pause"]
<1>1. FramesOK /\ RestOK /\ InputOK /\ frames # << >> /\ Top.pc = "run"
  BY InvParts DEF StartInput, At
<1>2. Top \in FrameType /\ ~Top.quit
  BY <1>1, TopFacts DEF QuitOK, InIdleLoop
<1>3. f \in FrameType /\ ~f.quit /\ f.op = op
  BY <1>2 DEF FrameType, Ops
<1>4. /\ fTag' \in BOOLEAN /\ (op = "line" => fTag') /\ result' = "none"
      /\ fGameRunning' = fGameRunning /\ fNextGame' = fNextGame /\ fLastKey' = fLastKey
      /\ fPagePauseQueue' = fPagePauseQueue
      /\ fPendingWaitForKeystrokeCmd' = fPendingWaitForKeystrokeCmd
  <2>1. fTag' = (fTag \/ op = "line")
    BY DEF StartInput
  <2>2. fTag' \in BOOLEAN /\ (op = "line" => fTag')
    BY <2>1
  <2> QED BY <2>2 DEF StartInput
<1>5. CASE fPagePauseQueue = 0
  <2>1. Wait(f)
    BY <1>5 DEF StartInput
  <2> HIDE DEF f
  <2>2. /\ FramesOK' /\ frames' # << >> /\ fInputReady' = FALSE
        /\ \/ op = "line" /\ fInputMode' = "Normal" /\ Top'.pc = "line" /\ fHrefEvent' = fHrefEvent
           \/ fInputMode' = "SingleKey" /\ Top'.pc = "key" /\ fHrefEvent' = FALSE
    BY <1>1, <1>3, <2>1, WaitOK
  <2>3. RestOK'
    BY <1>1, <1>4, <2>2 DEF RestOK
  <2>4. InputOK'
    BY <1>4, <2>2 DEF InputOK, At
  <2> QED BY <2>2, <2>3, <2>4, PartsInvNext
<1>6. CASE fPagePauseQueue # 0
  <2>1. /\ fInputMode' = "PagePause" /\ Goto(p)
        /\ fInputReady' = fInputReady /\ fHrefEvent' = fHrefEvent
    BY <1>6 DEF StartInput
  <2>2. p \in FrameType /\ ~p.quit /\ p.op = op /\ p.pc = "pause"
    <3> HIDE DEF f
    <3> QED BY <1>3 DEF FrameType, Pcs
  <2> HIDE DEF p
  <2>3. FramesOK' /\ frames' # << >> /\ Top' = p
    BY <1>1, <2>1, <2>2, GotoOK DEF QuitOK
  <2>4. RestOK'
    BY <1>1, <1>4, <2>1 DEF RestOK
  <2>5. InputOK'
    BY <1>4, <2>1, <2>2, <2>3 DEF InputOK, At
  <2> QED BY <2>3, <2>4, <2>5, PartsInvNext
<1> QED BY <1>5, <1>6

\* Lemma: the pause is over, and the input itself is waited for.
LEMMA PauseOverInv ==
  ASSUME Inv, PauseOver
  PROVE  Inv'
<1>1. FramesOK /\ RestOK /\ InputOK /\ frames # << >> /\ Top.pc = "pause" /\ At("pause")
  BY InvParts DEF PauseOver, At
<1>2. Top \in FrameType /\ ~Top.quit
  BY <1>1, TopFacts DEF QuitOK, InIdleLoop
<1>3. /\ Wait(Top) /\ fTag' = fTag /\ result' = result
      /\ fGameRunning' = fGameRunning /\ fNextGame' = fNextGame /\ fLastKey' = fLastKey
      /\ fPagePauseQueue' = fPagePauseQueue
      /\ fPendingWaitForKeystrokeCmd' = fPendingWaitForKeystrokeCmd
  BY DEF PauseOver
<1>4. /\ FramesOK' /\ frames' # << >> /\ fInputReady' = FALSE
      /\ \/ /\ Top.op = "line" /\ fInputMode' = "Normal" /\ Top'.pc = "line"
            /\ fHrefEvent' = fHrefEvent
         \/ fInputMode' = "SingleKey" /\ Top'.pc = "key" /\ fHrefEvent' = FALSE
  BY <1>1, <1>2, <1>3, WaitOK
<1>5. RestOK'
  BY <1>1, <1>3, <1>4 DEF RestOK
<1>6. InputOK'
  BY <1>1, <1>3, <1>4 DEF InputOK, At
<1> QED BY <1>4, <1>5, <1>6, PartsInvNext

\* Lemma: the innermost call goes on, and no line is edited.
LEMMA GoesOn ==
  ASSUME Inv, frames # << >>, NEW f \in FrameType, QuitOK(f), Goto(f),
         f.pc \notin {"next", "pause"}, RestOK', fGameRunning' = fGameRunning,
         fGameRunning => fInputMode' # "Normal", fInputReady' => fInputMode' # "Normal"
  PROVE  Inv'
<1>1. FramesOK
  BY InvParts
<1>2. FramesOK' /\ frames' # << >> /\ Top' = f
  BY <1>1, GotoOK
<1>3. InputOK'
  BY <1>2 DEF InputOK, At
<1> QED BY <1>2, <1>3, PartsInvNext

\* Lemma: the end of getInput, of cancelInput and of the waits for a key and
\* for a while; and what is asked for without waiting.
LEMMA InputEndsInv ==
  ASSUME Inv,
         \/ LineOver \/ FlushOver \/ KeyOver \/ WakeUp \/ PendingKeystroke \/ Sleep
         \/ \E reset \in BOOLEAN : CancelInput(reset)
  PROVE  Inv'
<1>1. FramesOK /\ RestOK /\ InputOK
  BY InvParts
<1>2. frames # << >> /\ Top \in FrameType /\ QuitOK(Top)
  BY <1>1, TopFacts DEF LineOver, FlushOver, KeyOver, WakeUp, PendingKeystroke, Sleep,
                       CancelInput, At
<1>3. Compute \in FrameType /\ QuitOK(Compute) /\ Compute.pc = "run"
  BY <1>1, <1>2, ComputeFacts
<1>4. CASE LineOver
  <2> DEFINE f == [Top EXCEPT !.pc = "flush", !.quit = FALSE]
  <2>1. f \in FrameType /\ QuitOK(f) /\ f.pc = "flush"
    BY <1>2 DEF FrameType, QuitOK, Pcs
  <2>2. /\ fGameRunning' = fGameRunning /\ fNextGame' = fNextGame /\ fTag' = fTag
        /\ fInputReady' = fInputReady /\ fHrefEvent' = fHrefEvent /\ fLastKey' = fLastKey
        /\ fPagePauseQueue' = fPagePauseQueue
        /\ fPendingWaitForKeystrokeCmd' = fPendingWaitForKeystrokeCmd
    BY <1>4 DEF LineOver
  <2>3. CASE TimedOut
    <3>1. fInputMode' = "No" /\ result' = "timeout" /\ Goto(Compute)
      BY <1>4, <2>3 DEF LineOver, ModeInterrupted
    <3>2. RestOK'
      BY <1>1, <2>2, <3>1 DEF RestOK
    <3> QED BY <1>2, <1>3, <2>2, <3>1, <3>2, GoesOn
  <2>4. CASE ~TimedOut
    <3>1. Goto(f) /\ fInputMode' = fInputMode /\ result' = result
      BY <1>4, <2>4 DEF LineOver
    <3>2. RestOK'
      BY <1>1, <2>2, <3>1 DEF RestOK
    <3>3. fInputReady \/ ~fGameRunning
      BY <1>4, <2>4 DEF LineOver, TimedOut
    <3> HIDE DEF f
    <3> QED BY <1>1, <1>2, <2>1, <2>2, <3>1, <3>2, <3>3, GoesOn DEF InputOK
  <2> QED BY <2>3, <2>4
<1>5. CASE FlushOver
  <2>1. /\ fGameRunning' = fGameRunning /\ fNextGame' = fNextGame /\ fInputMode' = fInputMode
        /\ fInputReady' = fInputReady /\ fHrefEvent' = fHrefEvent /\ fLastKey' = fLastKey
        /\ fPagePauseQueue' = fPagePauseQueue
        /\ fPendingWaitForKeystrokeCmd' = fPendingWaitForKeystrokeCmd
        /\ Goto(Compute) /\ Top.pc = "flush"
    BY <1>5 DEF FlushOver, At
  <2>2. fTag' \in BOOLEAN
    <3>1. fTag' = (fTag /\ Top.op = "suspend")
      BY <1>5 DEF FlushOver
    <3> QED BY <3>1
  <2>3. result' \in {result, "line", "eof"}
    BY <1>5 DEF FlushOver
  <2>4. RestOK'
    BY <1>1, <2>1, <2>2, <2>3 DEF RestOK
  <2> QED BY <1>1, <1>2, <1>3, <2>1, <2>4, GoesOn DEF InputOK, At
<1>6. CASE KeyOver
  <2>1. /\ fGameRunning' = fGameRunning /\ fNextGame' = fNextGame /\ fInputMode' = fInputMode
        /\ fInputReady' = fInputReady /\ fHrefEvent' = fHrefEvent /\ fLastKey' = fLastKey
        /\ fPagePauseQueue' = fPagePauseQueue /\ fTag' = fTag
        /\ Goto(Compute) /\ Top.pc = "key"
    BY <1>6 DEF KeyOver, At, window
  <2>2. fPendingWaitForKeystrokeCmd' \in {"eof", "key", fPendingWaitForKeystrokeCmd}
    BY <1>6 DEF KeyOver
  <2>3. result' \in {"eof", "href", "timeout", "key"}
    BY <1>6 DEF KeyOver
  <2>4. RestOK'
    BY <1>1, <2>1, <2>2, <2>3 DEF RestOK
  <2> QED BY <1>1, <1>2, <1>3, <2>1, <2>4, GoesOn DEF InputOK, At
<1>7. CASE WakeUp
  <2>1. /\ Goto(Compute) /\ Top.pc = "sleep" /\ fInputMode' = fInputMode /\ fGameRunning' = fGameRunning
        /\ fInputReady' = fInputReady /\ RestOK'
    BY <1>1, <1>7 DEF WakeUp, At, window, RestOK
  <2> QED BY <1>1, <1>2, <1>3, <2>1, GoesOn DEF InputOK, At
<1>8. CASE PendingKeystroke
  <2>1. FramesOK' /\ RestOK'
    BY <1>1, <1>8, SameFrames DEF PendingKeystroke, window, RestOK
  <2>2. InputOK'
    BY <1>1, <1>8 DEF PendingKeystroke, window, InputOK, At, Top
  <2> QED BY <2>1, <2>2, PartsInvNext
<1>9. CASE Sleep
  <2> DEFINE f == [Top EXCEPT !.pc = "sleep", !.timed = TRUE]
  <2>1. f \in FrameType /\ QuitOK(f) /\ f.pc = "sleep"
    BY <1>2 DEF FrameType, QuitOK, InIdleLoop, Pcs
  <2>2. /\ Goto(f) /\ Top.pc = "run" /\ fInputMode' = fInputMode /\ fGameRunning' = fGameRunning
        /\ fInputReady' = fInputReady /\ RestOK'
    BY <1>1, <1>9 DEF Sleep, At, window, RestOK
  <2> HIDE DEF f
  <2> QED BY <1>1, <1>2, <2>1, <2>2, GoesOn DEF InputOK, At
<1>10. CASE \E reset \in BOOLEAN : CancelInput(reset)
  <2>1. PICK reset \in BOOLEAN : CancelInput(reset)
    BY <1>10
  <2> DEFINE op == IF reset THEN "cancel" ELSE "suspend"
             f == [Top EXCEPT !.pc = "flush", !.op = op]
  <2>2. op \in Ops
    BY DEF Ops
  <2>3. ~Top.quit
    BY <1>2, <2>1 DEF CancelInput, At, QuitOK, InIdleLoop
  <2>4. Goto(f)
    BY <2>1 DEF CancelInput
  <2> HIDE DEF op
  <2>5. f \in FrameType /\ QuitOK(f) /\ f.pc = "flush"
    BY <1>2, <2>2, <2>3 DEF FrameType, QuitOK, Pcs
  <2>6. /\ Top.pc = "run" /\ fInputMode' = fInputMode /\ fGameRunning' = fGameRunning
        /\ fInputReady' = fInputReady /\ RestOK'
    BY <1>1, <2>1, ZenonT(40) DEF CancelInput, At, window, RestOK
  <2> HIDE DEF f
  <2> QED BY <1>1, <1>2, <2>4, <2>5, <2>6, GoesOn DEF InputOK, At
<1> QED BY <1>4, <1>5, <1>6, <1>7, <1>8, <1>9, <1>10

\* Lemma: an input that is ready ends the loop that waits for it.
LEMMA ReadyInv ==
  ASSUME Inv, InputReady, fGameRunning,
         fGameRunning' = fGameRunning, fNextGame' = fNextGame, fTag' = fTag,
         fHrefEvent' = fHrefEvent, fLastKey' \in {"plain", "extended"},
         fPagePauseQueue' = fPagePauseQueue, result' = result,
         fPendingWaitForKeystrokeCmd' = fPendingWaitForKeystrokeCmd
  PROVE  Inv'
<1> DEFINE b == InIdleLoop(Top) /\ Top.pc # "sleep"
           f == [Top EXCEPT !.quit = @ \/ b]
<1>1. FramesOK /\ RestOK /\ InputOK /\ frames # << >> /\ Top.pc # "next"
  BY InvParts DEF InputOK
<1>2. Top \in FrameType /\ QuitOK(Top)
  BY <1>1, TopFacts
<1>3. f \in FrameType /\ QuitOK(f)
  <2> HIDE DEF b
  <2>1. b => InIdleLoop(Top)
    BY DEF b
  <2> QED BY <1>2, <2>1, ToldToQuit
<1>4. f.pc = Top.pc /\ f.op = Top.op
  BY <1>2 DEF FrameType
<1>5. Goto(f) /\ fInputMode' = "No" /\ fInputReady' = TRUE
  BY DEF InputReady
<1>6. RestOK'
  BY <1>1, <1>5 DEF RestOK
<1> HIDE DEF f
<1>7. FramesOK' /\ frames' # << >> /\ Top' = f
  BY <1>1, <1>3, <1>5, GotoOK
<1>8. InputOK'
  BY <1>1, <1>4, <1>5, <1>7 DEF InputOK, At
<1> QED BY <1>6, <1>7, <1>8, PartsInvNext

\* Lemma: what the user and the timers do.
LEMMA EventsInv ==
  ASSUME Inv, Events
  PROVE  Inv'
<1>1. FramesOK /\ RestOK /\ InputOK
  BY InvParts
<1>2. CASE TimerFires
  <2> DEFINE f == [Top EXCEPT !.quit = TRUE]
  <2>1. frames # << >> /\ Top \in FrameType /\ InIdleLoop(Top)
    BY <1>1, <1>2, TopFacts DEF TimerFires
  <2>2. f \in FrameType /\ QuitOK(f) /\ f.pc = Top.pc /\ f.op = Top.op
    BY <2>1 DEF FrameType, QuitOK, InIdleLoop
  <2>3. /\ Goto(f) /\ fGameRunning' = fGameRunning /\ fInputMode' = fInputMode /\ fTag' = fTag
        /\ fInputReady' = fInputReady /\ RestOK'
    BY <1>1, <1>2 DEF TimerFires, window, RestOK
  <2> HIDE DEF f
  <2>4. FramesOK' /\ frames' # << >> /\ Top' = f
    BY <1>1, <2>1, <2>2, <2>3, GotoOK
  <2>5. InputOK'
    BY <1>1, <2>2, <2>3, <2>4 DEF InputOK, At
  <2> QED BY <2>3, <2>4, <2>5, PartsInvNext
<1>3. CASE EnterLine
  BY <1>1, <1>3, ReadyInv DEF EnterLine, RestOK
<1>4. CASE \E k \in {"plain", "extended"} : SingleKeyPress(k)
  BY <1>1, <1>4, ReadyInv DEF SingleKeyPress, RestOK
<1>5. CASE FollowLink
  <2>1. FramesOK' /\ RestOK'
    BY <1>1, <1>5, SameFrames DEF FollowLink, RestOK
  <2>2. InputOK'
    BY <1>1, <1>5 DEF FollowLink, InputOK, At, Top
  <2> QED BY <2>1, <2>2, PartsInvNext
<1>6. CASE ScrollBanner
  BY <1>6, BannersInv
<1>7. CASE EndGame
  <2>1. FramesOK' /\ RestOK'
    BY <1>1, <1>7, GameQuittingOK, ZenonT(40) DEF EndGame, window, RestOK
  <2>2. InputOK'
    BY <1>1, <1>7 DEF EndGame, window, InputOK
  <2> QED BY <2>1, <2>2, PartsInvNext
<1>8. CASE \E g \in {"good", "bad"} : SetNextGame(g)
  <2>1. PICK g \in {"good", "bad"} : SetNextGame(g)
    BY <1>8
  <2>2. RestOK' /\ ~fGameRunning' /\ fInputReady' = fInputReady /\ fInputMode' = fInputMode
    BY <1>1, <2>1 DEF SetNextGame, window, RestOK
  <2>3. frames' = GameQuitting(frames) \/ frames' = <<Frame>> \o frames
    BY <2>1 DEF SetNextGame
  <2>4. FramesOK'
    BY <1>1, <2>3, FrameOK, GameQuittingOK, PushOK
  <2>5. InputOK'
    BY <1>1, <2>2 DEF InputOK
  <2> QED BY <2>2, <2>4, <2>5, PartsInvNext
<1> QED BY <1>2, <1>3, <1>4, <1>5, <1>6, <1>7, <1>8 DEF Events

\* Lemma: the invariant holds at first.
LEMMA InitInv == Init => Inv
<1> SUFFICES ASSUME Init PROVE Inv
  OBVIOUS
<1>1. FramesOK
  BY DEF Init, FramesOK
<1>2. RestOK
  <2>1. 0 \in 0 .. MaxBanners
    BY SessionAssumption
  <2> QED BY <2>1 DEF Init, RestOK
<1>3. InputOK
  BY DEF Init, InputOK, At
<1> QED BY <1>1, <1>2, <1>3, TypeParts DEF Inv

\* Lemma: every step keeps the invariant.
LEMMA NextInv == Inv /\ [Next]_vars => Inv'
<1> SUFFICES ASSUME Inv, [Next]_vars PROVE Inv'
  OBVIOUS
<1>1. CASE Events
  BY <1>1, EventsInv
<1>2. CASE Proceed
  BY <1>2, GamesInv, PauseOverInv, InputEndsInv DEF Proceed
<1>3. CASE Game
  BY <1>3, GamesInv, BannersInv, StartInputInv, InputEndsInv DEF Game
<1>4. CASE UNCHANGED vars
  <2>1. FramesOK' /\ RestOK' /\ InputOK'
    BY <1>4, InvParts, SameFrames DEF vars, window, RestOK, InputOK, At, Top
  <2> QED BY <2>1, PartsInvNext
<1> QED BY <1>1, <1>2, <1>3, <1>4 DEF Next

\* Theorem: the calls of fRunGame, the window and what is pending keep their
\* types, and no call has been told to quit but in a loop that ends by it.
THEOREM TypeCorrect == Spec => []TypeOK
<1>1. Inv => TypeOK
  BY DEF Inv
<1> QED BY <1>1, InitInv, NextInv, PTL DEF Spec

\* Theorem: a line is never edited without its input tag, wherever the event
\* loop runs, however many games were started inside others.
THEOREM EditedLineHasTagHolds == Spec => []EditedLineHasTag
<1>1. Inv => EditedLineHasTag
  BY DEF Inv, InputOK, EditedLineHasTag
<1> QED BY <1>1, InitInv, NextInv, PTL DEF Spec

-----------------------------------------------------------------------------
\* What is pending when a game is run inside another.

\* Only the innermost game goes on: those it is run inside wait in an event loop.
EventLoops == {"pause", "line", "key", "sleep", "flush"}
OuterGamesWait == \A i \in 2 .. Len(frames) : frames[i].pc \in EventLoops

\* Nothing is pending when no game has been run, nor when the outermost one has left.
NothingLeft ==
  frames = << >> \/ (Len(frames) = 1 /\ Top.pc = "next") => fPendingWaitForKeystrokeCmd = "none"

\* The invariant of calls of fRunGame inside each other.
NestedInv == OuterGamesWait /\ NothingLeft

\* A step makes a call of fRunGame inside another only for an impatient user.
StaysOne == ~Impatient /\ Len(frames) <= 1 => Len(frames') <= 1

\* Lemma: every step keeps that, whatever the user does.
LEMMA NestedNext ==
  ASSUME Inv, NestedInv, [Next]_vars
  PROVE  NestedInv' /\ StaysOne
<1>1. FramesOK /\ InputOK /\ FramesOK'
  BY InvParts, InvPartsNext, NextInv
<1>2. /\ frames \in Seq(FrameType) /\ frames' \in Seq(FrameType)
      /\ Len(frames) \in Nat /\ Len(frames') \in Nat
  <2>1. frames \in Seq(FrameType) /\ frames' \in Seq(FrameType)
    BY <1>1 DEF FramesOK
  <2> QED BY <2>1
<1>3. frames # << >> => Top \in FrameType
  BY <1>1, TopFacts
<1>4. ASSUME frames # << >>, NEW f, Goto(f),
             f.pc = "next" => fPendingWaitForKeystrokeCmd' = "none"
      PROVE  NestedInv' /\ StaysOne
  <2> DEFINE S == FrameType \union {f}
  <2>1. frames \in Seq(S) /\ f \in S
    BY <1>2
  <2> HIDE DEF S
  <2>2. /\ Len(frames') = Len(frames) /\ frames' # << >> /\ Head(frames') = f
        /\ \A i \in 2 .. Len(frames) : frames'[i] = frames[i]
    BY <1>4, <2>1, GotoFacts DEF Goto
  <2>3. OuterGamesWait'
    BY <2>2 DEF NestedInv, OuterGamesWait
  <2>4. NothingLeft'
    BY <1>4, <2>2 DEF NothingLeft, Top
  <2> QED BY <2>2, <2>3, <2>4 DEF NestedInv, StaysOne
<1>5. ASSUME frames' = frames,
             fPendingWaitForKeystrokeCmd' \in {"none", fPendingWaitForKeystrokeCmd}
      PROVE  NestedInv' /\ StaysOne
  BY <1>5 DEF NestedInv, OuterGamesWait, NothingLeft, Top, StaysOne
<1>6. ASSUME frames' = GameQuitting(frames),
             fPendingWaitForKeystrokeCmd' = fPendingWaitForKeystrokeCmd
      PROVE  NestedInv' /\ StaysOne
  <2>1. Len(frames') = Len(frames)
    BY <1>2, <1>6 DEF GameQuitting
  <2>2. ASSUME NEW i \in 1 .. Len(frames) PROVE frames'[i].pc = frames[i].pc
    <3>1. frames[i] \in FrameType
      BY <1>2
    <3>2. frames'[i] = [frames[i] EXCEPT !.quit = @ \/ InIdleLoop(frames[i])]
      BY <1>2, <1>6 DEF GameQuitting
    <3> QED BY <3>1, <3>2 DEF FrameType
  <2>3. OuterGamesWait'
    <3>1. \A i \in 2 .. Len(frames) : i \in 1 .. Len(frames)
      OBVIOUS
    <3> QED BY <2>1, <2>2, <3>1 DEF NestedInv, OuterGamesWait
  <2>4. NothingLeft'
    <3>1. frames' # << >> => frames # << >> /\ Top'.pc = Top.pc
      <4> SUFFICES ASSUME frames' # << >> PROVE frames # << >> /\ Top'.pc = Top.pc
        OBVIOUS
      <4>1. frames # << >> /\ 1 \in 1 .. Len(frames) /\ Top = frames[1] /\ Top' = frames'[1]
        BY <1>2, <2>1 DEF Top
      <4> QED BY <2>2, <4>1
    <3>2. frames' = << >> => frames = << >>
      BY <1>2, <2>1
    <3> QED BY <1>6, <2>1, <3>1, <3>2 DEF NestedInv, NothingLeft
  <2> QED BY <2>1, <2>3, <2>4 DEF NestedInv, StaysOne
<1>7. ASSUME frames' = <<Frame>> \o frames, EventLoop, Impatient \/ frames = << >>,
             fPendingWaitForKeystrokeCmd' = fPendingWaitForKeystrokeCmd
      PROVE  NestedInv' /\ StaysOne
  <2>1. /\ Len(frames') = Len(frames) + 1
        /\ \A i \in 2 .. Len(frames') : i - 1 \in 1 .. Len(frames) /\ frames'[i] = frames[i - 1]
    BY <1>2, <1>7
  <2>2. \A i \in 1 .. Len(frames) : frames[i].pc \in EventLoops
    <3> SUFFICES ASSUME NEW i \in 1 .. Len(frames) PROVE frames[i].pc \in EventLoops
      OBVIOUS
    <3>1. CASE i = 1
      <4>1. frames # << >> /\ Top = frames[1]
        BY <1>2, <3>1 DEF Top
      <4> QED BY <1>7, <3>1, <4>1 DEF EventLoop, EventLoops
    <3>2. CASE i # 1
      <4>1. i \in 2 .. Len(frames)
        BY <1>2, <3>2
      <4> QED BY <4>1 DEF NestedInv, OuterGamesWait
    <3> QED BY <3>1, <3>2
  <2>3. OuterGamesWait'
    BY <2>1, <2>2 DEF OuterGamesWait
  <2>4. NothingLeft'
    <3>1. Len(frames') = 1 \/ frames' = << >> => frames = << >>
      BY <1>2, <2>1
    <3> QED BY <1>7, <3>1 DEF NestedInv, NothingLeft
  <2>5. StaysOne
    <3>1. frames = << >> => Len(frames') = 1
      BY <2>1
    <3>2. 1 <= 1
      OBVIOUS
    <3> QED BY <1>7, <3>1, <3>2 DEF StaysOne
  <2> QED BY <2>3, <2>4, <2>5 DEF NestedInv
<1>8. CASE Events
  <2>1. CASE TimerFires
    <3> DEFINE f == [Top EXCEPT !.quit = TRUE]
    <3>1. Goto(f) /\ frames # << >> /\ Top.pc # "next"
      BY <2>1 DEF TimerFires, InIdleLoop
    <3>2. f.pc = Top.pc
      BY <1>3, <3>1 DEF FrameType
    <3> HIDE DEF f
    <3> QED BY <1>4, <3>1, <3>2
  <2>2. CASE EnterLine \/ \E k \in {"plain", "extended"} : SingleKeyPress(k)
    <3> DEFINE f == [Top EXCEPT !.quit = @ \/ (InIdleLoop(Top) /\ Top.pc # "sleep")]
    <3>1. Goto(f) /\ fGameRunning
      BY <2>2 DEF EnterLine, SingleKeyPress, InputReady
    <3>2. frames # << >> /\ Top.pc # "next"
      BY <1>1, <3>1 DEF InputOK
    <3>3. f.pc = Top.pc
      BY <1>3, <3>2 DEF FrameType
    <3> HIDE DEF f
    <3> QED BY <1>4, <3>1, <3>2, <3>3
  <2>3. CASE FollowLink \/ ScrollBanner
    BY <1>5, <2>3 DEF FollowLink, ScrollBanner, RemoveFromPagePauseQueue
  <2>4. CASE EndGame
    BY <1>6, <2>4 DEF EndGame
  <2>5. CASE \E g \in {"good", "bad"} : SetNextGame(g)
    <3>1. CASE fGameRunning
      BY <1>6, <2>5, <3>1 DEF SetNextGame
    <3>2. CASE ~fGameRunning
      <4>1. /\ frames' = <<Frame>> \o frames /\ EventLoop /\ (Impatient \/ frames = << >>)
            /\ fPendingWaitForKeystrokeCmd' = fPendingWaitForKeystrokeCmd
        BY <2>5, <3>2 DEF SetNextGame
      <4> QED BY <1>7, <4>1
    <3> QED BY <3>1, <3>2
  <2> QED BY <1>8, <2>1, <2>2, <2>3, <2>4, <2>5 DEF Events
<1>9. CASE RunNext
  <2>1. Goto(Compute) /\ frames # << >>
    BY <1>9 DEF RunNext, At
  <2> QED BY <1>1, <1>4, <2>1, ComputeFacts
<1>10. CASE NotAGame \/ AddToPagePauseQueue \/ ClearBanner \/ PendingKeystroke \/ UNCHANGED vars
  BY <1>5, <1>10 DEF NotAGame, AddToPagePauseQueue, ClearBanner, RemoveFromPagePauseQueue,
                     PendingKeystroke, vars
<1>11. CASE NothingToRun
  <2>1. frames # << >> /\ Top.pc = "next" /\ frames' = Tail(frames)
        /\ fPendingWaitForKeystrokeCmd' = fPendingWaitForKeystrokeCmd
    BY <1>11 DEF NothingToRun, At
  <2>2. /\ Len(frames') = Len(frames) - 1
        /\ \A i \in 1 .. Len(frames') : i + 1 \in 2 .. Len(frames) /\ frames'[i] = frames[i + 1]
    BY <1>2, <2>1
  <2>3. \A i \in 1 .. Len(frames') : frames'[i].pc \in EventLoops
    BY <2>2 DEF NestedInv, OuterGamesWait
  <2>4. OuterGamesWait'
    <3>1. \A i \in 2 .. Len(frames') : i \in 1 .. Len(frames')
      OBVIOUS
    <3> QED BY <2>3, <3>1 DEF OuterGamesWait
  <2>5. NothingLeft'
    <3>1. frames' # << >> => Top'.pc # "next"
      <4>1. frames' # << >> => 1 \in 1 .. Len(frames') /\ Top' = frames'[1]
        BY <1>2 DEF Top
      <4> QED BY <2>3, <4>1 DEF EventLoops
    <3>2. frames' = << >> => Len(frames) = 1
      BY <1>2, <2>2
    <3> QED BY <2>1, <3>1, <3>2 DEF NestedInv, NothingLeft
  <2>6. StaysOne
    <3>1. \A n \in Nat : n <= 1 => n - 1 <= 1
      OBVIOUS
    <3> QED BY <1>2, <2>2, <3>1 DEF StaysOne
  <2> QED BY <2>4, <2>5, <2>6 DEF NestedInv
<1>12. CASE GameLeaves
  <2>1. Goto(Frame) /\ frames # << >> /\ fPendingWaitForKeystrokeCmd' = "none"
    BY <1>12 DEF GameLeaves, AfterGame, Goto, At, Left
  <2> QED BY <1>4, <2>1
<1>13. ASSUME NEW f \in FrameType, Wait(f), frames # << >>
       PROVE  NestedInv' /\ StaysOne
  <2>1. \E g : Goto(g) /\ g.pc \in {"line", "key"}
    <3>1. [f EXCEPT !.pc = "line"].pc = "line" /\ [f EXCEPT !.pc = "key"].pc = "key"
      BY <1>13 DEF FrameType
    <3>2. Goto([f EXCEPT !.pc = "line"]) \/ Goto([f EXCEPT !.pc = "key"])
      BY <1>13 DEF Wait
    <3> QED BY <3>1, <3>2
  <2> QED BY <1>4, <1>13, <2>1
<1>14. CASE PauseOver
  BY <1>3, <1>13, <1>14 DEF PauseOver, At
<1>15. CASE \E op \in {"line", "event", "keystroke"}, timed \in BOOLEAN : StartInput(op, timed)
  <2>1. PICK op \in {"line", "event", "keystroke"}, timed \in BOOLEAN : StartInput(op, timed)
    BY <1>15
  <2> DEFINE f == [Top EXCEPT !.op = op, !.timed = timed]
  <2>2. frames # << >> /\ (Wait(f) \/ Goto([f EXCEPT !.pc = "pause"]))
    BY <2>1 DEF StartInput, At
  <2>3. f \in FrameType
    BY <1>3, <2>2 DEF FrameType, Ops
  <2> HIDE DEF f
  <2>4. [f EXCEPT !.pc = "pause"].pc = "pause"
    BY <2>3 DEF FrameType
  <2> QED BY <1>4, <1>13, <2>2, <2>3, <2>4
<1>16. CASE LineOver \/ FlushOver \/ KeyOver \/ WakeUp \/ Sleep
            \/ \E reset \in BOOLEAN : CancelInput(reset)
  <2>1. frames # << >>
    BY <1>16 DEF LineOver, FlushOver, KeyOver, WakeUp, Sleep, CancelInput, At
  <2>2. \/ Goto(Compute)
        \/ Goto([Top EXCEPT !.pc = "flush", !.quit = FALSE])
        \/ Goto([Top EXCEPT !.pc = "sleep", !.timed = TRUE])
        \/ \E op \in Ops : Goto([Top EXCEPT !.pc = "flush", !.op = op])
    BY <1>16 DEF LineOver, FlushOver, KeyOver, WakeUp, Sleep, CancelInput, Ops
  <2>3. /\ Compute.pc = "run"
        /\ [Top EXCEPT !.pc = "flush", !.quit = FALSE].pc = "flush"
        /\ [Top EXCEPT !.pc = "sleep", !.timed = TRUE].pc = "sleep"
        /\ \A op \in Ops : [Top EXCEPT !.pc = "flush", !.op = op].pc = "flush"
    BY <1>1, <1>3, <2>1, ComputeFacts DEF FrameType
  <2> QED BY <1>4, <2>1, <2>2, <2>3
<1> QED BY <1>8, <1>9, <1>10, <1>11, <1>12, <1>14, <1>15, <1>16 DEF Next, Proceed, Game

\* Lemma: at first no game has been run.
LEMMA NestedInit == Init => NestedInv /\ Len(frames) <= 1
<1> SUFFICES ASSUME Init PROVE NestedInv /\ Len(frames) <= 1
  OBVIOUS
<1>1. frames = << >> /\ Len(frames) = 0
  BY DEF Init
<1>2. (\A i \in 2 .. 0 : FALSE) /\ 0 <= 1
  OBVIOUS
<1> QED BY <1>1, <1>2 DEF Init, NestedInv, OuterGamesWait, NothingLeft

\* Lemma: it is fRunGame that starts a game.
LEMMA StartsInRunNext == [Next]_vars /\ ~fGameRunning /\ fGameRunning' => RunNext
  BY DEF Next, Events, Proceed, Game, TimerFires, EnterLine, FollowLink, ScrollBanner,
         RemoveFromPagePauseQueue, EndGame, SingleKeyPress, SetNextGame, NotAGame,
         NothingToRun, PauseOver, LineOver, FlushOver, KeyOver, WakeUp, GameLeaves,
         AddToPagePauseQueue, ClearBanner, PendingKeystroke, Sleep, StartInput, CancelInput, vars

\* A key or an end of file that was pending for another game reaches none but one
\* that is run inside that other game.
StaleCommandOnlyInside ==
  [][~fGameRunning /\ fGameRunning' /\ Len(frames) = 1
       => fPendingWaitForKeystrokeCmd' = "none"]_vars

\* Theorem: whatever the user does, and however many games were run inside others
\* meanwhile, a game that fRunGame runs outermost begins with no key and no end of
\* file that was pending for another one: the reset at the end of each (sysframe.cc)
\* is missed by games that are run inside those only.
THEOREM StaleCommandOnlyInsideHolds == Spec => StaleCommandOnlyInside
<1>1. Init => NestedInv
  BY NestedInit
<1>2. Inv /\ NestedInv /\ [Next]_vars => NestedInv'
  BY NestedNext
<1>3. NestedInv /\ [Next]_vars
        => (~fGameRunning /\ fGameRunning' /\ Len(frames) = 1
              => fPendingWaitForKeystrokeCmd' = "none")
  BY StartsInRunNext DEF RunNext, At, NestedInv, NothingLeft
<1> QED BY <1>1, <1>2, <1>3, InitInv, NextInv, PTL DEF Spec, StaleCommandOnlyInside

\* Theorem: with a user who asks for a game only when the one before has left, no
\* game at all begins with a key, or an end of file, that was pending for another.
THEOREM NoStaleCommandHolds == ~Impatient => (Spec => NoStaleCommand)
<1> SUFFICES ASSUME ~Impatient PROVE Spec => NoStaleCommand
  OBVIOUS
<1>1. Init => NestedInv /\ Len(frames) <= 1
  BY NestedInit
<1>2. Inv /\ NestedInv /\ Len(frames) <= 1 /\ [Next]_vars => NestedInv' /\ (Len(frames) <= 1)'
  BY NestedNext DEF StaysOne
<1>3. Inv /\ NestedInv /\ Len(frames) <= 1 /\ [Next]_vars
        => (~fGameRunning /\ fGameRunning' => fPendingWaitForKeystrokeCmd' = "none")
  <2> SUFFICES ASSUME Inv, NestedInv, Len(frames) <= 1, [Next]_vars, ~fGameRunning, fGameRunning'
               PROVE  fPendingWaitForKeystrokeCmd' = "none"
    OBVIOUS
  <2>1. RunNext
    BY StartsInRunNext
  <2>2. frames \in Seq(FrameType) /\ frames # << >>
    BY <2>1, InvParts DEF FramesOK, RunNext, At
  <2>3. Len(frames) = 1
    <3>1. Len(frames) \in Nat /\ Len(frames) # 0
      BY <2>2
    <3>2. \A n \in Nat : n <= 1 /\ n # 0 => n = 1
      OBVIOUS
    <3> QED BY <3>1, <3>2
  <2> QED BY <2>1, <2>3 DEF RunNext, At, NestedInv, NothingLeft
<1> QED BY <1>1, <1>2, <1>3, InitInv, NextInv, PTL DEF Spec, NoStaleCommand
=============================================================================
