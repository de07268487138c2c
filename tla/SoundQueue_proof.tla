-------------------------- MODULE SoundQueue_proof --------------------------
(***************************************************************************)
(* Proofs about SoundQueue, for any number of sounds. The theorems hold    *)
(* with tags that have any attributes, and whether or not the audio        *)
(* callback runs while the GUI thread is in the middle of an operation:    *)
(* fStreamList has the streams that are playing and no other; a sound that *)
(* is stopped does not make another one start before it is forgotten; a    *)
(* sound that is heard is known to be playing; and the callback goes on    *)
(* with no sound that has been deleted.                                    *)
(*                                                                         *)
(* With tags that do not crossfade out of each other, and a callback that  *)
(* waits for the GUI thread (PlainTags), lemmas show more: the queue waits *)
(* for a sound that will report its end, is told of it once, and nothing   *)
(* is done with a sound that has been deleted.                             *)
(***************************************************************************)
EXTENDS SoundQueue, TLAPS

\* Induction over the natural numbers; it is used for no folds.
NoTurn(env, a, x) == a
NoClaim(env, i, a) == TRUE
Nats == INSTANCE Induction WITH Step <- NoTurn, Holds <- NoClaim

Threads == {"gui", "audio"}
OnSound == {"add", "cancel", "fadeout", "start", "stop", "finish"}
CallType ==
  {c \in [op : OnSound \union {"stopcur", "done", "maybe", "obsolete"},
          s : Sounds \union {None}, how : Hows \union {"cut"}, n : Nat] :
     c.op \in OnSound => c.s \in Sounds}

\* The callback tells the queue of the end of a sound, and no more.
AudioCall == {c \in CallType : c.op \in {"finish", "done", "maybe", "start"}}

SndType == [fPlaying : BOOLEAN, fRepeats : Nat, fCrossFade : BOOLEAN,
            timer : {"on", "off"}, done : BOOLEAN]
AttrType == [seq : {"default", "replace", "loop", "random"}, rnd : BOOLEAN, repeat : Nat,
             fadein : BOOLEAN, fadeout : BOOLEAN, xin : BOOLEAN, xout : BOOLEAN,
             interrupt : BOOLEAN]
StreamType == [playing : BOOLEAN, iter : Int, wanted : Int, fading : Fading,
               stop_after : BOOLEAN, paused : BOOLEAN]

\* The types, but that left and what follows from it may be negative: with a
\* crossfade that comes late on_sound_done may be called once too often.
EntryTypes ==
  /\ attr \in [Sounds -> AttrType] /\ left \in [Sounds -> Int]
  /\ cancelled \in [Sounds -> BOOLEAN]
SoundTypes ==
  /\ life \in [Sounds -> {"none", "live", "dead"}] /\ tag \in [Sounds -> BOOLEAN]
  /\ snd \in [Sounds -> SndType]
StreamTypes == strm \in [Sounds -> StreamType] /\ list \in Seq(Sounds) /\ rest \in Seq(Sounds)
StackTypes ==
  /\ stack \in [Threads -> Seq(CallType)] /\ stack["audio"] \in Seq(AudioCall)

\* A sound is once in the queue, and alive; what is played is in the queue.
QueueOK ==
  /\ queue \in Seq(Sounds) /\ IsInjective(queue)
  /\ playing_ \in Range(queue) \union {None} /\ last_played_ \in Range(queue) \union {None}
  /\ \A s \in Range(queue) : life[s] = "live"

\* A sound that is about to be put in the queue is alive, is not in it yet, and its
\* tag does not let go of it; one that is about to be started has been created.
CallOK(calling, c) ==
  /\ c.op = "start" => life[c.s] # "none"
  /\ c.op = "add" =>
       /\ tag[c.s] /\ life[c.s] = "live" /\ c.s \notin Range(queue)
       /\ \A d \in Range(calling) : d.op = "obsolete" => d.s = c.s
AddLast(calling) == \A i \in 1 .. Len(calling) : calling[i].op = "add" => i = Len(calling)
CallsOK ==
  \A t \in Threads : AddLast(stack[t]) /\ \A c \in Range(stack[t]) : CallOK(stack[t], c)

CallbackOver == ~incb => rest = << >> /\ stack["audio"] = << >>

\* The inductive invariant of the streams.
Inv ==
  /\ EntryTypes /\ SoundTypes /\ StreamTypes /\ StackTypes /\ incb \in BOOLEAN
  /\ QueueOK /\ CallsOK /\ CallbackOver /\ ListExact

-----------------------------------------------------------------------------
\* Sequences.

\* Lemma: the elements of a sequence.
LEMMA RangeFacts ==
  ASSUME NEW S, NEW q \in Seq(S)
  PROVE  /\ Range(q) \subseteq S
         /\ \A x : x \in Range(q) <=> \E i \in 1 .. Len(q) : q[i] = x
         /\ q = << >> <=> Range(q) = {}
         /\ Len(q) \in Nat
<1>1. Len(q) \in Nat /\ DOMAIN q = 1 .. Len(q) /\ \A i \in 1 .. Len(q) : q[i] \in S
  OBVIOUS
<1>2. \A x : x \in Range(q) <=> \E i \in 1 .. Len(q) : q[i] = x
  BY <1>1 DEF Range
<1>3. q = << >> <=> Range(q) = {}
  <2>1. ASSUME q # << >> PROVE 1 \in 1 .. Len(q)
    BY <2>1
  <2>2. ASSUME q = << >> PROVE Range(q) = {}
    BY <2>2 DEF Range
  <2> QED BY <1>2, <2>1, <2>2
<1> QED BY <1>1, <1>2, <1>3

\* Lemma: the elements of the calls that replace the innermost one.
LEMMA ReplacedFacts ==
  ASSUME NEW S, NEW p \in Seq(S), NEW q \in Seq(S), q # << >>
  PROVE  LET r == p \o Tail(q)
         IN  /\ r \in Seq(S) /\ Len(r) = Len(p) + Len(q) - 1
             /\ Head(q) = q[1] /\ Head(q) \in Range(q)
             /\ Range(r) \subseteq Range(p) \union Range(q)
             /\ \A i \in 1 .. Len(p) : r[i] = p[i]
             /\ \A i \in Len(p) + 1 .. Len(r) :
                  /\ i - Len(p) + 1 \in 2 .. Len(q)
                  /\ r[i] = q[i - Len(p) + 1]
<1> DEFINE r == p \o Tail(q)
<1>1. /\ Len(q) \in Nat \ {0} /\ Tail(q) \in Seq(S) /\ Len(Tail(q)) = Len(q) - 1
      /\ \A i \in 1 .. Len(q) - 1 : Tail(q)[i] = q[i + 1]
      /\ Len(p) \in Nat
  OBVIOUS
<1>2. r \in Seq(S) /\ Len(r) = Len(p) + Len(q) - 1
      /\ (\A i \in 1 .. Len(p) : r[i] = p[i])
      /\ \A i \in Len(p) + 1 .. Len(r) : r[i] = Tail(q)[i - Len(p)]
  BY <1>1
<1> HIDE DEF r
<1>3. ASSUME NEW i \in Len(p) + 1 .. Len(r)
      PROVE  i - Len(p) + 1 \in 2 .. Len(q) /\ r[i] = q[i - Len(p) + 1]
  <2>1. i - Len(p) \in 1 .. Len(q) - 1
    BY <1>1, <1>2
  <2> QED BY <1>1, <1>2, <2>1
<1>4. Range(r) \subseteq Range(p) \union Range(q)
  <2> SUFFICES ASSUME NEW i \in 1 .. Len(r) PROVE r[i] \in Range(p) \union Range(q)
    BY <1>2, RangeFacts
  <2>1. CASE i <= Len(p)
    BY <1>1, <1>2, <2>1, RangeFacts
  <2>2. CASE ~(i <= Len(p))
    <3>1. i \in Len(p) + 1 .. Len(r)
      BY <1>1, <1>2, <2>2
    <3>2. i - Len(p) + 1 \in 1 .. Len(q)
      BY <1>1, <1>3, <3>1
    <3> QED BY <1>3, <3>1, <3>2, RangeFacts
  <2> QED BY <2>1, <2>2
<1>5. Head(q) = q[1] /\ 1 \in 1 .. Len(q)
  BY <1>1
<1>6. Head(q) \in Range(q)
  BY <1>5, RangeFacts
<1>7. r \in Seq(S) /\ Len(r) = Len(p) + Len(q) - 1 /\ \A i \in 1 .. Len(p) : r[i] = p[i]
  BY <1>2
<1> QED BY <1>3, <1>4, <1>5, <1>6, <1>7 DEF r

\* Lemma: the elements when one is appended.
LEMMA AppendFacts ==
  ASSUME NEW S, NEW q \in Seq(S), NEW e \in S
  PROVE  /\ Append(q, e) \in Seq(S)
         /\ Range(Append(q, e)) = Range(q) \union {e}
         /\ IsInjective(q) /\ e \notin Range(q) => IsInjective(Append(q, e))
<1> DEFINE r == Append(q, e)
<1>1. /\ r \in Seq(S) /\ Len(r) = Len(q) + 1 /\ Len(q) \in Nat /\ r[Len(q) + 1] = e
      /\ \A i \in 1 .. Len(q) : r[i] = q[i]
  OBVIOUS
<1> HIDE DEF r
<1>2. Range(r) = Range(q) \union {e}
  <2>1. \A x : x \in Range(r) <=> \E i \in 1 .. Len(q) + 1 : r[i] = x
    BY <1>1, RangeFacts
  <2>2. \A i \in 1 .. Len(q) + 1 : i \in 1 .. Len(q) \/ i = Len(q) + 1
    BY <1>1
  <2>3. Len(q) + 1 \in 1 .. Len(q) + 1 /\ \A i \in 1 .. Len(q) : i \in 1 .. Len(q) + 1
    BY <1>1
  <2>4. \A x : x \in Range(q) <=> \E i \in 1 .. Len(q) : q[i] = x
    BY RangeFacts
  <2>5. \A x \in Range(r) : x \in Range(q) \union {e}
    BY <1>1, <2>1, <2>2, <2>4
  <2>6. \A x \in Range(q) \union {e} : x \in Range(r)
    BY <1>1, <2>1, <2>3, <2>4
  <2> QED BY <2>5, <2>6
<1>3. ASSUME IsInjective(q), e \notin Range(q) PROVE IsInjective(r)
  <2> SUFFICES ASSUME NEW i \in 1 .. Len(q) + 1, NEW j \in 1 .. Len(q) + 1, r[i] = r[j]
               PROVE  i = j
    BY <1>1 DEF IsInjective
  <2>1. \A k \in 1 .. Len(q) : r[k] # e
    BY <1>1, <1>3, RangeFacts
  <2>2. CASE i = Len(q) + 1 \/ j = Len(q) + 1
    BY <1>1, <2>1, <2>2
  <2>3. CASE i \in 1 .. Len(q) /\ j \in 1 .. Len(q)
    BY <1>1, <1>3, <2>3 DEF IsInjective
  <2> QED BY <1>1, <2>2, <2>3
<1> QED BY <1>1, <1>2, <1>3 DEF r

\* Lemma: what Without computes, position by position.
LEMMA WithoutDef ==
  ASSUME NEW S, NEW q \in Seq(S), NEW gone
  PROVE  \E w : /\ w[0] = << >>
                /\ \A i \in 1 .. Len(q) :
                     w[i] = IF q[i] \in gone THEN w[i - 1] ELSE Append(w[i - 1], q[i])
                /\ Without(q, gone) = w[Len(q)]
<1> DEFINE Step(w, i) == IF i = 0 THEN << >>
                         ELSE IF q[i] \in gone THEN w[i - 1] ELSE Append(w[i - 1], q[i])
           Is(w, m) == w = [i \in 0 .. m |-> Step(w, i)]
           G == {m \in Nat : \E w : Is(w, m)}
           F == CHOOSE w : Is(w, Len(q))
<1>1. 0 \in G
  <2>1. Is([i \in 0 .. 0 |-> << >>], 0)
    OBVIOUS
  <2> QED BY <2>1
<1>2. ASSUME NEW m \in Nat, NEW w, Is(w, m) PROVE \E v : Is(v, m + 1)
  <2> DEFINE v == [i \in 0 .. (m + 1) |-> IF i = m + 1 THEN Step(w, i) ELSE w[i]]
  <2> HIDE DEF Step
  <2>1. \A i \in 0 .. m : w[i] = Step(w, i) /\ v[i] = w[i]
    <3>1. \A i \in 0 .. m : i \in 0 .. (m + 1) /\ i # m + 1
      OBVIOUS
    <3>2. \A i \in 0 .. m : v[i] = w[i]
      BY <3>1
    <3>3. w = [i \in 0 .. m |-> Step(w, i)]
      BY <1>2
    <3> HIDE DEF v
    <3>4. \A i \in 0 .. m : w[i] = Step(w, i)
      BY <3>3, Zenon
    <3> QED BY <3>2, <3>4
  <2>2. v[m + 1] = Step(w, m + 1) /\ v[m] = w[m]
    OBVIOUS
  <2>3. v = [i \in 0 .. (m + 1) |-> v[i]]
    OBVIOUS
  <2> HIDE DEF v
  <2>4. ASSUME NEW i \in 0 .. (m + 1) PROVE v[i] = Step(v, i)
    <3>1. CASE i = m + 1
      <4>1. v[i - 1] = w[i - 1] /\ i # 0
        BY <2>2, <3>1
      <4> QED BY <2>2, <3>1, <4>1 DEF Step
    <3>2. CASE i # m + 1
      <4>1. i \in 0 .. m /\ (i # 0 => i - 1 \in 0 .. m)
        BY <3>2
      <4>2. i # 0 => v[i - 1] = w[i - 1]
        BY <2>1, <4>1
      <4>3. Step(v, i) = Step(w, i)
        BY <4>2 DEF Step
      <4> QED BY <2>1, <4>1, <4>3
    <3> QED BY <3>1, <3>2
  <2>5. Is(v, m + 1)
    BY <2>3, <2>4
  <2> QED BY <2>5
<1>3. Len(q) \in G
  <2>1. Len(q) \in Nat
    OBVIOUS
  <2> HIDE DEF Is
  <2>2. \A m \in Nat : m \in G => m + 1 \in G
    BY <1>2
  <2> HIDE DEF G
  <2> QED BY <1>1, <2>1, <2>2, Nats!NatInSet
<1>4. Is(F, Len(q))
  BY <1>3
<1>5. Without(q, gone) = F[Len(q)]
  BY DEF Without
<1> HIDE DEF F
<1>6. \A i \in 0 .. Len(q) : F[i] = Step(F, i)
  BY <1>4
<1>7. 0 \in 0 .. Len(q) /\ \A i \in 1 .. Len(q) : i \in 0 .. Len(q) /\ i # 0
  OBVIOUS
<1> QED BY <1>5, <1>6, <1>7

\* Lemma: Without leaves the others, each as often as it was there.
LEMMA WithoutFacts ==
  ASSUME NEW S, NEW q \in Seq(S), NEW gone
  PROVE  /\ Without(q, gone) \in Seq(S)
         /\ Range(Without(q, gone)) = Range(q) \ gone
         /\ IsInjective(q) => IsInjective(Without(q, gone))
<1>1. PICK w : /\ w[0] = << >>
               /\ \A i \in 1 .. Len(q) :
                    w[i] = IF q[i] \in gone THEN w[i - 1] ELSE Append(w[i - 1], q[i])
               /\ Without(q, gone) = w[Len(q)]
  BY WithoutDef
<1>2. Len(q) \in Nat /\ \A i \in 1 .. Len(q) : q[i] \in S
  OBVIOUS
<1> DEFINE Before(i) == {q[k] : k \in 1 .. i}
           G == {i \in 0 .. Len(q) :
                   /\ w[i] \in Seq(S) /\ Range(w[i]) = Before(i) \ gone
                   /\ IsInjective(q) => IsInjective(w[i])}
<1>3. 0 \in G
  <2>1. << >> \in Seq(S) /\ Range(<< >>) = {} /\ IsInjective(<< >>)
    BY DEF Range, IsInjective
  <2>2. Before(0) = {}
    OBVIOUS
  <2> HIDE DEF Before
  <2>3. 0 \in 0 .. Len(q)
    BY <1>2
  <2>4. w[0] \in Seq(S) /\ Range(w[0]) = Before(0) \ gone /\ IsInjective(w[0])
    BY <1>1, <2>1, <2>2
  <2> QED BY <2>3, <2>4
<1>4. ASSUME NEW k \in 0 .. (Len(q) - 1), k \in G PROVE k + 1 \in G
  <2> DEFINE i == k + 1
  <2>1. i \in 1 .. Len(q) /\ i \in 0 .. Len(q) /\ i - 1 = k
    BY <1>2
  <2>2. w[k] \in Seq(S) /\ Range(w[k]) = Before(k) \ gone /\ (IsInjective(q) => IsInjective(w[k]))
    BY <1>4
  <2>3. Before(i) = Before(k) \union {q[i]}
    <3>1. \A j \in 1 .. i : j \in 1 .. k \/ j = i
      BY <1>2
    <3>2. i \in 1 .. i /\ \A j \in 1 .. k : j \in 1 .. i
      BY <1>2
    <3> QED BY <3>1, <3>2
  <2>4. w[i] = IF q[i] \in gone THEN w[k] ELSE Append(w[k], q[i])
    BY <1>1, <2>1
  <2>5. CASE q[i] \in gone
    BY <2>1, <2>2, <2>3, <2>4, <2>5
  <2>6. CASE q[i] \notin gone
    <3>1. w[i] \in Seq(S) /\ Range(w[i]) = Range(w[k]) \union {q[i]}
      BY <1>2, <2>1, <2>2, <2>4, <2>6, AppendFacts
    <3>2. Range(w[i]) = Before(i) \ gone
      BY <2>2, <2>3, <2>6, <3>1
    <3>3. ASSUME IsInjective(q) PROVE IsInjective(w[i])
      <4>1. \A j \in 1 .. k : q[j] # q[i]
        <5>1. \A j \in 1 .. k : j \in 1 .. Len(q) /\ j # i
          BY <1>2
        <5>2. DOMAIN q = 1 .. Len(q)
          OBVIOUS
        <5> QED BY <2>1, <3>3, <5>1, <5>2 DEF IsInjective
      <4>2. q[i] \notin Range(w[k])
        BY <2>2, <4>1
      <4> QED BY <1>2, <2>1, <2>2, <2>4, <2>6, <3>3, <4>2, AppendFacts
    <3> QED BY <2>1, <3>1, <3>2, <3>3
  <2> QED BY <2>5, <2>6
<1> HIDE DEF G
<1>5. Len(q) \in G
  <2>1. 0 .. Len(q) \subseteq G
    BY <1>2, <1>3, <1>4, Nats!UpToInSet
  <2> QED BY <1>2, <2>1
<1>6. Before(Len(q)) = Range(q)
  BY RangeFacts
<1> QED BY <1>1, <1>5, <1>6 DEF G

-----------------------------------------------------------------------------
\* Calls.

\* Lemma: what a call is.
LEMMA CallFacts ==
  ASSUME NEW op \in OnSound \union {"stopcur", "done", "maybe", "obsolete"},
         NEW s \in Sounds \union {None}, op \in OnSound => s \in Sounds
  PROVE  /\ Call(op, s) \in CallType /\ Call(op, s).op = op /\ Call(op, s).s = s
         /\ \A how \in Hows \union {"cut"} :
              LET c == CallHow(op, s, how) IN c \in CallType /\ c.op = op /\ c.s = s
<1>1. Call(op, s) \in [op : OnSound \union {"stopcur", "done", "maybe", "obsolete"},
                       s : Sounds \union {None}, how : Hows \union {"cut"}, n : Nat]
  BY DEF Call, Hows
<1>2. Call(op, s).op = op /\ Call(op, s).s = s
  BY DEF Call
<1>3. ASSUME NEW how \in Hows \union {"cut"}
      PROVE  /\ CallHow(op, s, how) \in CallType
             /\ CallHow(op, s, how).op = op /\ CallHow(op, s, how).s = s
  <2>1. CallHow(op, s, how) = [op |-> op, s |-> s, how |-> how, n |-> 0]
    BY DEF CallHow, Call
  <2> QED BY <2>1 DEF CallType
<1> QED BY <1>1, <1>2, <1>3 DEF CallType

\* Lemma: what the call of fDone_func is.
LEMMA DoneCallFacts ==
  ASSUME NEW s \in Sounds, NEW n \in Nat
  PROVE  DoneCall(s, n) \in AudioCall /\ DoneCall(s, n).op = "done" /\ DoneCall(s, n).n = n
<1>1. DoneCall(s, n) = [op |-> "done", s |-> s, how |-> "halt", n |-> n]
  BY DEF DoneCall, Call
<1> QED BY <1>1 DEF AudioCall, CallType, OnSound, Hows

\* Lemma: one call.
LEMMA OneCall ==
  ASSUME NEW S, NEW c \in S
  PROVE  <<c>> \in Seq(S) /\ Range(<<c>>) = {c}
<1>1. <<c>> \in Seq(S) /\ Len(<<c>>) = 1 /\ <<c>>[1] = c
  OBVIOUS
<1>2. \A x : x \in Range(<<c>>) <=> \E i \in 1 .. 1 : <<c>>[i] = x
  BY <1>1, RangeFacts
<1> QED BY <1>1, <1>2

\* Lemma: no call.
LEMMA NoCall ==
  ASSUME NEW S
  PROVE  << >> \in Seq(S) /\ Range(<< >>) = {}
  BY DEF Range

\* Lemma: the call that a thread is in.
LEMMA InFacts ==
  ASSUME StackTypes, NEW t \in Threads, NEW op, In(t, op)
  PROVE  /\ stack[t] # << >> /\ Top(t) \in CallType /\ Top(t).op = op
         /\ Top(t) \in Range(stack[t]) /\ Top(t) = stack[t][1]
         /\ t = "audio" => op \in {"finish", "done", "maybe", "start"}
<1>1. stack[t] \in Seq(CallType) /\ stack[t] # << >> /\ Top(t) = Head(stack[t]) /\ Top(t).op = op
  BY DEF StackTypes, In, Top
<1>2. Head(stack[t]) = stack[t][1] /\ Head(stack[t]) \in CallType
  BY <1>1
<1>3. 1 \in 1 .. Len(stack[t])
  BY <1>1
<1>4. Head(stack[t]) \in Range(stack[t])
  BY <1>1, <1>2, <1>3, RangeFacts
<1>5. CASE t = "audio"
  <2>1. Head(stack[t]) \in AudioCall
    BY <1>1, <1>5 DEF StackTypes
  <2> QED BY <1>1, <1>2, <1>4, <2>1 DEF AudioCall
<1>6. CASE t # "audio"
  BY <1>1, <1>2, <1>4, <1>6
<1> QED BY <1>5, <1>6

\* Lemma: what Become leaves.
LEMMA BecomeFacts ==
  ASSUME StackTypes, NEW t \in Threads, stack[t] # << >>,
         NEW more \in Seq(CallType), t = "audio" => more \in Seq(AudioCall),
         Become(t, more)
  PROVE  /\ StackTypes'
         /\ \A u \in Threads : u # t => stack'[u] = stack[u]
         /\ stack'[t] = more \o Tail(stack[t])
         /\ Range(stack'[t]) \subseteq Range(more) \union Range(stack[t])
<1>1. stack' = [stack EXCEPT ![t] = more \o Tail(stack[t])]
  BY DEF Become
<1>2. stack[t] \in Seq(CallType)
  BY DEF StackTypes
<1>3. /\ more \o Tail(stack[t]) \in Seq(CallType)
      /\ Range(more \o Tail(stack[t])) \subseteq Range(more) \union Range(stack[t])
  BY <1>2, ReplacedFacts
<1>4. t = "audio" => more \o Tail(stack[t]) \in Seq(AudioCall)
  BY ReplacedFacts DEF StackTypes
<1>5. stack'[t] = more \o Tail(stack[t]) /\ \A u \in Threads : u # t => stack'[u] = stack[u]
  BY <1>1 DEF StackTypes
<1>6. stack' \in [Threads -> Seq(CallType)]
  BY <1>1, <1>3 DEF StackTypes
<1>7. stack'["audio"] \in Seq(AudioCall)
  BY <1>4, <1>5 DEF StackTypes, Threads
<1> QED BY <1>3, <1>5, <1>6, <1>7 DEF StackTypes

\* What no operation does to the sounds, but creating one.
LifeKept ==
  \A s \in Sounds : /\ life[s] # "none" => life'[s] # "none"
                    /\ tag[s] /\ life[s] = "live" => life'[s] = "live"

\* Calls that may be made from an operation.
NewCallOK(c) ==
  c.op \notin {"add", "obsolete", "stopcur"} /\ (c.op = "start" => life'[c.s] # "none")

\* Lemma: a step of a thread keeps what is known of the calls, if it leaves the sound
\* that is about to be put in the queue alone.
LEMMA CallStepOK ==
  ASSUME StackTypes, CallsOK, CallbackOver, NEW t \in Threads, stack[t] # << >>,
         NEW more \in Seq(CallType), t = "audio" => more \in Seq(AudioCall),
         Become(t, more), \A c \in Range(more) : NewCallOK(c),
         Top(t).op = "add" \/ Range(queue') \subseteq Range(queue),
         \A u \in Threads : \A c \in Range(stack[u]) :
           c.op = "add" => tag'[c.s] /\ life'[c.s] = "live",
         \A s \in Sounds : life[s] # "none" => life'[s] # "none",
         incb' = incb, rest' = rest
  PROVE  StackTypes' /\ CallsOK' /\ CallbackOver'
<1>1. /\ StackTypes'
      /\ \A u \in Threads : u # t => stack'[u] = stack[u]
      /\ stack'[t] = more \o Tail(stack[t])
      /\ Range(stack'[t]) \subseteq Range(more) \union Range(stack[t])
  BY BecomeFacts
<1>2. ASSUME NEW u \in Threads PROVE AddLast(stack[u])'
  <2>1. CASE u # t
    BY <1>1, <2>1 DEF CallsOK
  <2>2. CASE u = t
    <3> DEFINE r == more \o Tail(stack[t])
    <3>1. stack[t] \in Seq(CallType) /\ Len(more) \in Nat /\ Len(stack[t]) \in Nat
      BY DEF StackTypes
    <3>2. /\ Len(r) = Len(more) + Len(stack[t]) - 1
          /\ \A i \in 1 .. Len(more) : r[i] = more[i]
          /\ \A i \in Len(more) + 1 .. Len(r) :
               /\ i - Len(more) + 1 \in 2 .. Len(stack[t])
               /\ r[i] = stack[t][i - Len(more) + 1]
      BY <3>1, ReplacedFacts
    <3> HIDE DEF r
    <3>3. ASSUME NEW i \in 1 .. Len(r), r[i].op = "add" PROVE i = Len(r)
      <4>1. CASE i <= Len(more)
        <5>1. r[i] \in Range(more)
          BY <3>1, <3>2, <4>1, RangeFacts
        <5> QED BY <3>3, <5>1 DEF NewCallOK
      <4>2. CASE ~(i <= Len(more))
        <5>1. i \in Len(more) + 1 .. Len(r)
          BY <3>1, <3>2, <4>2
        <5> DEFINE k == i - Len(more) + 1
        <5>2. k \in 2 .. Len(stack[t]) /\ r[i] = stack[t][k]
          BY <3>2, <5>1
        <5>3. k \in 1 .. Len(stack[t])
          BY <3>1, <5>2
        <5>4. k = Len(stack[t])
          BY <3>3, <5>2, <5>3 DEF CallsOK, AddLast
        <5> QED BY <3>1, <3>2, <5>4
      <4> QED BY <4>1, <4>2
    <3>4. stack'[u] = r
      BY <1>1, <2>2 DEF r
    <3> QED BY <3>3, <3>4 DEF AddLast
  <2> QED BY <2>1, <2>2
<1>3. ASSUME NEW u \in Threads, NEW c \in Range(stack'[u]), c \in Range(stack[u]), c.op = "add"
      PROVE  c.s \notin Range(queue')
  <2>1. c.s \notin Range(queue)
    BY <1>3 DEF CallsOK, CallOK
  <2>2. CASE Top(t).op = "add"
    <3>1. stack[t] \in Seq(CallType) /\ Top(t) = stack[t][1] /\ 1 \in 1 .. Len(stack[t])
      BY DEF StackTypes, Top
    <3>2. Len(stack[t]) = 1
      BY <2>2, <3>1 DEF CallsOK, AddLast
    <3> DEFINE r == more \o Tail(stack[t])
    <3>3. r \in Seq(CallType) /\ Len(r) = Len(more) /\ \A i \in 1 .. Len(more) : r[i] = more[i]
      <4>1. Len(more) \in Nat
        OBVIOUS
      <4>2. /\ r \in Seq(CallType) /\ Len(r) = Len(more) + Len(stack[t]) - 1
            /\ \A i \in 1 .. Len(more) : r[i] = more[i]
        BY <3>1, ReplacedFacts
      <4> HIDE DEF r
      <4> QED BY <3>1, <3>2, <4>1, <4>2
    <3>4. u # t
      <4> SUFFICES ASSUME u = t PROVE FALSE
        OBVIOUS
      <4>1. c \in Range(r)
        BY <1>1, <1>3
      <4> HIDE DEF r
      <4>2. c \in Range(more)
        BY <3>3, <4>1, RangeFacts
      <4> QED BY <1>3, <4>2 DEF NewCallOK
    <3>5. t = "gui"
      <4>1. t = "audio" => stack[t][1] \in AudioCall
        BY <3>1 DEF StackTypes
      <4> QED BY <2>2, <3>1, <4>1 DEF AudioCall, Threads
    <3>6. c \in AudioCall
      BY <1>3, <3>4, <3>5, RangeFacts DEF Threads, StackTypes
    <3> QED BY <1>3, <3>6 DEF AudioCall
  <2>3. CASE Range(queue') \subseteq Range(queue)
    BY <2>1, <2>3
  <2> QED BY <2>2, <2>3
<1>4. ASSUME NEW u \in Threads, NEW c \in Range(stack'[u]) PROVE CallOK(stack[u], c)'
  <2>1. c \in Range(stack[u]) \/ (u = t /\ c \in Range(more))
    BY <1>1, <1>4
  <2>2. \A d \in Range(stack'[u]) : d.op = "obsolete" => d \in Range(stack[u])
    BY <1>1 DEF NewCallOK
  <2>3. CASE c \in Range(stack[u])
    <3>1. c \in CallType /\ CallOK(stack[u], c)
      <4>1. stack[u] \in Seq(CallType)
        BY DEF StackTypes
      <4> QED BY <2>3, <4>1, RangeFacts DEF CallsOK
    <3>2. c.op \in {"start", "add"} => c.s \in Sounds
      BY <3>1 DEF CallType, OnSound
    <3>3. c.op = "start" => life'[c.s] # "none"
      BY <3>1, <3>2 DEF CallOK
    <3>4. c.op = "add" => tag'[c.s] /\ life'[c.s] = "live" /\ c.s \notin Range(queue')
      BY <1>3, <2>3, <3>1, <3>2, <2>3 DEF CallOK
    <3>5. c.op = "add" => \A d \in Range(stack'[u]) : d.op = "obsolete" => d.s = c.s
      BY <2>2, <3>1 DEF CallOK
    <3> QED BY <3>3, <3>4, <3>5 DEF CallOK
  <2>4. CASE u = t /\ c \in Range(more)
    BY <2>4 DEF CallOK, NewCallOK
  <2> QED BY <2>1, <2>3, <2>4
<1>5. CallsOK'
  BY <1>4, <1>2 DEF CallsOK
<1>6. CallbackOver'
  <2>1. CASE t = "audio"
    BY <2>1 DEF CallbackOver
  <2>2. CASE t # "audio"
    BY <1>1, <2>2 DEF CallbackOver, Threads
  <2> QED BY <2>1, <2>2
<1> QED BY <1>1, <1>5, <1>6

\* Lemma: streams that are left alone.
LEMMA SameStreams ==
  ASSUME StreamTypes, ListExact, LifeKept, strm' = strm, list' = list, rest' = rest
  PROVE  StreamTypes' /\ ListExact'
<1>1. StreamTypes'
  BY DEF StreamTypes
<1>2. Range(list) \subseteq Sounds /\ Range(rest) \subseteq Sounds
  BY RangeFacts DEF StreamTypes
<1>3. ListExact'
  BY <1>2 DEF ListExact, LifeKept
<1> QED BY <1>1, <1>3

\* Lemma: sounds that are left alone.
LEMMA SameLife == life' = life => LifeKept
  BY DEF LifeKept

-----------------------------------------------------------------------------
\* What the operations make of the queue and of the sounds.

\* Lemma: a set of positions that is not empty has a greatest.
LEMMA MaxIn ==
  ASSUME NEW n \in Nat, NEW T \in SUBSET (1 .. n), T # {}
  PROVE  Max(T) \in T
<1> DEFINE U == {n - i : i \in T}
<1>1. U \in SUBSET Nat /\ U # {}
  <2>1. \A i \in T : n - i \in Nat
    OBVIOUS
  <2> QED BY <2>1
<1>2. PICK m \in U : \A k \in U : m <= k
  BY <1>1, Nats!LeastNat
<1>3. PICK x \in T : m = n - x
  BY <1>2
<1>4. \A y \in T : x >= y
  <2> TAKE y \in T
  <2>1. n - x <= n - y
    BY <1>2, <1>3
  <2> QED BY <2>1
<1> QED BY <1>3, <1>4 DEF Max

\* Lemma: last_played_ stays in the queue, or there is none.
LEMMA SurvivorFacts ==
  ASSUME queue \in Seq(Sounds), NEW gone, NEW e \in Range(queue) \union {None}
  PROVE  Survivor(e, gone) \in (Range(queue) \ gone) \union {None}
<1> DEFINE before == {i \in DOMAIN queue :
                        queue[i] \notin gone /\ \E j \in DOMAIN queue : i < j /\ queue[j] = e}
<1>1. CASE e \notin gone
  BY <1>1 DEF Survivor
<1>2. CASE e \in gone /\ before = {}
  BY <1>2 DEF Survivor
<1>3. CASE e \in gone /\ before # {}
  <2>1. Survivor(e, gone) = queue[Max(before)]
    BY <1>3 DEF Survivor
  <2>2. DOMAIN queue = 1 .. Len(queue) /\ Len(queue) \in Nat
    OBVIOUS
  <2>3. before \in SUBSET (1 .. Len(queue))
    BY <2>2
  <2> HIDE DEF before
  <2>4. Max(before) \in before
    BY <1>3, <2>2, <2>3, MaxIn
  <2>5. Max(before) \in 1 .. Len(queue) /\ queue[Max(before)] \notin gone
    BY <2>2, <2>4 DEF before
  <2> QED BY <2>1, <2>5, RangeFacts
<1> QED BY <1>1, <1>2, <1>3

\* Lemma: what DeleteEntries leaves.
LEMMA DeleteFacts ==
  ASSUME EntryTypes, SoundTypes, QueueOK, NEW t, NEW gone \in SUBSET Sounds,
         NEW last \in Range(queue) \union {None}, DeleteEntries(t, gone, last), tag' = tag
  PROVE  /\ attr' \in [Sounds -> AttrType] /\ SoundTypes' /\ LifeKept
         /\ queue' \in Seq(Sounds) /\ Range(queue') = Range(queue) \ gone
         /\ IsInjective(queue')
         /\ last_played_' \in Range(queue') \union {None}
         /\ \A s \in Range(queue') : life'[s] = "live"
<1>1. /\ attr' = [s \in Sounds |-> IF s \in gone THEN NoAttr ELSE attr[s]]
      /\ snd' = [s \in Sounds |-> IF s \in gone /\ ~tag[s] THEN Silent ELSE snd[s]]
      /\ queue' = Without(queue, gone)
      /\ last_played_' = Survivor(last, gone)
      /\ life' = [s \in Sounds |-> IF s \in gone /\ ~tag[s] THEN "dead" ELSE life[s]]
  BY DEF DeleteEntries
<1>2. NoAttr \in AttrType /\ Silent \in SndType
  BY DEF NoAttr, AttrType, Silent, SndType
<1>3. attr' \in [Sounds -> AttrType]
  BY <1>1, <1>2 DEF EntryTypes
<1>4. snd' \in [Sounds -> SndType]
  BY <1>1, <1>2 DEF SoundTypes
<1>5. life' \in [Sounds -> {"none", "live", "dead"}]
  BY <1>1 DEF SoundTypes
<1>6. LifeKept
  BY <1>1 DEF LifeKept
<1>7. /\ queue' \in Seq(Sounds) /\ Range(queue') = Range(queue) \ gone
      /\ IsInjective(queue')
  BY <1>1, WithoutFacts DEF QueueOK
<1>8. last_played_' \in Range(queue') \union {None}
  BY <1>1, <1>7, SurvivorFacts DEF QueueOK
<1>9. \A s \in Range(queue') : life'[s] = "live"
  <2>1. Range(queue) \subseteq Sounds
    BY RangeFacts DEF QueueOK
  <2> QED BY <1>1, <1>7, <2>1 DEF QueueOK
<1> QED BY <1>3, <1>4, <1>5, <1>6, <1>7, <1>8, <1>9 DEF SoundTypes

\* Lemma: fDone_func, if it is set, and what comes after it.
LEMMA CallDoneFacts ==
  ASSUME SoundTypes, NEW t \in Threads, NEW s \in Sounds, NEW then \in Seq(CallType),
         t = "audio" => then \in Seq(AudioCall), CallDone(t, s, then)
  PROVE  \E more \in Seq(CallType) :
           /\ t = "audio" => more \in Seq(AudioCall)
           /\ Become(t, more)
           /\ \A c \in Range(more) : c.op = "done" \/ c \in Range(then)
           /\ \A c \in Range(then) : c \in Range(more)
<1> DEFINE d == DoneCall(s, snd[s].fRepeats)
           more == <<d>> \o then
<1>1. CASE ~snd[s].done
  BY <1>1 DEF CallDone
<1>2. CASE snd[s].done
  <2>1. d \in AudioCall /\ d.op = "done"
    <3>1. snd[s].fRepeats \in Nat
      BY DEF SoundTypes, SndType
    <3> QED BY <3>1, DoneCallFacts
  <2>2. d \in CallType
    BY <2>1 DEF AudioCall
  <2>3. Become(t, more)
    BY <1>2 DEF CallDone
  <2> HIDE DEF d
  <2>4. more \in Seq(CallType) /\ (t = "audio" => more \in Seq(AudioCall))
    BY <2>1, <2>2
  <2>5. /\ Len(more) = Len(then) + 1 /\ more[1] = d
        /\ \A i \in 1 .. Len(then) : more[i + 1] = then[i]
        /\ \A i \in 2 .. Len(more) : i - 1 \in 1 .. Len(then) /\ more[i] = then[i - 1]
        /\ Len(then) \in Nat
    BY <2>2
  <2> HIDE DEF more
  <2>6. \A c \in Range(more) : c.op = "done" \/ c \in Range(then)
    <3> SUFFICES ASSUME NEW i \in 1 .. Len(more) PROVE more[i].op = "done" \/ more[i] \in Range(then)
      BY <2>4, RangeFacts
    <3>1. CASE i = 1
      BY <2>1, <2>5, <3>1
    <3>2. CASE i # 1
      <4>1. i \in 2 .. Len(more)
        BY <2>5, <3>2
      <4> QED BY <2>5, <4>1, RangeFacts
    <3> QED BY <3>1, <3>2
  <2>7. \A c \in Range(then) : c \in Range(more)
    <3> SUFFICES ASSUME NEW i \in 1 .. Len(then) PROVE then[i] \in Range(more)
      BY RangeFacts
    <3>1. i + 1 \in 1 .. Len(more) /\ more[i + 1] = then[i]
      BY <2>5
    <3> QED BY <2>4, <3>1, RangeFacts
  <2> QED BY <2>3, <2>4, <2>6, <2>7
<1> QED BY <1>1, <1>2

-----------------------------------------------------------------------------
\* Every action keeps the invariant.

\* Lemma: what a step of a thread has to show.
LEMMA StepInv ==
  ASSUME Inv, NEW t \in Threads, stack[t] # << >>,
         NEW more \in Seq(CallType), t = "audio" => more \in Seq(AudioCall),
         Become(t, more), \A c \in Range(more) : NewCallOK(c),
         Top(t).op = "add" \/ Range(queue') \subseteq Range(queue),
         LifeKept, tag' = tag, incb' = incb, rest' = rest,
         EntryTypes', SoundTypes', QueueOK', StreamTypes', ListExact'
  PROVE  Inv'
<1>1. StackTypes' /\ CallsOK' /\ CallbackOver'
  <2>1. ASSUME NEW u \in Threads, NEW c \in Range(stack[u]), c.op = "add"
        PROVE  tag'[c.s] /\ life'[c.s] = "live"
    <3>1. c \in CallType
      BY RangeFacts DEF Inv, StackTypes
    <3> QED BY <2>1, <3>1 DEF Inv, CallsOK, CallOK, LifeKept, CallType, OnSound
  <2>2. \A s \in Sounds : life[s] # "none" => life'[s] # "none"
    BY DEF LifeKept
  <2> QED BY <2>1, <2>2, CallStepOK DEF Inv
<1>2. (incb \in BOOLEAN)'
  BY DEF Inv
<1> QED BY <1>1, <1>2 DEF Inv

\* Lemma: add_sound.
LEMMA AddSoundInv ==
  ASSUME Inv, NEW t \in Threads, AddSound(t)
  PROVE  Inv'
<1> DEFINE s == Top(t).s
           last == queue[Len(queue)]
           cross == attr[s].xin /\ queue # << >>
           on == IF snd[last].fPlaying THEN "on" ELSE snd[last].timer
<1>1. /\ StackTypes /\ stack[t] # << >> /\ Top(t) \in CallType /\ Top(t).op = "add"
      /\ Top(t) \in Range(stack[t]) /\ t # "audio"
  BY InFacts DEF AddSound, Inv
<1>2. s \in Sounds /\ life[s] = "live" /\ s \notin Range(queue)
  BY <1>1 DEF CallType, OnSound, CallsOK, CallOK, Inv
<1>3. /\ queue' = Append(queue, s)
      /\ left' = [left EXCEPT ![s] = attr[s].repeat]
      /\ cancelled' = [cancelled EXCEPT ![s] = FALSE]
      /\ cross => /\ attr' = [attr EXCEPT ![last].xout = TRUE, ![last].fadeout = TRUE]
                  /\ snd' = [snd EXCEPT ![last].fCrossFade = TRUE, ![last].timer = on]
      /\ ~cross => attr' = attr /\ snd' = snd
      /\ UNCHANGED <<life, tag, playing_, last_played_, audio>>
  BY DEF AddSound
<1>4. PICK more : more \in {<<Call("maybe", None)>>, << >>} /\ Become(t, more)
  BY DEF AddSound, Return
<1>5. /\ more \in Seq(CallType) /\ \A c \in Range(more) : NewCallOK(c)
  <2>1. Call("maybe", None) \in CallType /\ Call("maybe", None).op = "maybe"
    BY CallFacts DEF OnSound
  <2>2. CASE more = << >>
    BY <2>2, NoCall
  <2>3. CASE more = <<Call("maybe", None)>>
    <3>1. more \in Seq(CallType) /\ Range(more) = {Call("maybe", None)}
      BY <2>1, <2>3, OneCall
    <3> QED BY <2>1, <3>1 DEF NewCallOK
  <2> QED BY <1>4, <2>2, <2>3
<1>6. queue \in Seq(Sounds) /\ (cross => last \in Sounds)
  BY DEF Inv, QueueOK
<1>7. EntryTypes'
  <2>1. left' \in [Sounds -> Int]
    <3>1. attr[s].repeat \in Int
      BY <1>2 DEF Inv, EntryTypes, AttrType
    <3> QED BY <1>3, <3>1 DEF Inv, EntryTypes
  <2>2. attr' \in [Sounds -> AttrType]
    <3>1. CASE cross
      <4>1. [attr[last] EXCEPT !.xout = TRUE, !.fadeout = TRUE] \in AttrType
        <5>1. attr[last] \in AttrType
          BY <1>6, <3>1 DEF Inv, EntryTypes
        <5> QED BY <5>1 DEF AttrType
      <4>2. attr' = [attr EXCEPT ![last] = [attr[last] EXCEPT !.xout = TRUE, !.fadeout = TRUE]]
        BY <1>3, <1>6, <3>1 DEF Inv, EntryTypes
      <4> QED BY <1>6, <3>1, <4>1, <4>2 DEF Inv, EntryTypes
    <3>2. CASE ~cross
      BY <1>3, <3>2 DEF Inv, EntryTypes
    <3> QED BY <3>1, <3>2
  <2> QED BY <1>3, <2>1, <2>2 DEF Inv, EntryTypes
<1>8. SoundTypes'
  <2>1. snd' \in [Sounds -> SndType]
    <3>1. CASE cross
      <4>1. snd[last] \in SndType /\ on \in {"on", "off"}
        BY <1>6, <3>1 DEF Inv, SoundTypes, SndType
      <4> HIDE DEF on
      <4>2. [snd[last] EXCEPT !.fCrossFade = TRUE, !.timer = on] \in SndType
        BY <4>1 DEF SndType
      <4>3. snd' = [snd EXCEPT ![last] = [snd[last] EXCEPT !.fCrossFade = TRUE, !.timer = on]]
        BY <1>3, <1>6, <3>1 DEF Inv, SoundTypes
      <4> QED BY <1>6, <3>1, <4>2, <4>3 DEF Inv, SoundTypes
    <3>2. CASE ~cross
      BY <1>3, <3>2 DEF Inv, SoundTypes
    <3> QED BY <3>1, <3>2
  <2> QED BY <1>3, <2>1 DEF Inv, SoundTypes
<1>9. QueueOK'
  <2>1. /\ queue' \in Seq(Sounds) /\ Range(queue') = Range(queue) \union {s}
        /\ IsInjective(queue')
    BY <1>2, <1>3, <1>6, AppendFacts DEF Inv, QueueOK
  <2> QED BY <1>2, <1>3, <2>1 DEF Inv, QueueOK
<1>10. LifeKept /\ tag' = tag /\ incb' = incb /\ rest' = rest
  BY <1>3, SameLife DEF audio
<1>11. StreamTypes' /\ ListExact'
  BY <1>3, <1>10, SameStreams DEF Inv, audio
<1> QED BY <1>1, <1>4, <1>5, <1>7, <1>8, <1>9, <1>10, <1>11, StepInv

\* Lemma: stop_current_sound.
LEMMA StopCurrentSoundInv ==
  ASSUME Inv, NEW t \in Threads, StopCurrentSound(t)
  PROVE  Inv'
<1>1. /\ StackTypes /\ stack[t] # << >> /\ Top(t) \in CallType /\ t # "audio"
  BY InFacts DEF StopCurrentSound, Inv
<1>2. UNCHANGED <<tag, left, playing_, strm, list, incb, rest>>
  BY DEF StopCurrentSound, audio
<1>3. CASE playing_ # None
  <2> DEFINE c == CallHow("cancel", playing_, Top(t).how)
  <2>1. /\ cancelled' = MarkCancelled /\ Become(t, <<c>>)
        /\ UNCHANGED <<life, queue, last_played_, attr, snd>>
    BY <1>3 DEF StopCurrentSound
  <2>2. playing_ \in Sounds /\ Top(t).how \in Hows \union {"cut"}
    BY <1>1, <1>3, RangeFacts DEF Inv, QueueOK, CallType
  <2>3. c \in CallType /\ c.op = "cancel"
    BY <2>2, CallFacts DEF OnSound
  <2> HIDE DEF c
  <2>4. <<c>> \in Seq(CallType) /\ \A d \in Range(<<c>>) : NewCallOK(d)
    BY <2>3, OneCall DEF NewCallOK
  <2>5. EntryTypes'
    <3>1. MarkCancelled \in [Sounds -> BOOLEAN]
      BY DEF MarkCancelled, Inv, EntryTypes
    <3> QED BY <1>2, <2>1, <3>1 DEF Inv, EntryTypes
  <2>6. SoundTypes' /\ QueueOK'
    BY <1>2, <2>1 DEF Inv, SoundTypes, QueueOK
  <2>7. LifeKept
    BY <2>1, SameLife
  <2>8. StreamTypes' /\ ListExact'
    BY <1>2, <2>7, SameStreams DEF Inv
  <2>9. Range(queue') \subseteq Range(queue)
    BY <2>1
  <2> QED BY <1>1, <1>2, <2>1, <2>4, <2>5, <2>6, <2>7, <2>8, <2>9, StepInv
<1>4. CASE playing_ = None
  <2>1. DeleteEntries(t, Range(queue), last_played_) /\ Become(t, << >>) /\ cancelled' = cancelled
    BY <1>4 DEF StopCurrentSound, Return
  <2>2. Range(queue) \in SUBSET Sounds
    BY RangeFacts DEF Inv, QueueOK
  <2>3. /\ attr' \in [Sounds -> AttrType] /\ SoundTypes' /\ LifeKept
        /\ queue' \in Seq(Sounds) /\ Range(queue') = Range(queue) \ Range(queue)
        /\ IsInjective(queue')
        /\ last_played_' \in Range(queue') \union {None}
        /\ \A s \in Range(queue') : life'[s] = "live"
    BY <1>2, <2>1, <2>2, DeleteFacts DEF Inv, QueueOK
  <2>4. QueueOK'
    BY <1>2, <1>4, <2>3 DEF QueueOK
  <2>5. EntryTypes'
    BY <1>2, <2>1, <2>3 DEF Inv, EntryTypes
  <2>6. StreamTypes' /\ ListExact'
    BY <1>2, <2>3, SameStreams DEF Inv
  <2>7. << >> \in Seq(CallType) /\ \A d \in Range(<< >>) : NewCallOK(d)
    BY NoCall
  <2> QED BY <1>1, <1>2, <2>1, <2>3, <2>4, <2>5, <2>6, <2>7, StepInv
<1> QED BY <1>3, <1>4

\* Lemma: on_sound_done.
LEMMA OnSoundDoneInv ==
  ASSUME Inv, NEW t \in Threads, OnSoundDone(t)
  PROVE  Inv'
<1> DEFINE now == IF playing_ = None \/ left[playing_] = 0 THEN left
                  ELSE [left EXCEPT ![playing_] = @ - Top(t).n]
           gone == {e \in Range(queue) : cancelled[e]}
                     \union {e \in {playing_} \ {None} : left[e] # 0 /\ now[e] = 0}
           more == <<Call("maybe", None)>>
<1>1. StackTypes /\ stack[t] # << >> /\ Top(t) \in CallType
  BY InFacts DEF OnSoundDone, Inv
<1>2. /\ left' = [s \in Sounds |-> IF s \in gone THEN 0 ELSE now[s]]
      /\ cancelled' = [s \in Sounds |-> cancelled[s] /\ s \notin gone]
      /\ playing_' = None /\ Become(t, more)
      /\ DeleteEntries(t, gone, playing_)
      /\ UNCHANGED <<tag, strm, list, incb, rest>>
  BY DEF OnSoundDone, audio
<1>3. Range(queue) \subseteq Sounds /\ playing_ \in Sounds \union {None} /\ None \notin Sounds
  BY RangeFacts, SoundAssumption DEF Inv, QueueOK
<1>4. gone \in SUBSET Sounds
  BY <1>3
<1>5. now \in [Sounds -> Int]
  <2>1. Top(t).n \in Int
    BY <1>1 DEF CallType
  <2> QED BY <1>3, <2>1 DEF Inv, EntryTypes
<1> HIDE DEF now, gone
<1>6. /\ attr' \in [Sounds -> AttrType] /\ SoundTypes' /\ LifeKept
      /\ queue' \in Seq(Sounds) /\ IsInjective(queue') /\ Range(queue') \subseteq Range(queue)
      /\ last_played_' \in Range(queue') \union {None}
      /\ \A s \in Range(queue') : life'[s] = "live"
  BY <1>2, <1>4, DeleteFacts DEF Inv, QueueOK
<1>7. EntryTypes'
  BY <1>2, <1>5, <1>6 DEF EntryTypes
<1>8. QueueOK'
  BY <1>2, <1>6 DEF QueueOK
<1>9. StreamTypes' /\ ListExact'
  BY <1>2, <1>6, SameStreams DEF Inv
<1>10. /\ more \in Seq(CallType) /\ (t = "audio" => more \in Seq(AudioCall))
       /\ \A d \in Range(more) : NewCallOK(d)
  <2>1. Call("maybe", None) \in AudioCall /\ Call("maybe", None).op = "maybe"
    BY CallFacts DEF OnSound, AudioCall
  <2>2. Call("maybe", None) \in CallType
    BY <2>1 DEF AudioCall
  <2> QED BY <2>1, <2>2, OneCall DEF NewCallOK
<1> HIDE DEF more
<1> QED BY <1>1, <1>2, <1>6, <1>7, <1>8, <1>9, <1>10, StepInv

\* Lemma: maybe_start_sound.
LEMMA MaybeStartSoundInv ==
  ASSUME Inv, NEW t \in Threads, MaybeStartSound(t)
  PROVE  Inv'
<1>1. StackTypes /\ stack[t] # << >>
  BY InFacts DEF MaybeStartSound, Inv
<1>2. UNCHANGED <<tag, left, cancelled, strm, list, incb, rest>>
  BY DEF MaybeStartSound, audio
<1>3. CASE Return(t) /\ UNCHANGED <<life, attr, snd, qvars>>
  <2>1. << >> \in Seq(CallType) /\ << >> \in Seq(AudioCall) /\ \A d \in Range(<< >>) : NewCallOK(d)
    BY NoCall
  <2>2. EntryTypes' /\ SoundTypes' /\ QueueOK' /\ Range(queue') \subseteq Range(queue)
    BY <1>2, <1>3 DEF Inv, EntryTypes, SoundTypes, QueueOK, qvars
  <2>3. LifeKept
    BY <1>3, SameLife
  <2>4. StreamTypes' /\ ListExact'
    BY <1>2, <2>3, SameStreams DEF Inv
  <2> QED BY <1>1, <1>2, <1>3, <2>1, <2>2, <2>3, <2>4, StepInv DEF Return
<1>4. ASSUME NEW j \in DOMAIN queue,
             playing_' = queue[j], queue # << >>,
             IF attr[queue[j]].seq = "replace"
             THEN DeleteEntries(t, {queue[k] : k \in 1 .. j - 1}, last_played_)
             ELSE UNCHANGED <<life, attr, snd, queue, last_played_>>,
             NEW how \in Hows, Become(t, <<CallHow("start", queue[j], how)>>)
      PROVE  Inv'
  <2> DEFINE e == queue[j]
             gone == {queue[k] : k \in 1 .. j - 1}
             c == CallHow("start", e, how)
  <2>1. queue \in Seq(Sounds) /\ IsInjective(queue) /\ j \in 1 .. Len(queue) /\ Len(queue) \in Nat
    BY <1>4 DEF Inv, QueueOK
  <2>2. e \in Sounds /\ e \in Range(queue) /\ life[e] = "live"
    BY <2>1, RangeFacts DEF Inv, QueueOK
  <2>3. gone \in SUBSET Sounds /\ e \notin gone
    <3>1. \A k \in 1 .. j - 1 : k \in 1 .. Len(queue) /\ k # j
      BY <2>1
    <3>2. DOMAIN queue = 1 .. Len(queue) /\ \A k \in 1 .. Len(queue) : queue[k] \in Sounds
      BY <2>1
    <3> QED BY <2>1, <3>1, <3>2 DEF IsInjective
  <2>4. c \in AudioCall /\ c.op = "start" /\ c.s = e
    <3>1. c \in CallType /\ c.op = "start" /\ c.s = e
      BY <2>2, CallFacts DEF OnSound
    <3> QED BY <3>1 DEF AudioCall
  <2> HIDE DEF gone
  <2>5. /\ EntryTypes' /\ SoundTypes' /\ LifeKept
        /\ queue' \in Seq(Sounds) /\ Range(queue') \subseteq Range(queue) /\ e \in Range(queue')
        /\ IsInjective(queue')
        /\ last_played_' \in Range(queue') \union {None}
        /\ \A s \in Range(queue') : life'[s] = "live"
    <3>1. CASE attr[e].seq = "replace"
      <4>1. DeleteEntries(t, gone, last_played_)
        BY <1>4, <3>1 DEF gone
      <4>2. /\ attr' \in [Sounds -> AttrType] /\ SoundTypes' /\ LifeKept
            /\ queue' \in Seq(Sounds) /\ Range(queue') = Range(queue) \ gone
            /\ IsInjective(queue')
            /\ last_played_' \in Range(queue') \union {None}
            /\ \A s \in Range(queue') : life'[s] = "live"
        BY <1>2, <2>3, <4>1, DeleteFacts DEF Inv, QueueOK
      <4>3. EntryTypes'
        BY <1>2, <4>2 DEF Inv, EntryTypes
      <4> QED BY <2>2, <2>3, <4>2, <4>3
    <3>2. CASE attr[e].seq # "replace"
      <4>1. UNCHANGED <<life, attr, snd, queue, last_played_>>
        BY <1>4, <3>2
      <4>2. LifeKept
        BY <4>1, SameLife
      <4> QED BY <1>2, <2>2, <4>1, <4>2 DEF Inv, EntryTypes, SoundTypes, QueueOK
    <3> QED BY <3>1, <3>2
  <2>6. QueueOK'
    BY <1>4, <2>5 DEF QueueOK
  <2>7. StreamTypes' /\ ListExact'
    BY <1>2, <2>5, SameStreams DEF Inv
  <2>8. /\ <<c>> \in Seq(CallType) /\ <<c>> \in Seq(AudioCall)
        /\ \A d \in Range(<<c>>) : NewCallOK(d)
    <3>1. c \in CallType /\ life'[e] = "live"
      BY <2>4, <2>5 DEF AudioCall
    <3> HIDE DEF c, e
    <3>2. <<c>> \in Seq(CallType) /\ <<c>> \in Seq(AudioCall) /\ Range(<<c>>) = {c}
      BY <2>4, <3>1, OneCall
    <3> QED BY <2>4, <3>1, <3>2 DEF NewCallOK
  <2>9. Become(t, <<c>>)
    BY <1>4
  <2> HIDE DEF c
  <2> QED BY <1>1, <1>2, <2>5, <2>6, <2>7, <2>8, <2>9, StepInv
<1>5. CASE /\ playing_ = None /\ queue # << >>
           /\ \E i \in From, j \in DOMAIN queue :
                LET e == queue[j]
                    more == seq_mode \in {"loop", "random"} /\ Len(queue) > 1
                IN  /\ MayCome(i, j)
                    /\ playing_' = e
                    /\ seq_mode' = attr[e].seq
                    /\ IF attr[e].seq = "replace"
                       THEN DeleteEntries(t, {queue[k] : k \in 1 .. j - 1}, last_played_)
                       ELSE UNCHANGED <<life, attr, snd, queue, last_played_>>
                    /\ Become(t, <<CallHow("start", e, IF more THEN "fade" ELSE "halt")>>)
  <2>1. PICK i \in From, j \in DOMAIN queue :
          /\ playing_' = queue[j]
          /\ IF attr[queue[j]].seq = "replace"
             THEN DeleteEntries(t, {queue[k] : k \in 1 .. j - 1}, last_played_)
             ELSE UNCHANGED <<life, attr, snd, queue, last_played_>>
          /\ Become(t, <<CallHow("start", queue[j],
                                 IF seq_mode \in {"loop", "random"} /\ Len(queue) > 1
                                 THEN "fade" ELSE "halt")>>)
    BY <1>5
  <2>2. "fade" \in Hows /\ "halt" \in Hows
    BY DEF Hows
  <2> QED BY <1>4, <1>5, <2>1, <2>2
<1> QED BY <1>3, <1>5 DEF MaybeStartSound

\* Lemma: what play leaves of a stream.
LEMMA PlayFacts ==
  ASSUME NEW st \in StreamType, NEW n \in Int, NEW fade
  PROVE  Play(st, n, fade) \in StreamType /\ Play(st, n, fade).playing
<1> DEFINE fading == IF fade THEN "in" ELSE IF st.fading = "in" THEN "no" ELSE st.fading
<1>1. fading \in Fading
  BY DEF Fading, StreamType
<1>2. Play(st, n, fade) =
        IF st.playing THEN st
        ELSE [st EXCEPT !.playing = TRUE, !.iter = 0, !.wanted = n, !.fading = fading]
  BY DEF Play
<1> HIDE DEF fading
<1>3. CASE st.playing
  BY <1>2, <1>3
<1>4. CASE ~st.playing
  <2> DEFINE r == [st EXCEPT !.playing = TRUE, !.iter = 0, !.wanted = n, !.fading = fading]
             a == [st EXCEPT !.playing = TRUE]
             b == [a EXCEPT !.iter = 0]
             c == [b EXCEPT !.wanted = n]
  <2>1. a \in StreamType /\ a.playing
    BY DEF StreamType
  <2>2. r = [c EXCEPT !.fading = fading]
    OBVIOUS
  <2>3. Play(st, n, fade) = r
    BY <1>2, <1>4
  <2> HIDE DEF r, a
  <2>4. b \in StreamType /\ b.playing
    BY <2>1 DEF StreamType
  <2> HIDE DEF b
  <2>5. c \in StreamType /\ c.playing
    BY <2>4 DEF StreamType
  <2> HIDE DEF c
  <2>6. r \in StreamType /\ r.playing
    BY <1>1, <2>2, <2>5 DEF StreamType
  <2> QED BY <2>3, <2>6
<1> QED BY <1>3, <1>4

\* Lemma: startPlaying.
LEMMA StartPlayingInv ==
  ASSUME Inv, NEW t \in Threads, StartPlaying(t)
  PROVE  Inv'
<1> DEFINE e == Top(t).s
           repeat == IF attr[e].seq \in {"default", "replace"} /\ ~attr[e].rnd THEN left[e] ELSE 1
           fade_in == attr[e].fadein /\ left[e] = attr[e].repeat
           fade_out == attr[e].fadeout /\ repeat = left[e] /\ repeat # 0 /\ Top(t).how = "halt"
           timer == IF fade_out /\ repeat = 1 THEN "on" ELSE snd[e].timer
           new == [fPlaying |-> TRUE, fRepeats |-> 1, fCrossFade |-> attr[e].xout, done |-> TRUE,
                   timer |-> timer]
<1>1. /\ StackTypes /\ stack[t] # << >> /\ Top(t) \in CallType /\ Top(t).op = "start"
      /\ Top(t) \in Range(stack[t])
  BY InFacts DEF StartPlaying, Inv
<1>2. e \in Sounds /\ life[e] # "none"
  BY <1>1 DEF CallType, OnSound, CallsOK, CallOK, Inv
<1>3. UNCHANGED <<life, tag, attr, left, queue, playing_, last_played_, incb, rest>>
  BY DEF StartPlaying, qvars
<1>4. LifeKept /\ QueueOK' /\ Range(queue') \subseteq Range(queue)
  BY <1>3, SameLife DEF Inv, QueueOK
<1>5. CASE enabled
  <2>1. /\ strm' = [strm EXCEPT ![e] = Play(strm[e], repeat, fade_in)]
        /\ list' = IF strm[e].playing THEN list ELSE Append(list, e)
        /\ snd' = [snd EXCEPT ![e] = new]
        /\ cancelled' = cancelled /\ Become(t, << >>)
    BY <1>5 DEF StartPlaying, Return
  <2>2. EntryTypes'
    BY <1>3, <2>1 DEF Inv, EntryTypes
  <2>3. SoundTypes'
    <3>1. attr[e].xout \in BOOLEAN
      BY <1>2 DEF Inv, EntryTypes, AttrType
    <3>2. timer \in {"on", "off"}
      BY <1>2 DEF Inv, SoundTypes, SndType
    <3> HIDE DEF timer
    <3>3. new \in SndType
      BY <3>1, <3>2 DEF SndType
    <3> HIDE DEF new
    <3> QED BY <1>2, <1>3, <2>1, <3>3 DEF Inv, SoundTypes
  <2>4. Play(strm[e], repeat, fade_in) \in StreamType /\ Play(strm[e], repeat, fade_in).playing
    <3>1. repeat \in Int /\ strm[e] \in StreamType
      BY <1>2 DEF Inv, EntryTypes, StreamTypes
    <3> HIDE DEF repeat, fade_in
    <3> QED BY <3>1, PlayFacts
  <2> HIDE DEF repeat, fade_in, new
  <2>5. strm' \in [Sounds -> StreamType] /\ \A s \in Sounds : strm'[s].playing <=> s = e \/ strm[s].playing
    BY <1>2, <2>1, <2>4 DEF Inv, StreamTypes
  <2>6. /\ list \in Seq(Sounds) /\ IsInjective(list) /\ Range(list) = {s \in Sounds : strm[s].playing}
    BY DEF Inv, StreamTypes, ListExact
  <2>7. list' \in Seq(Sounds) /\ IsInjective(list') /\ Range(list') = Range(list) \union {e}
    <3>1. CASE strm[e].playing
      BY <1>2, <2>1, <2>6, <3>1
    <3>2. CASE ~strm[e].playing
      BY <1>2, <2>1, <2>6, <3>2, AppendFacts
    <3> QED BY <3>1, <3>2
  <2>8. StreamTypes' /\ ListExact'
    <3>1. Range(list') = {s \in Sounds : strm'[s].playing}
      BY <1>2, <2>5, <2>6, <2>7
    <3>2. \A s \in Range(list') \union Range(rest') : life'[s] # "none"
      BY <1>2, <1>3, <2>7 DEF Inv, ListExact
    <3> QED BY <1>3, <2>5, <2>7, <3>1, <3>2 DEF Inv, StreamTypes, ListExact
  <2>9. << >> \in Seq(CallType) /\ << >> \in Seq(AudioCall) /\ \A d \in Range(<< >>) : NewCallOK(d)
    BY NoCall
  <2> QED BY <1>1, <1>3, <1>4, <2>1, <2>2, <2>3, <2>8, <2>9, StepInv
<1>6. CASE ~enabled
  <2>1. /\ cancelled' = [cancelled EXCEPT ![e] = TRUE]
        /\ Become(t, <<DoneCall(e, 0)>>)
        /\ UNCHANGED <<strm, list, snd>>
    BY <1>6 DEF StartPlaying
  <2>2. EntryTypes' /\ SoundTypes'
    BY <1>2, <1>3, <2>1 DEF Inv, EntryTypes, SoundTypes
  <2>3. StreamTypes' /\ ListExact'
    BY <1>3, <1>4, <2>1, SameStreams DEF Inv
  <2>4. DoneCall(e, 0) \in AudioCall /\ DoneCall(e, 0).op = "done"
    BY <1>2, DoneCallFacts
  <2>5. DoneCall(e, 0) \in CallType
    BY <2>4 DEF AudioCall
  <2>6. /\ <<DoneCall(e, 0)>> \in Seq(CallType) /\ <<DoneCall(e, 0)>> \in Seq(AudioCall)
        /\ \A d \in Range(<<DoneCall(e, 0)>>) : NewCallOK(d)
    BY <2>4, <2>5, OneCall DEF NewCallOK
  <2> QED BY <1>1, <1>3, <1>4, <2>1, <2>2, <2>3, <2>6, StepInv
<1> QED BY <1>5, <1>6

\* Lemma: a step that does not touch the queue, the sounds or the streams, but
\* perhaps calls the queue back.
LEMMA OnlyCalls ==
  ASSUME Inv, NEW t \in Threads, stack[t] # << >>, NEW more \in Seq(CallType),
         t = "audio" => more \in Seq(AudioCall), Become(t, more),
         \A c \in Range(more) : c.op \in {"done", "stop"},
         UNCHANGED <<life, tag, entries, qvars, audio>>, SoundTypes'
  PROVE  Inv'
<1>1. EntryTypes' /\ QueueOK' /\ Range(queue') \subseteq Range(queue)
  BY DEF Inv, EntryTypes, QueueOK, entries, qvars
<1>2. LifeKept
  BY SameLife
<1>3. StreamTypes' /\ ListExact'
  BY <1>2, SameStreams DEF Inv, audio
<1>4. \A c \in Range(more) : NewCallOK(c)
  BY DEF NewCallOK
<1> QED BY <1>1, <1>2, <1>3, <1>4, StepInv DEF audio

\* Lemma: the calls of stop.
LEMMA StopCall ==
  ASSUME NEW s \in Sounds, NEW how \in Hows \union {"cut"}
  PROVE  LET c == CallHow("stop", s, how)
         IN  /\ <<c>> \in Seq(CallType) /\ Range(<<c>>) = {c} /\ c.op = "stop"
<1> DEFINE c == CallHow("stop", s, how)
<1>1. c \in CallType /\ c.op = "stop"
  BY CallFacts DEF OnSound
<1> HIDE DEF c
<1>2. <<c>> \in Seq(CallType) /\ Range(<<c>>) = {c} /\ c.op = "stop"
  BY <1>1, OneCall
<1> QED BY <1>2 DEF c

\* Lemma: the beginning of cancelPlaying.
LEMMA CancelPlayingCalls ==
  ASSUME Inv, NEW t \in Threads, CancelPlaying(t)
  PROVE  /\ stack[t] # << >> /\ t # "audio" /\ Top(t).op # "stopcur"
         /\ \E more \in Seq(CallType) :
              Become(t, more) /\ \A c \in Range(more) : c.op \in {"done", "stop"}
<1> DEFINE s == Top(t).s
<1>1. /\ StackTypes /\ stack[t] # << >> /\ Top(t) \in CallType /\ Top(t).op = "cancel"
      /\ t # "audio"
  BY InFacts DEF CancelPlaying, Inv
<1>2. s \in Sounds /\ Top(t).how \in Hows \union {"cut"}
  BY <1>1 DEF CallType, OnSound
<1>3. CASE ~snd[s].fPlaying
  <2>1. Become(t, << >>)
    BY <1>3 DEF CancelPlaying, Return
  <2>2. << >> \in Seq(CallType) /\ \A c \in Range(<< >>) : c.op \in {"done", "stop"}
    BY NoCall
  <2> QED BY <1>1, <2>1, <2>2
<1>4. CASE snd[s].fPlaying /\ Top(t).how = "crossfade"
  <2> DEFINE then == <<CallHow("stop", s, "crossfade")>>
  <2>1. CallDone(t, s, then)
    BY <1>4 DEF CancelPlaying
  <2>2. then \in Seq(CallType) /\ \A c \in Range(then) : c.op = "stop"
    BY <1>2, StopCall DEF Hows
  <2> HIDE DEF then
  <2>3. PICK more \in Seq(CallType) :
          /\ Become(t, more)
          /\ \A c \in Range(more) : c.op = "done" \/ c \in Range(then)
    BY <1>1, <1>2, <2>1, <2>2, CallDoneFacts DEF Inv
  <2>4. \A c \in Range(more) : c.op \in {"done", "stop"}
    BY <2>2, <2>3
  <2> QED BY <1>1, <2>3, <2>4
<1>5. CASE snd[s].fPlaying /\ Top(t).how # "crossfade"
  <2> DEFINE more == <<CallHow("stop", s, Top(t).how)>>
  <2>1. Become(t, more)
    BY <1>5 DEF CancelPlaying
  <2>2. more \in Seq(CallType) /\ \A c \in Range(more) : c.op = "stop"
    BY <1>2, StopCall
  <2> HIDE DEF more
  <2> QED BY <1>1, <2>1, <2>2
<1> QED BY <1>3, <1>4, <1>5

\* Lemma: it leaves the rest alone.
LEMMA CancelPlayingInv ==
  ASSUME Inv, NEW t \in Threads, CancelPlaying(t)
  PROVE  Inv'
<1>1. UNCHANGED <<life, tag, entries, qvars, snd, audio>> /\ SoundTypes'
  BY DEF CancelPlaying, Inv, SoundTypes
<1>2. PICK more \in Seq(CallType) :
        Become(t, more) /\ \A c \in Range(more) : c.op \in {"done", "stop"}
  BY CancelPlayingCalls
<1> QED BY <1>1, <1>2, CancelPlayingCalls, OnlyCalls

\* Lemma: the beginning of fDoFadeOut.
LEMMA DoFadeOutCalls ==
  ASSUME Inv, NEW t \in Threads, DoFadeOut(t)
  PROVE  /\ stack[t] # << >> /\ t # "audio" /\ Top(t).op # "stopcur"
         /\ \E more \in Seq(CallType) :
              Become(t, more) /\ \A c \in Range(more) : c.op \in {"done", "stop"}
<1> DEFINE s == Top(t).s
<1>1. /\ StackTypes /\ stack[t] # << >> /\ Top(t) \in CallType /\ Top(t).op = "fadeout"
      /\ t # "audio"
  BY InFacts DEF DoFadeOut, Inv
<1>2. s \in Sounds
  BY <1>1 DEF CallType, OnSound
<1>3. PICK how \in {"crossfade", "cut"} :
        IF snd[s].fCrossFade
        THEN CallDone(t, s, <<CallHow("stop", s, how)>>)
        ELSE Become(t, <<CallHow("stop", s, "fade")>>)
  BY DEF DoFadeOut
<1>4. CASE snd[s].fCrossFade
  <2> DEFINE then == <<CallHow("stop", s, how)>>
  <2>1. CallDone(t, s, then)
    BY <1>3, <1>4
  <2>2. then \in Seq(CallType) /\ \A c \in Range(then) : c.op = "stop"
    BY <1>2, StopCall DEF Hows
  <2> HIDE DEF then
  <2>3. PICK more \in Seq(CallType) :
          /\ Become(t, more)
          /\ \A c \in Range(more) : c.op = "done" \/ c \in Range(then)
    BY <1>1, <1>2, <2>1, <2>2, CallDoneFacts DEF Inv
  <2>4. \A c \in Range(more) : c.op \in {"done", "stop"}
    BY <2>2, <2>3
  <2> QED BY <1>1, <2>3, <2>4
<1>5. CASE ~snd[s].fCrossFade
  <2> DEFINE more == <<CallHow("stop", s, "fade")>>
  <2>1. Become(t, more)
    BY <1>3, <1>5
  <2>2. more \in Seq(CallType) /\ \A c \in Range(more) : c.op = "stop"
    BY <1>2, StopCall DEF Hows
  <2> HIDE DEF more
  <2> QED BY <1>1, <2>1, <2>2
<1> QED BY <1>4, <1>5

\* Lemma: it leaves the rest alone.
LEMMA DoFadeOutInv ==
  ASSUME Inv, NEW t \in Threads, DoFadeOut(t)
  PROVE  Inv'
<1>1. UNCHANGED <<life, tag, entries, qvars, snd, audio>> /\ SoundTypes'
  BY DEF DoFadeOut, Inv, SoundTypes
<1>2. PICK more \in Seq(CallType) :
        Become(t, more) /\ \A c \in Range(more) : c.op \in {"done", "stop"}
  BY DoFadeOutCalls
<1> QED BY <1>1, <1>2, DoFadeOutCalls, OnlyCalls

\* Lemma: what stop leaves of a stream, at once and with a fade.
LEMMA StopFacts ==
  ASSUME NEW st \in StreamType
  PROVE  /\ Stop(st) \in StreamType /\ ~Stop(st).playing
         /\ StopFading(st) \in StreamType /\ StopFading(st).playing = st.playing
<1>1. Stop(st) \in StreamType /\ ~Stop(st).playing
  BY DEF Stop, StreamType
<1>2. StopFading(st) \in StreamType /\ StopFading(st).playing = st.playing
  BY DEF StopFading, StreamType, Fading
<1> QED BY <1>1, <1>2

\* Lemma: a stream that has stopped is taken out of the list.
LEMMA TakenOut ==
  ASSUME StreamTypes, ListExact, LifeKept, NEW s \in Sounds,
         strm' \in [Sounds -> StreamType], ~strm'[s].playing,
         \A x \in Sounds : x # s => strm'[x].playing = strm[x].playing,
         list' = Without(list, {s}),
         rest' \in Seq(Sounds), Range(rest') \subseteq Range(rest)
  PROVE  StreamTypes' /\ ListExact'
<1>1. /\ list' \in Seq(Sounds) /\ Range(list') = Range(list) \ {s} /\ IsInjective(list')
  BY WithoutFacts DEF StreamTypes, ListExact
<1>2. Range(list') = {x \in Sounds : strm'[x].playing}
  BY <1>1 DEF ListExact
<1>3. \A x \in Range(list') \union Range(rest') : life'[x] # "none"
  <2>1. Range(list) \subseteq Sounds /\ Range(rest) \subseteq Sounds
    BY RangeFacts DEF StreamTypes
  <2> QED BY <1>1, <2>1 DEF ListExact, LifeKept
<1> QED BY <1>1, <1>2, <1>3 DEF StreamTypes, ListExact

\* Lemma: the streams that play are the same.
LEMMA SamePlaying ==
  ASSUME StreamTypes, ListExact, LifeKept,
         strm' \in [Sounds -> StreamType],
         \A x \in Sounds : strm'[x].playing = strm[x].playing,
         list' = list, rest' \in Seq(Sounds), Range(rest') \subseteq Range(rest)
  PROVE  StreamTypes' /\ ListExact'
<1>1. Range(list') = {x \in Sounds : strm'[x].playing}
  BY DEF ListExact
<1>2. \A x \in Range(list') \union Range(rest') : life'[x] # "none"
  <2>1. Range(list) \subseteq Sounds /\ Range(rest) \subseteq Sounds
    BY RangeFacts DEF StreamTypes
  <2> QED BY <2>1 DEF ListExact, LifeKept
<1> QED BY <1>1, <1>2 DEF StreamTypes, ListExact

\* Lemma: the end of cancelPlaying and of fDoFadeOut.
LEMMA StopStreamInv ==
  ASSUME Inv, NEW t \in Threads, StopStream(t)
  PROVE  Inv'
<1> DEFINE s == Top(t).s
           how == Top(t).how
           fade == how \in {"fade", "crossfade"}
           keeps == snd[s].done /\ KeepsDone(how)
           new == IF fade THEN StopFading(strm[s]) ELSE Stop(strm[s])
<1>1. /\ StackTypes /\ stack[t] # << >> /\ Top(t) \in CallType /\ Top(t).op = "stop"
      /\ t # "audio"
  BY InFacts DEF StopStream, Inv
<1>2. s \in Sounds
  BY <1>1 DEF CallType, OnSound
<1>3. /\ snd' = [snd EXCEPT ![s].done = keeps]
      /\ strm' = [strm EXCEPT ![s] = new]
      /\ list' = IF fade THEN list ELSE Without(list, {s})
      /\ UNCHANGED <<life, tag, entries, qvars, incb, rest>>
  BY DEF StopStream
<1>4. PICK more \in {<< >>, <<Call("finish", s)>>} : Become(t, more)
  BY DEF StopStream
<1>5. more \in Seq(CallType) /\ \A c \in Range(more) : NewCallOK(c)
  <2>1. Call("finish", s) \in CallType /\ Call("finish", s).op = "finish"
    BY <1>2, CallFacts DEF OnSound
  <2>2. CASE more = << >>
    BY <2>2, NoCall
  <2>3. CASE more = <<Call("finish", s)>>
    <3>1. more \in Seq(CallType) /\ Range(more) = {Call("finish", s)}
      BY <2>1, <2>3, OneCall
    <3> QED BY <2>1, <3>1 DEF NewCallOK
  <2> QED BY <1>4, <2>2, <2>3
<1>6. SoundTypes'
  <2>1. keeps \in BOOLEAN /\ snd[s] \in SndType
    BY <1>2 DEF Inv, SoundTypes, SndType
  <2> HIDE DEF keeps
  <2>2. [snd[s] EXCEPT !.done = keeps] \in SndType
    BY <2>1 DEF SndType
  <2>3. snd' = [snd EXCEPT ![s] = [snd[s] EXCEPT !.done = keeps]]
    BY <1>2, <1>3 DEF Inv, SoundTypes
  <2> QED BY <1>2, <1>3, <2>2, <2>3 DEF Inv, SoundTypes
<1>7. EntryTypes' /\ QueueOK' /\ Range(queue') \subseteq Range(queue)
  BY <1>3 DEF Inv, EntryTypes, QueueOK, entries, qvars
<1>8. LifeKept /\ tag' = tag /\ incb' = incb /\ rest' = rest
  BY <1>3, SameLife
<1>9. StreamTypes' /\ ListExact'
  <2>1. strm[s] \in StreamType /\ rest' \in Seq(Sounds) /\ Range(rest') \subseteq Range(rest)
    BY <1>2, <1>8 DEF Inv, StreamTypes
  <2>2. /\ Stop(strm[s]) \in StreamType /\ ~Stop(strm[s]).playing
        /\ StopFading(strm[s]) \in StreamType /\ StopFading(strm[s]).playing = strm[s].playing
    BY <2>1, StopFacts
  <2>3. CASE fade
    <3>1. /\ strm' \in [Sounds -> StreamType] /\ list' = list
          /\ \A x \in Sounds : strm'[x].playing = strm[x].playing
      BY <1>2, <1>3, <2>2, <2>3 DEF Inv, StreamTypes
    <3> QED BY <1>8, <2>1, <3>1, SamePlaying DEF Inv
  <2>4. CASE ~fade
    <3>1. /\ strm' \in [Sounds -> StreamType] /\ list' = Without(list, {s})
          /\ ~strm'[s].playing /\ \A x \in Sounds : x # s => strm'[x].playing = strm[x].playing
      BY <1>2, <1>3, <2>2, <2>4 DEF Inv, StreamTypes
    <3> QED BY <1>2, <1>8, <2>1, <3>1, TakenOut DEF Inv
  <2> QED BY <2>3, <2>4
<1> QED BY <1>1, <1>4, <1>5, <1>6, <1>7, <1>8, <1>9, StepInv

\* Lemma: fFinishCallback.
LEMMA FinishCallbackInv ==
  ASSUME Inv, NEW t \in Threads, FinishCallback(t)
  PROVE  Inv'
<1> DEFINE s == Top(t).s
<1>1. /\ StackTypes /\ stack[t] # << >> /\ Top(t) \in CallType /\ Top(t).op = "finish"
  BY InFacts DEF FinishCallback, Inv
<1>2. s \in Sounds
  BY <1>1 DEF CallType, OnSound
<1>3. /\ snd' = [snd EXCEPT ![s].fPlaying = FALSE]
      /\ CallDone(t, s, << >>)
      /\ UNCHANGED <<life, tag, entries, qvars, audio>>
  BY DEF FinishCallback
<1>4. << >> \in Seq(CallType) /\ << >> \in Seq(AudioCall) /\ Range(<< >>) = {}
  BY NoCall
<1>5. PICK more \in Seq(CallType) :
        /\ t = "audio" => more \in Seq(AudioCall)
        /\ Become(t, more)
        /\ \A c \in Range(more) : c.op = "done" \/ c \in Range(<< >>)
  BY <1>2, <1>3, <1>4, CallDoneFacts DEF Inv
<1>6. SoundTypes'
  <2>1. snd[s] \in SndType
    BY <1>2 DEF Inv, SoundTypes
  <2>2. [snd[s] EXCEPT !.fPlaying = FALSE] \in SndType
    BY <2>1 DEF SndType
  <2>3. snd' = [snd EXCEPT ![s] = [snd[s] EXCEPT !.fPlaying = FALSE]]
    BY <1>2, <1>3 DEF Inv, SoundTypes
  <2> QED BY <1>2, <1>3, <2>2, <2>3 DEF Inv, SoundTypes
<1>7. \A c \in Range(more) : c.op \in {"done", "stop"}
  BY <1>4, <1>5
<1> QED BY <1>1, <1>3, <1>5, <1>6, <1>7, OnlyCalls

\* Lemma: obsolete_prev_sounds.
LEMMA ObsoletePrevSoundsInv ==
  ASSUME Inv, NEW t \in Threads, ObsoletePrevSounds(t)
  PROVE  Inv'
<1> DEFINE gone == {s \in Sounds : tag[s] /\ s # Top(t).s}
<1>1. /\ StackTypes /\ stack[t] # << >> /\ Top(t) \in CallType /\ Top(t).op = "obsolete"
      /\ Top(t) \in Range(stack[t]) /\ t # "audio"
  BY InFacts DEF ObsoletePrevSounds, Inv
<1>2. /\ tag' = [s \in Sounds |-> tag[s] /\ s \notin gone]
      /\ life' = [s \in Sounds |-> IF s \in gone \ Range(queue) THEN "dead" ELSE life[s]]
      /\ snd' = [s \in Sounds |-> IF s \in gone \ Range(queue) THEN Silent ELSE snd[s]]
      /\ Become(t, << >>)
      /\ UNCHANGED <<entries, qvars, audio>>
  BY DEF ObsoletePrevSounds, Return
<1>3. << >> \in Seq(CallType) /\ Range(<< >>) = {}
  BY NoCall
<1>4. ASSUME NEW u \in Threads, NEW c \in Range(stack[u]), c.op = "add"
      PROVE  tag'[c.s] /\ life'[c.s] = "live"
  <2>1. c \in CallType /\ c.s \in Sounds
    <3>1. c \in CallType
      BY <1>1, RangeFacts DEF StackTypes
    <3> QED BY <1>4, <3>1 DEF CallType, OnSound
  <2>2. u = t
    <3>1. u = "audio" => c \in AudioCall
      BY <1>1, RangeFacts DEF StackTypes
    <3> QED BY <1>1, <1>4, <3>1 DEF Threads, AudioCall
  <2>3. tag[c.s] /\ life[c.s] = "live" /\ Top(t).s = c.s
    BY <1>1, <1>4, <2>2 DEF Inv, CallsOK, CallOK
  <2> QED BY <1>2, <2>1, <2>3
<1>5. \A s \in Sounds : life[s] # "none" => life'[s] # "none"
  BY <1>2
<1>6. UNCHANGED <<attr, left, cancelled, queue, playing_, last_played_, strm, list, incb, rest>>
  BY <1>2 DEF entries, qvars, audio
<1>7. StackTypes' /\ CallsOK' /\ CallbackOver'
  BY <1>1, <1>2, <1>3, <1>4, <1>5, <1>6, CallStepOK DEF Inv
<1>8. SoundTypes'
  <2>1. Silent \in SndType
    BY DEF Silent, SndType
  <2> QED BY <1>2, <2>1 DEF Inv, SoundTypes
<1>9. QueueOK'
  <2>1. Range(queue) \subseteq Sounds
    BY RangeFacts DEF Inv, QueueOK
  <2> QED BY <1>2, <1>6, <2>1 DEF Inv, QueueOK
<1>10. ListExact'
  <2>1. Range(list) \subseteq Sounds /\ Range(rest) \subseteq Sounds
    BY RangeFacts DEF Inv, StreamTypes
  <2> QED BY <1>5, <1>6, <2>1 DEF Inv, ListExact
<1> QED BY <1>6, <1>7, <1>8, <1>9, <1>10 DEF Inv, EntryTypes, StreamTypes

\* Lemma: a step of an operation.
LEMMA CallStepInv ==
  ASSUME Inv, NEW t \in Threads, CallStep(t)
  PROVE  Inv'
<1>1. CASE AddSound(t) \/ StopCurrentSound(t) \/ OnSoundDone(t)
  BY <1>1, AddSoundInv, StopCurrentSoundInv, OnSoundDoneInv
<1>2. CASE MaybeStartSound(t) \/ StartPlaying(t) \/ CancelPlaying(t)
  BY <1>2, MaybeStartSoundInv, StartPlayingInv, CancelPlayingInv
<1>3. CASE DoFadeOut(t) \/ StopStream(t)
  BY <1>3, DoFadeOutInv, StopStreamInv
<1>4. CASE FinishCallback(t) \/ ObsoletePrevSounds(t)
  BY <1>4, FinishCallbackInv, ObsoletePrevSoundsInv
<1> QED BY <1>1, <1>2, <1>3, <1>4 DEF CallStep

-----------------------------------------------------------------------------
\* What starts the operations.

\* Lemma: what Begin leaves.
LEMMA BeginFacts ==
  ASSUME StackTypes, NEW calling \in Seq(CallType), Begin(calling)
  PROVE  /\ StackTypes' /\ stack["gui"] = << >> /\ (Overlap \/ ~incb)
         /\ stack'["gui"] = calling /\ stack'["audio"] = stack["audio"]
<1>1. stack' = [stack EXCEPT !["gui"] = calling] /\ stack["gui"] = << >> /\ (Overlap \/ ~incb)
  BY DEF Begin, GuiIdle
<1> QED BY <1>1 DEF StackTypes, Threads

\* Lemma: an operation that begins with calls that are not about one sound.
LEMMA BeginInv ==
  ASSUME Inv, NEW calling \in Seq(CallType), Begin(calling),
         \A i \in 1 .. Len(calling) : calling[i].op \notin {"add", "start"},
         UNCHANGED <<life, tag, entries, qvars, audio>>, SoundTypes'
  PROVE  Inv'
<1>1. /\ StackTypes' /\ stack'["gui"] = calling /\ stack'["audio"] = stack["audio"]
  BY BeginFacts DEF Inv
<1>2. UNCHANGED <<attr, left, cancelled, queue, playing_, last_played_, strm, list, incb, rest>>
  BY DEF entries, qvars, audio
<1>3. CallsOK'
  <2>1. AddLast(stack'["gui"]) /\ \A c \in Range(stack'["gui"]) : CallOK(stack["gui"], c)'
    BY <1>1, RangeFacts DEF AddLast, CallOK
  <2>2. AddLast(stack'["audio"]) /\ \A c \in Range(stack'["audio"]) : CallOK(stack["audio"], c)'
    BY <1>1, <1>2 DEF Inv, CallsOK, CallOK, Threads
  <2> QED BY <2>1, <2>2 DEF CallsOK, Threads
<1>4. LifeKept
  BY SameLife
<1>5. StreamTypes' /\ ListExact'
  BY <1>2, <1>4, SameStreams DEF Inv
<1> QED BY <1>1, <1>2, <1>3, <1>5 DEF Inv, EntryTypes, QueueOK, CallbackOver

\* Lemma: the calls with which the operations begin.
LEMMA FirstCalls ==
  ASSUME NEW how \in Hows, NEW s \in Sounds \union {None}
  PROVE  LET c == CallHow("stopcur", None, how) IN
         LET d == Call("obsolete", s) IN
         /\ c \in CallType /\ c.op = "stopcur"
         /\ d \in CallType /\ d.op = "obsolete" /\ d.s = s
         /\ Call("stopcur", None) \in CallType /\ Call("stopcur", None).op = "stopcur"
         /\ Call("maybe", None) \in CallType /\ Call("maybe", None).op = "maybe"
<1>1. /\ \A op \in {"stopcur", "maybe", "obsolete"} :
           op \notin OnSound /\ op \in OnSound \union {"stopcur", "done", "maybe", "obsolete"}
      /\ None \in Sounds \union {None} /\ how \in Hows \union {"cut"}
  BY DEF OnSound
<1>2. ASSUME NEW op \in {"stopcur", "maybe", "obsolete"}, NEW x \in Sounds \union {None}
      PROVE  /\ Call(op, x) \in CallType /\ Call(op, x).op = op /\ Call(op, x).s = x
             /\ CallHow(op, x, how) \in CallType /\ CallHow(op, x, how).op = op
  BY <1>1, CallFacts
<1>3. /\ CallHow("stopcur", None, how) \in CallType /\ CallHow("stopcur", None, how).op = "stopcur"
      /\ Call("stopcur", None) \in CallType /\ Call("stopcur", None).op = "stopcur"
  BY <1>1, <1>2
<1>4. /\ Call("obsolete", s) \in CallType /\ Call("obsolete", s).op = "obsolete"
      /\ Call("obsolete", s).s = s
  BY <1>2
<1>5. Call("maybe", None) \in CallType /\ Call("maybe", None).op = "maybe"
  BY <1>1, <1>2
<1> QED BY <1>3, <1>4, <1>5

\* Lemma: two calls.
LEMMA TwoCalls ==
  ASSUME NEW S, NEW c \in S, NEW d \in S
  PROVE  /\ <<c, d>> \in Seq(S) /\ Len(<<c, d>>) = 2 /\ <<c, d>>[1] = c /\ <<c, d>>[2] = d
         /\ \A i \in 1 .. Len(<<c, d>>) : <<c, d>>[i] = c \/ <<c, d>>[i] = d
<1>1. <<c, d>> \in Seq(S) /\ Len(<<c, d>>) = 2 /\ <<c, d>>[1] = c /\ <<c, d>>[2] = d
  OBVIOUS
<1>2. \A i \in 1 .. 2 : i = 1 \/ i = 2
  OBVIOUS
<1> QED BY <1>1, <1>2

\* Lemma: <SOUND CANCEL>, and a new page.
LEMMA CancelInv ==
  ASSUME Inv, StartNewPage \/ \E how \in Hows : FormatCancel(how)
  PROVE  Inv'
<1>1. UNCHANGED <<life, tag, entries, qvars, snd, audio>>
  BY DEF StartNewPage, FormatCancel
<1>2. SoundTypes'
  BY <1>1 DEF Inv, SoundTypes
<1>3. ASSUME NEW how \in Hows, FormatCancel(how) PROVE Inv'
  <2> DEFINE c == CallHow("stopcur", None, how)
             d == Call("obsolete", None)
  <2>1. Begin(<<c, d>>)
    BY <1>3 DEF FormatCancel
  <2>2. c \in CallType /\ c.op = "stopcur" /\ d \in CallType /\ d.op = "obsolete"
    BY FirstCalls
  <2> HIDE DEF c, d
  <2>3. <<c, d>> \in Seq(CallType)
        /\ \A i \in 1 .. Len(<<c, d>>) : <<c, d>>[i].op \notin {"add", "start"}
    BY <2>2, TwoCalls
  <2> QED BY <1>1, <1>2, <2>1, <2>3, BeginInv
<1>4. CASE StartNewPage
  <2> DEFINE c == Call("obsolete", None)
             d == Call("stopcur", None)
  <2>1. Begin(<<c, d>>)
    BY <1>4 DEF StartNewPage
  <2>2. c \in CallType /\ c.op = "obsolete" /\ d \in CallType /\ d.op = "stopcur"
    BY FirstCalls DEF Hows
  <2> HIDE DEF c, d
  <2>3. <<c, d>> \in Seq(CallType)
        /\ \A i \in 1 .. Len(<<c, d>>) : <<c, d>>[i].op \notin {"add", "start"}
    BY <2>2, TwoCalls
  <2> QED BY <1>1, <1>2, <2>1, <2>3, BeginInv
<1> QED BY <1>3, <1>4

\* Lemma: one call is not one that begins with a sound.
LEMMA OneFirst ==
  ASSUME NEW c \in CallType, c.op \notin {"add", "start"}
  PROVE  /\ <<c>> \in Seq(CallType) /\ << >> \in Seq(CallType)
         /\ \A i \in 1 .. Len(<<c>>) : <<c>>[i].op \notin {"add", "start"}
         /\ \A i \in 1 .. Len(<< >>) : << >>[i].op \notin {"add", "start"}
<1>1. <<c>> \in Seq(CallType) /\ Len(<<c>>) = 1 /\ <<c>>[1] = c
  OBVIOUS
<1>2. << >> \in Seq(CallType) /\ Len(<< >>) = 0
  OBVIOUS
<1>3. \A i \in 1 .. 1 : i = 1
  OBVIOUS
<1>4. \A i \in 1 .. 0 : FALSE
  OBVIOUS
<1> QED BY <1>1, <1>2, <1>3, <1>4

\* Lemma: notifyPreferencesChange, the queue's timer and the fade-out timer.
LEMMA TimersInv ==
  ASSUME Inv, NotifyPreferencesChange \/ OnTimer \/ \E s \in Sounds : FadeOutTimer(s)
  PROVE  Inv'
<1>1. CASE NotifyPreferencesChange
  <2> DEFINE c == Call("stopcur", None)
  <2>1. PICK calling \in {<<c>>, << >>} : Begin(calling)
    BY <1>1 DEF NotifyPreferencesChange
  <2>2. c \in CallType /\ c.op = "stopcur"
    BY FirstCalls DEF Hows
  <2> HIDE DEF c
  <2>3. calling \in Seq(CallType) /\ \A i \in 1 .. Len(calling) : calling[i].op \notin {"add", "start"}
    BY <2>1, <2>2, OneFirst
  <2>4. UNCHANGED <<life, tag, entries, qvars, audio>> /\ SoundTypes'
    BY <1>1 DEF NotifyPreferencesChange, Inv, SoundTypes
  <2> QED BY <2>1, <2>3, <2>4, BeginInv
<1>2. CASE OnTimer
  <2> DEFINE c == Call("maybe", None)
  <2>1. Begin(<<c>>)
    BY <1>2 DEF OnTimer
  <2>2. c \in CallType /\ c.op = "maybe"
    BY FirstCalls DEF Hows
  <2> HIDE DEF c
  <2>3. <<c>> \in Seq(CallType) /\ \A i \in 1 .. Len(<<c>>) : <<c>>[i].op \notin {"add", "start"}
    BY <2>2, OneFirst
  <2>4. UNCHANGED <<life, tag, entries, qvars, audio>> /\ SoundTypes'
    BY <1>2 DEF OnTimer, Inv, SoundTypes
  <2> QED BY <2>1, <2>3, <2>4, BeginInv
<1>3. ASSUME NEW s \in Sounds, FadeOutTimer(s) PROVE Inv'
  <2> DEFINE c == Call("fadeout", s)
  <2>1. Begin(<<c>>)
    BY <1>3 DEF FadeOutTimer
  <2>2. c \in CallType /\ c.op = "fadeout"
    BY CallFacts DEF OnSound
  <2> HIDE DEF c
  <2>3. <<c>> \in Seq(CallType) /\ \A i \in 1 .. Len(<<c>>) : <<c>>[i].op \notin {"add", "start"}
    BY <2>2, OneFirst
  <2>4. UNCHANGED <<life, tag, entries, qvars, audio>>
    BY <1>3 DEF FadeOutTimer
  <2>5. SoundTypes'
    <3>1. [snd[s] EXCEPT !.timer = "off"] \in SndType
      BY DEF Inv, SoundTypes, SndType
    <3>2. snd' = [snd EXCEPT ![s] = [snd[s] EXCEPT !.timer = "off"]]
      BY <1>3 DEF FadeOutTimer, Inv, SoundTypes
    <3> QED BY <2>4, <3>1, <3>2 DEF Inv, SoundTypes
  <2> QED BY <2>1, <2>3, <2>4, <2>5, BeginInv
<1> QED BY <1>1, <1>2, <1>3

\* The calls that CHtmlTagSOUND::format begins with.
FormatFrames(s, a) ==
  (IF a.interrupt
   THEN <<CallHow("stopcur", None, IF a.xin THEN "crossfade" ELSE "halt"), Call("obsolete", s)>>
   ELSE << >>) \o <<Call("add", s)>>

\* Lemma: the last of them puts the sound in the queue.
LEMMA FormatCalls ==
  ASSUME NEW s \in Sounds, NEW a, NEW calling, calling = FormatFrames(s, a)
  PROVE  /\ calling \in Seq(CallType) /\ AddLast(calling)
         /\ \A i \in 1 .. Len(calling) :
              /\ calling[i].op # "start"
              /\ calling[i].op \in {"add", "obsolete"} => calling[i].s = s
         /\ \/ Len(calling) = 1
            \/ Len(calling) = 3 /\ calling[1].op = "stopcur" /\ calling[2].op = "obsolete"
         /\ calling[Len(calling)].op = "add"
<1> DEFINE how == IF a.xin THEN "crossfade" ELSE "halt"
           c == CallHow("stopcur", None, how)
           d == Call("obsolete", s)
           e == Call("add", s)
<1>1. c \in CallType /\ c.op = "stopcur" /\ d \in CallType /\ d.op = "obsolete" /\ d.s = s
  <2>1. how \in Hows
    BY DEF Hows
  <2> HIDE DEF how
  <2> QED BY <2>1, FirstCalls
<1>2. e \in CallType /\ e.op = "add" /\ e.s = s
  BY CallFacts DEF OnSound
<1>3. calling = IF a.interrupt THEN <<c, d>> \o <<e>> ELSE << >> \o <<e>>
  BY DEF FormatFrames
<1> HIDE DEF c, d, e
<1>4. CASE a.interrupt
  <2>1. /\ <<c, d>> \in Seq(CallType) /\ Len(<<c, d>>) = 2 /\ <<c, d>>[1] = c /\ <<c, d>>[2] = d
        /\ <<e>> \in Seq(CallType) /\ Len(<<e>>) = 1 /\ <<e>>[1] = e
    BY <1>1, <1>2
  <2>2. /\ calling \in Seq(CallType) /\ Len(calling) = 3
        /\ calling[1] = c /\ calling[2] = d /\ calling[3] = e
    BY <1>3, <1>4, <2>1
  <2>3. \A i \in 1 .. 3 : i = 1 \/ i = 2 \/ i = 3
    OBVIOUS
  <2>4. ASSUME NEW i \in 1 .. 3
        PROVE  /\ calling[i].op # "start" /\ (calling[i].op \in {"add", "obsolete"} => calling[i].s = s)
               /\ calling[i].op = "add" => i = 3
    BY <1>1, <1>2, <2>2, <2>3
  <2> QED BY <1>1, <1>2, <2>2, <2>4 DEF AddLast
<1>5. CASE ~a.interrupt
  <2>1. calling = <<e>>
    BY <1>2, <1>3, <1>5
  <2>2. /\ calling \in Seq(CallType) /\ Len(calling) = 1 /\ calling[1] = e
    BY <1>2, <2>1
  <2>3. \A i \in 1 .. 1 : i = 1
    OBVIOUS
  <2> QED BY <1>2, <2>2, <2>3 DEF AddLast
<1> QED BY <1>4, <1>5

\* Lemma: CHtmlTagSOUND::format.
LEMMA FormatSoundInv ==
  ASSUME Inv, NEW s \in Sounds, NEW a \in Attributes, FormatSound(s, a)
  PROVE  Inv'
<1> DEFINE waiting == {x \in Sounds : life[x] = "dead" /\ ~strm[x].playing}
           calling == FormatFrames(s, a)
           b == [a EXCEPT !.interrupt = FALSE]
<1>1. /\ ~incb /\ (s \in waiting \/ life[s] = "none") /\ Begin(calling)
      /\ life' = [x \in Sounds |-> IF x = s THEN "live" ELSE IF x \in waiting THEN "none" ELSE life[x]]
      /\ strm' = [x \in Sounds |-> IF x \in {s} \union waiting THEN Stopped ELSE strm[x]]
      /\ snd' = [snd EXCEPT ![s] = Silent]
      /\ attr' = [attr EXCEPT ![s] = b]
      /\ tag' = [tag EXCEPT ![s] = TRUE]
      /\ UNCHANGED <<left, cancelled, queue, playing_, last_played_, list, incb, rest>>
  BY DEF FormatSound, FormatFrames, qvars
<1>2. /\ calling \in Seq(CallType) /\ AddLast(calling)
      /\ \A i \in 1 .. Len(calling) :
           /\ calling[i].op # "start"
           /\ calling[i].op \in {"add", "obsolete"} => calling[i].s = s
  BY FormatCalls
<1>3. b \in AttrType
  <2>1. a \in AttrType
    BY SoundAssumption DEF AttrType
  <2> QED BY <2>1 DEF AttrType
<1> HIDE DEF calling, b
<1>4. /\ StackTypes' /\ stack'["gui"] = calling /\ stack'["audio"] = << >> /\ rest = << >>
  BY <1>1, <1>2, BeginFacts DEF Inv, CallbackOver
<1>5. /\ Range(queue) \subseteq Sounds /\ Range(list) \subseteq Sounds /\ Range(rest) = {}
      /\ \A x \in Range(queue) : x # s /\ x \notin waiting
      /\ \A x \in Range(list) : x # s /\ x \notin waiting
  <2>1. Range(queue) \subseteq Sounds /\ Range(list) \subseteq Sounds
    BY RangeFacts DEF Inv, QueueOK, StreamTypes
  <2>2. Range(rest) = {}
    BY <1>4, RangeFacts DEF Inv, StreamTypes
  <2>3. \A x \in Range(queue) : life[x] = "live"
    BY DEF Inv, QueueOK
  <2>4. \A x \in Range(list) : life[x] # "none" /\ strm[x].playing
    BY DEF Inv, ListExact
  <2> QED BY <1>1, <2>1, <2>2, <2>3, <2>4
<1>6. EntryTypes'
  BY <1>1, <1>3 DEF Inv, EntryTypes
<1>7. SoundTypes'
  <2>1. Silent \in SndType
    BY DEF Silent, SndType
  <2> QED BY <1>1, <2>1 DEF Inv, SoundTypes
<1>8. QueueOK'
  BY <1>1, <1>5 DEF Inv, QueueOK
<1>9. CallsOK'
  <2>1. ASSUME NEW c \in Range(calling) PROVE CallOK(stack["gui"], c)'
    <3>1. PICK i \in 1 .. Len(calling) : calling[i] = c
      BY <1>2, RangeFacts
    <3>2. \A d \in Range(calling) : d.op = "obsolete" => d.s = s
      BY <1>2, RangeFacts
    <3> QED BY <1>1, <1>2, <1>4, <1>5, <3>1, <3>2 DEF CallOK, Inv, SoundTypes
  <2>2. Range(<< >>) = {} /\ AddLast(<< >>)
    BY DEF Range, AddLast
  <2> QED BY <1>2, <1>4, <2>1, <2>2 DEF CallsOK, Threads
<1>10. StreamTypes' /\ ListExact'
  <2>1. Stopped \in StreamType /\ ~Stopped.playing
    BY DEF Stopped, StreamType, Fading
  <2>2. strm' \in [Sounds -> StreamType]
    BY <1>1, <2>1 DEF Inv, StreamTypes
  <2>3. \A x \in Sounds : strm'[x].playing <=> x \in Range(list)
    BY <1>1, <1>5, <2>1 DEF Inv, ListExact
  <2>4. \A x \in Range(list) : life'[x] # "none"
    BY <1>1, <1>5 DEF Inv, ListExact
  <2> QED BY <1>1, <1>5, <2>2, <2>3, <2>4 DEF Inv, StreamTypes, ListExact
<1>11. CallbackOver'
  BY <1>1, <1>4 DEF CallbackOver
<1> QED BY <1>1, <1>4, <1>6, <1>7, <1>8, <1>9, <1>10, <1>11 DEF Inv

-----------------------------------------------------------------------------
\* The audio callback.

\* Lemma: what a buffer leaves of a stream.
LEMMA BufferFacts ==
  ASSUME NEW st \in StreamType, NEW n \in Int, NEW over \in BOOLEAN
  PROVE  /\ Buffer(st, n, over) \in StreamType
         /\ Buffer(st, n, over).playing <=> st.playing /\ ~Finished(st, n, over)
<1> DEFINE iter == IF st.wanted = 0 THEN st.iter
                   ELSE IF PlayedOut(st, n) THEN st.wanted ELSE st.iter + n
           playing == st.playing /\ ~PlayedOut(st, n) /\ ~FadedOut(st, over)
           fading == IF over /\ st.fading = "in" THEN "no" ELSE st.fading
           after == st.stop_after /\ ~FadedOut(st, over)
           paused == st.paused \/ (over /\ st.fading = "out" /\ ~st.stop_after)
           r == [st EXCEPT !.iter = iter, !.playing = playing, !.fading = fading,
                           !.stop_after = after, !.paused = paused]
           a == [st EXCEPT !.iter = iter]
           b == [a EXCEPT !.playing = playing]
           c == [b EXCEPT !.fading = fading]
           d == [c EXCEPT !.stop_after = after]
<1>1. iter \in Int /\ fading \in Fading
  BY DEF StreamType, Fading
<1>2. playing \in BOOLEAN /\ after \in BOOLEAN /\ paused \in BOOLEAN
  OBVIOUS
<1>3. Buffer(st, n, over) = r
  BY DEF Buffer
<1>4. playing <=> st.playing /\ ~Finished(st, n, over)
  BY DEF Finished
<1> HIDE DEF iter, playing, fading, after, paused
<1>5. r = [d EXCEPT !.paused = paused]
  OBVIOUS
<1> HIDE DEF r
<1>6. a \in StreamType
  BY <1>1 DEF StreamType
<1> HIDE DEF a
<1>7. b \in StreamType /\ b.playing = playing
  BY <1>2, <1>6 DEF StreamType
<1> HIDE DEF b
<1>8. c \in StreamType /\ c.playing = playing
  BY <1>1, <1>7 DEF StreamType
<1> HIDE DEF c
<1>9. d \in StreamType /\ d.playing = playing
  BY <1>2, <1>8 DEF StreamType
<1> HIDE DEF d
<1>10. r \in StreamType /\ r.playing = playing
  BY <1>2, <1>5, <1>9 DEF StreamType
<1> QED BY <1>3, <1>4, <1>10

\* Lemma: a buffer of one stream.
LEMMA MixInv ==
  ASSUME Inv, NEW s \in Sounds, NEW n \in 0 .. LoopsPerBuffer, NEW over \in BOOLEAN,
         Mix(s, n, over)
  PROVE  Inv'
<1> DEFINE st == strm[s]
           skipped == Skipped(st)
           ended == ~skipped /\ Finished(st, n, over)
           looped == ~skipped /\ ~ended /\ Looped(st, n)
           new == IF skipped THEN st ELSE Buffer(st, n, over)
           heard == LoopCallback(snd[s])
           tells == ended /\ life[s] = "live"
           calling == IF tells THEN <<Call("finish", s)>> ELSE << >>
<1>1. /\ incb /\ stack["audio"] = << >> /\ rest # << >>
      /\ rest' = Tail(rest)
      /\ strm' = [strm EXCEPT ![s] = new]
      /\ list' = IF ended THEN Without(list, {s}) ELSE list
      /\ snd' = [snd EXCEPT ![s] = IF looped /\ life[s] = "live" THEN heard ELSE snd[s]]
      /\ stack' = [stack EXCEPT !["audio"] = calling]
      /\ UNCHANGED <<life, tag, attr, left, cancelled, queue, playing_, last_played_, incb>>
  BY DEF Mix, CallbackIdle, entries, qvars
<1>2. st \in StreamType /\ n \in Int
  BY SoundAssumption DEF Inv, StreamTypes
<1>3. new \in StreamType /\ (new.playing <=> st.playing /\ ~ended)
  <2>1. /\ Buffer(st, n, over) \in StreamType
        /\ Buffer(st, n, over).playing <=> st.playing /\ ~Finished(st, n, over)
    BY <1>2, BufferFacts
  <2> HIDE DEF st, skipped
  <2> QED BY <1>2, <2>1
<1>4. EntryTypes' /\ QueueOK'
  BY <1>1 DEF Inv, EntryTypes, QueueOK
<1>5. SoundTypes'
  <2>1. snd[s] \in SndType
    BY DEF Inv, SoundTypes
  <2>2. heard \in SndType
    <3> DEFINE a == [snd[s] EXCEPT !.fRepeats = @ + 1]
    <3>1. heard = [a EXCEPT !.timer = "off"]
      BY DEF LoopCallback
    <3>2. a \in SndType
      BY <2>1 DEF SndType
    <3> HIDE DEF a, heard
    <3> QED BY <3>1, <3>2 DEF SndType
  <2> HIDE DEF heard, looped
  <2> QED BY <1>1, <2>1, <2>2 DEF Inv, SoundTypes
<1>6. rest' \in Seq(Sounds) /\ Range(rest') \subseteq Range(rest)
  <2>1. rest \in Seq(Sounds)
    BY DEF Inv, StreamTypes
  <2>2. /\ Tail(rest) \in Seq(Sounds) /\ Len(Tail(rest)) = Len(rest) - 1
        /\ \A i \in 1 .. Len(Tail(rest)) : i + 1 \in 1 .. Len(rest) /\ Tail(rest)[i] = rest[i + 1]
    BY <1>1, <2>1
  <2>3. ASSUME NEW x \in Range(Tail(rest)) PROVE x \in Range(rest)
    <3>1. PICK i \in 1 .. Len(Tail(rest)) : Tail(rest)[i] = x
      BY <2>2, RangeFacts
    <3>2. i + 1 \in 1 .. Len(rest) /\ rest[i + 1] = x
      BY <2>2, <3>1
    <3> QED BY <2>1, <3>2, RangeFacts
  <2> QED BY <1>1, <2>2, <2>3
<1>7. LifeKept
  BY <1>1, SameLife
<1> HIDE DEF st, skipped, looped, new, heard
<1>8. StreamTypes' /\ ListExact'
  <2>1. /\ strm' \in [Sounds -> StreamType]
        /\ strm'[s].playing <=> st.playing /\ ~ended
        /\ \A x \in Sounds : x # s => strm'[x].playing = strm[x].playing
    BY <1>1, <1>3 DEF Inv, StreamTypes
  <2>2. CASE ended
    BY <1>1, <1>6, <1>7, <2>1, <2>2, TakenOut DEF Inv
  <2>3. CASE ~ended
    <3>1. strm'[s].playing <=> strm[s].playing
      BY <2>1, <2>3 DEF st
    <3>2. strm'[s].playing \in BOOLEAN /\ strm[s].playing \in BOOLEAN
      BY <1>2, <1>3, <2>1 DEF StreamType, st
    <3>3. \A x \in Sounds : strm'[x].playing = strm[x].playing
      BY <2>1, <3>1, <3>2
    <3> QED BY <1>1, <1>6, <1>7, <2>1, <2>3, <3>3, SamePlaying DEF Inv
  <2> QED BY <2>2, <2>3
<1> HIDE DEF ended
<1>9. calling \in Seq(AudioCall) /\ \A c \in Range(calling) : c.op = "finish"
  <2>1. Call("finish", s) \in AudioCall /\ Call("finish", s).op = "finish"
    BY CallFacts DEF OnSound, AudioCall
  <2>2. << >> \in Seq(AudioCall) /\ Range(<< >>) = {}
    BY NoCall
  <2>3. <<Call("finish", s)>> \in Seq(AudioCall) /\ Range(<<Call("finish", s)>>) = {Call("finish", s)}
    BY <2>1, OneCall
  <2> QED BY <2>1, <2>2, <2>3
<1> HIDE DEF calling
<1>10. calling \in Seq(CallType)
  <2>1. AudioCall \subseteq CallType
    BY DEF AudioCall
  <2> QED BY <1>9, <2>1
<1>11. StackTypes' /\ stack'["audio"] = calling /\ stack'["gui"] = stack["gui"]
  BY <1>1, <1>9, <1>10 DEF Inv, StackTypes, Threads
<1>12. CallsOK'
  <2>1. AddLast(calling) /\ \A c \in Range(calling) : CallOK(stack["audio"], c)'
    <3>1. \A i \in 1 .. Len(calling) : calling[i].op = "finish"
      BY <1>9, <1>10, RangeFacts
    <3> QED BY <1>9, <3>1 DEF AddLast, CallOK
  <2>2. AddLast(stack["gui"]) /\ \A c \in Range(stack["gui"]) : CallOK(stack["gui"], c)'
    BY <1>1, <1>11 DEF Inv, CallsOK, CallOK, Threads
  <2> QED BY <1>11, <2>1, <2>2 DEF CallsOK, Threads
<1> QED BY <1>1, <1>4, <1>5, <1>8, <1>11, <1>12 DEF Inv, CallbackOver

\* Lemma: the callback begins and ends.
LEMMA CallbackInv ==
  ASSUME Inv, BeginCallback \/ EndCallback
  PROVE  Inv'
<1>1. /\ UNCHANGED <<life, tag, attr, left, cancelled, queue, playing_, last_played_, snd,
                     strm, list, stack>>
      /\ incb' \in BOOLEAN
      /\ \/ incb' /\ rest' = list
         \/ ~incb' /\ rest' = rest /\ rest = << >> /\ stack["audio"] = << >>
  BY DEF BeginCallback, EndCallback, CallbackIdle, entries, qvars
<1>2. EntryTypes' /\ SoundTypes' /\ StackTypes' /\ QueueOK'
  BY <1>1 DEF Inv, EntryTypes, SoundTypes, StackTypes, QueueOK
<1>3. CallsOK'
  BY <1>1 DEF Inv, CallsOK, CallOK
<1>4. StreamTypes'
  BY <1>1 DEF Inv, StreamTypes
<1>5. ListExact'
  BY <1>1 DEF Inv, ListExact
<1>6. CallbackOver'
  BY <1>1 DEF CallbackOver
<1> QED BY <1>1, <1>2, <1>3, <1>4, <1>5, <1>6 DEF Inv

\* Lemma: the invariant holds at the start.
LEMMA InitInv == Init => Inv
<1> SUFFICES ASSUME Init PROVE Inv
  OBVIOUS
<1>1. NoAttr \in AttrType /\ Silent \in SndType /\ Stopped \in StreamType /\ ~Stopped.playing
  BY DEF NoAttr, AttrType, Silent, SndType, Stopped, StreamType, Fading
<1>2. EntryTypes /\ SoundTypes
  BY <1>1 DEF Init, EntryTypes, SoundTypes
<1>3. Range(<< >>) = {} /\ IsInjective(<< >>) /\ AddLast(<< >>)
  BY DEF Range, IsInjective, AddLast
<1>4. StreamTypes /\ ListExact /\ QueueOK
  BY <1>1, <1>3 DEF Init, StreamTypes, ListExact, QueueOK
<1>5. StackTypes /\ CallbackOver /\ incb \in BOOLEAN
  <2>1. << >> \in Seq(CallType) /\ << >> \in Seq(AudioCall)
    BY NoCall
  <2> QED BY <2>1 DEF Init, StackTypes, CallbackOver, Threads
<1>6. CallsOK
  BY <1>3 DEF Init, CallsOK, Threads
<1> QED BY <1>2, <1>4, <1>5, <1>6 DEF Inv

\* Lemma: every step keeps the invariant.
LEMMA NextInv == Inv /\ [Next]_vars => Inv'
<1> SUFFICES ASSUME Inv, [Next]_vars PROVE Inv'
  OBVIOUS
<1>1. CASE UNCHANGED vars
  <2>1. UNCHANGED <<life, tag, attr, left, cancelled, queue, playing_, last_played_, snd,
                    strm, list, incb, rest, stack>>
    BY <1>1 DEF vars, entries, qvars, audio
  <2>2. EntryTypes' /\ SoundTypes' /\ StackTypes' /\ QueueOK' /\ StreamTypes'
    BY <2>1 DEF Inv, EntryTypes, SoundTypes, StackTypes, QueueOK, StreamTypes
  <2>3. CallsOK' /\ ListExact' /\ CallbackOver'
    BY <2>1 DEF Inv, CallsOK, CallOK, ListExact, CallbackOver
  <2> QED BY <2>1, <2>2, <2>3 DEF Inv
<1>2. ASSUME NEW t \in {"gui", "audio"}, CallStep(t) PROVE Inv'
  BY <1>2, CallStepInv DEF Threads
<1>3. ASSUME NEW s \in Sounds, NEW a \in Attributes, FormatSound(s, a) PROVE Inv'
  BY <1>3, FormatSoundInv
<1>4. CASE StartNewPage \/ \E how \in Hows : FormatCancel(how)
  BY <1>4, CancelInv
<1>5. CASE NotifyPreferencesChange \/ OnTimer \/ \E s \in Sounds : FadeOutTimer(s)
  BY <1>5, TimersInv
<1>6. CASE BeginCallback \/ EndCallback
  BY <1>6, CallbackInv
<1>7. ASSUME NEW s \in Sounds, Buffers(s) PROVE Inv'
  <2>1. PICK n \in 0 .. LoopsPerBuffer, over \in BOOLEAN : Mix(s, n, over)
    BY <1>7 DEF Buffers
  <2> QED BY <2>1, MixInv
<1> QED BY <1>1, <1>2, <1>3, <1>4, <1>5, <1>6, <1>7 DEF Next

\* Theorem: fStreamList has the streams that are playing, each once, and no other,
\* and none that has been deleted - with any tags, and whether or not the callback
\* runs between any two steps of the GUI thread's operations.
THEOREM ListExactHolds == Spec => []ListExact
<1>1. Inv => ListExact
  BY DEF Inv
<1> QED BY <1>1, InitInv, NextInv, PTL DEF Spec

-----------------------------------------------------------------------------
\* Stopping a sound starts no other.

\* A call that is made, in the end, by one that cancels: while there is more to do
\* than to find out that the queue is empty, all in it is cancelled.
Harmless ==
  {c \in CallType :
     /\ c.op \in {"stopcur", "cancel", "stop", "finish", "done", "maybe"}
     /\ c.op # "stopcur" => \A s \in Range(queue) : cancelled[s]
     /\ c.op = "maybe" => queue = << >>}

\* The tags let go of their sounds after what has been called before that.
Cancelling ==
  \A j \in 1 .. Len(stack["gui"]) :
    stack["gui"][j].op = "obsolete" => \A i \in 1 .. j - 1 : stack["gui"][i] \in Harmless

\* What is cancelled stays so, and nothing is added.
Calmer ==
  /\ Range(queue') \subseteq Range(queue)
  /\ \A s \in Range(queue') : cancelled[s] => cancelled'[s]

\* Lemma: then what is harmless stays so.
LEMMA HarmlessKept ==
  ASSUME QueueOK, queue' \in Seq(Sounds), Calmer, NEW c \in Harmless
  PROVE  c \in Harmless'
<1>1. queue \in Seq(Sounds)
  BY DEF QueueOK
<1>2. queue = << >> => queue' = << >>
  <2>1. queue = << >> <=> Range(queue) = {}
    BY <1>1, RangeFacts
  <2>2. queue' = << >> <=> Range(queue') = {}
    BY RangeFacts
  <2> QED BY <2>1, <2>2 DEF Calmer
<1> QED BY <1>2 DEF Harmless, Calmer

\* Lemma: a step that leaves the GUI thread's calls alone, and adds nothing.
LEMMA CancellingKept ==
  ASSUME QueueOK, Cancelling, queue' \in Seq(Sounds), Calmer, stack'["gui"] = stack["gui"]
  PROVE  Cancelling'
<1>1. \A c \in Harmless : c \in Harmless'
  BY HarmlessKept
<1>2. PICK q : q = stack["gui"]
  OBVIOUS
<1>3. \A j \in 1 .. Len(q) : q[j].op = "obsolete" => \A i \in 1 .. j - 1 : q[i] \in Harmless
  BY <1>2 DEF Cancelling
<1>4. stack'["gui"] = q
  BY <1>2
<1>5. \A j \in 1 .. Len(q) : q[j].op = "obsolete" => \A i \in 1 .. j - 1 : q[i] \in Harmless'
  BY <1>1, <1>3
<1> QED BY <1>4, <1>5 DEF Cancelling

\* Lemma: a step of a thread that makes harmless calls, if it was one itself.
LEMMA CancellingStep ==
  ASSUME StackTypes, QueueOK, Cancelling, NEW t \in Threads, stack[t] # << >>,
         queue' \in Seq(Sounds), Calmer,
         NEW more \in Seq(CallType), t = "audio" => more \in Seq(AudioCall), Become(t, more),
         \A c \in Range(more) : c.op # "obsolete",
         Top(t) \in Harmless => \A c \in Range(more) : c \in Harmless'
  PROVE  Cancelling'
<1>1. /\ \A u \in Threads : u # t => stack'[u] = stack[u]
      /\ stack'[t] = more \o Tail(stack[t])
  BY BecomeFacts
<1>2. CASE t # "gui"
  <2>1. stack'["gui"] = stack["gui"]
    BY <1>1, <1>2 DEF Threads
  <2> QED BY <2>1, CancellingKept
<1>3. CASE t = "gui"
  <2>1. PICK q : q = stack[t]
    OBVIOUS
  <2>2. /\ q \in Seq(CallType) /\ Len(more) \in Nat /\ Len(q) \in Nat /\ q # << >>
        /\ Top(t) = q[1]
    BY <2>1 DEF StackTypes, Top
  <2>3. PICK r : r = more \o Tail(q)
    OBVIOUS
  <2>4. /\ Len(r) = Len(more) + Len(q) - 1
        /\ \A i \in 1 .. Len(more) : r[i] = more[i]
        /\ \A i \in Len(more) + 1 .. Len(r) :
             i - Len(more) + 1 \in 2 .. Len(q) /\ r[i] = q[i - Len(more) + 1]
    BY <2>2, <2>3, ReplacedFacts
  <2>5. stack'["gui"] = r /\ stack["gui"] = q
    BY <1>1, <1>3, <2>1, <2>3
  <2>6. \A j \in 1 .. Len(q) : q[j].op = "obsolete" => \A i \in 1 .. j - 1 : q[i] \in Harmless
    BY <2>5 DEF Cancelling
  <2>7. ASSUME NEW j \in 1 .. Len(r), r[j].op = "obsolete", NEW i \in 1 .. j - 1
        PROVE  r[i] \in Harmless'
    <3>1. \A m \in 1 .. Len(more) : r[m] \in Range(more)
      BY <2>4, RangeFacts
    <3>2. j \in Len(more) + 1 .. Len(r)
      <4>1. j <= Len(more) => j \in 1 .. Len(more)
        BY <2>2, <2>4
      <4>2. ~(j <= Len(more))
        BY <2>7, <3>1, <4>1
      <4> QED BY <2>2, <2>4, <4>2
    <3>3. PICK k \in 2 .. Len(q) : k = j - Len(more) + 1 /\ q[k].op = "obsolete"
      BY <2>4, <2>7, <3>2
    <3>4. \A m \in 1 .. k - 1 : q[m] \in Harmless
      <4>1. k \in 1 .. Len(q)
        BY <2>2, <3>3
      <4> QED BY <2>6, <3>3, <4>1
    <3>5. CASE i <= Len(more)
      <4>1. 1 \in 1 .. k - 1
        BY <2>2, <3>3
      <4>2. Top(t) \in Harmless
        BY <2>2, <3>4, <4>1
      <4>3. i \in 1 .. Len(more)
        BY <2>2, <2>4, <3>5
      <4> QED BY <3>1, <4>2, <4>3
    <3>6. CASE ~(i <= Len(more))
      <4>1. i \in Len(more) + 1 .. Len(r) /\ i - Len(more) + 1 \in 1 .. k - 1
        BY <2>2, <2>4, <3>2, <3>3, <3>6
      <4>2. r[i] \in Harmless
        BY <2>4, <3>4, <4>1
      <4> QED BY <4>2, HarmlessKept
    <3> QED BY <3>5, <3>6
  <2> QED BY <2>5, <2>7 DEF Cancelling
<1> QED BY <1>2, <1>3

\* Lemma: nothing changes in the queue.
LEMMA SameQueue ==
  ASSUME Inv, UNCHANGED <<entries, qvars>>
  PROVE  queue' \in Seq(Sounds) /\ Calmer /\ queue' = queue /\ cancelled' = cancelled
  BY DEF Inv, QueueOK, Calmer, entries, qvars

\* Lemma: add_sound is called last, and makes one harmless call at most.
LEMMA AddSoundCalm ==
  ASSUME Inv, Cancelling, NEW t \in Threads, AddSound(t)
  PROVE  Cancelling'
<1>1. /\ StackTypes /\ stack[t] # << >> /\ Top(t) = stack[t][1] /\ Top(t).op = "add" /\ t # "audio"
  BY InFacts DEF AddSound, Inv
<1>2. stack[t] \in Seq(CallType) /\ 1 \in 1 .. Len(stack[t]) /\ Len(stack[t]) \in Nat
  BY <1>1 DEF StackTypes
<1>3. Len(stack[t]) = 1
  BY <1>1, <1>2 DEF Inv, CallsOK, AddLast
<1>4. PICK more : more \in {<<Call("maybe", None)>>, << >>} /\ Become(t, more)
  BY DEF AddSound, Return
<1>5. Call("maybe", None) \in CallType /\ Call("maybe", None).op = "maybe"
  BY CallFacts DEF OnSound
<1>6. /\ more \in Seq(CallType) /\ Len(more) \in Nat
      /\ \A i \in 1 .. Len(more) : more[i].op = "maybe"
  <2>1. CASE more = << >>
    BY <2>1
  <2>2. CASE more = <<Call("maybe", None)>>
    <3>1. Len(more) = 1 /\ more[1] = Call("maybe", None) /\ more \in Seq(CallType)
      BY <1>5, <2>2
    <3> QED BY <1>5, <3>1
  <2> QED BY <1>4, <2>1, <2>2
<1>7. stack'[t] = more \o Tail(stack[t])
  BY <1>1, <1>4, <1>6, BecomeFacts
<1> DEFINE r == more \o Tail(stack[t])
<1>8. /\ Len(r) = Len(more) + Len(stack[t]) - 1
      /\ \A i \in 1 .. Len(more) : r[i] = more[i]
  BY <1>1, <1>2, <1>6, ReplacedFacts
<1> HIDE DEF r
<1>9. \A i \in 1 .. Len(r) : r[i].op = "maybe"
  BY <1>3, <1>6, <1>8
<1>10. stack'["gui"] = r
  BY <1>1, <1>7 DEF r, Threads
<1> QED BY <1>9, <1>10 DEF Cancelling

\* Lemma: calls that stop a sound, or tell of its end, are as harmless as the one they
\* are made by.
LEMMA OnlyCallsCalm ==
  ASSUME Inv, Cancelling, NEW t \in Threads, stack[t] # << >>,
         NEW more \in Seq(CallType), t = "audio" => more \in Seq(AudioCall), Become(t, more),
         \A c \in Range(more) : c.op \in {"done", "stop", "finish"},
         Top(t).op # "stopcur", UNCHANGED <<entries, qvars>>
  PROVE  Cancelling'
<1>1. queue' \in Seq(Sounds) /\ Calmer /\ queue' = queue /\ cancelled' = cancelled
  BY SameQueue
<1>2. ASSUME Top(t) \in Harmless, NEW c \in Range(more) PROVE c \in Harmless'
  <2>1. \A s \in Range(queue) : cancelled[s]
    BY <1>2 DEF Harmless
  <2>2. c \in CallType
    BY RangeFacts
  <2> QED BY <1>1, <2>1, <2>2 DEF Harmless
<1>3. \A c \in Range(more) : c.op # "obsolete"
  OBVIOUS
<1> QED BY <1>1, <1>2, <1>3, CancellingStep DEF Inv

\* Lemma: a call that returns is harmless.
LEMMA ReturnCalm ==
  ASSUME Inv, Cancelling, NEW t \in Threads, stack[t] # << >>, Become(t, << >>),
         queue' \in Seq(Sounds), Calmer
  PROVE  Cancelling'
<1>1. << >> \in Seq(CallType) /\ << >> \in Seq(AudioCall) /\ Range(<< >>) = {}
  BY NoCall
<1> QED BY <1>1, CancellingStep DEF Inv

\* Lemma: stop_current_sound cancels all that is in the queue.
LEMMA StopCurrentSoundCalm ==
  ASSUME Inv, Cancelling, NEW t \in Threads, StopCurrentSound(t)
  PROVE  Cancelling'
<1>1. StackTypes /\ stack[t] # << >> /\ Top(t) \in CallType /\ t # "audio"
  BY InFacts DEF StopCurrentSound, Inv
<1>2. CASE playing_ # None
  <2> DEFINE c == CallHow("cancel", playing_, Top(t).how)
  <2>1. cancelled' = MarkCancelled /\ Become(t, <<c>>) /\ queue' = queue
    BY <1>2 DEF StopCurrentSound
  <2>2. playing_ \in Sounds /\ Top(t).how \in Hows \union {"cut"}
    BY <1>1, <1>2, RangeFacts DEF Inv, QueueOK, CallType
  <2>3. c \in CallType /\ c.op = "cancel"
    BY <2>2, CallFacts DEF OnSound
  <2> HIDE DEF c
  <2>4. <<c>> \in Seq(CallType) /\ Range(<<c>>) = {c}
    BY <2>3, OneCall
  <2>5. queue \in Seq(Sounds) /\ Range(queue) \subseteq Sounds
    BY RangeFacts DEF Inv, QueueOK
  <2>6. \A s \in Range(queue) : cancelled'[s]
    BY <2>1, <2>5 DEF MarkCancelled
  <2>7. Calmer
    BY <2>1, <2>6 DEF Calmer
  <2>8. c \in Harmless'
    BY <2>1, <2>3, <2>6 DEF Harmless
  <2> QED BY <1>1, <2>1, <2>3, <2>4, <2>5, <2>7, <2>8, CancellingStep DEF Inv
<1>3. CASE playing_ = None
  <2>1. DeleteEntries(t, Range(queue), last_played_) /\ Become(t, << >>) /\ tag' = tag
    BY <1>3 DEF StopCurrentSound, Return
  <2>2. Range(queue) \in SUBSET Sounds
    BY RangeFacts DEF Inv, QueueOK
  <2>3. queue' \in Seq(Sounds) /\ Range(queue') = Range(queue) \ Range(queue)
    BY <2>1, <2>2, DeleteFacts DEF Inv, QueueOK
  <2>4. Calmer
    BY <2>3 DEF Calmer
  <2> QED BY <1>1, <2>1, <2>3, <2>4, ReturnCalm
<1> QED BY <1>2, <1>3

\* Lemma: on_sound_done empties the queue if all in it is cancelled.
LEMMA OnSoundDoneCalm ==
  ASSUME Inv, Cancelling, NEW t \in Threads, OnSoundDone(t)
  PROVE  Cancelling'
<1> DEFINE now == IF playing_ = None \/ left[playing_] = 0 THEN left
                  ELSE [left EXCEPT ![playing_] = @ - Top(t).n]
           gone == {e \in Range(queue) : cancelled[e]}
                     \union {e \in {playing_} \ {None} : left[e] # 0 /\ now[e] = 0}
           more == <<Call("maybe", None)>>
<1>1. StackTypes /\ stack[t] # << >> /\ Top(t).op = "done"
  BY InFacts DEF OnSoundDone, Inv
<1>2. /\ cancelled' = [s \in Sounds |-> cancelled[s] /\ s \notin gone]
      /\ Become(t, more) /\ DeleteEntries(t, gone, playing_) /\ tag' = tag
  BY DEF OnSoundDone
<1>3. Range(queue) \subseteq Sounds /\ playing_ \in Sounds \union {None}
  BY RangeFacts DEF Inv, QueueOK
<1>4. gone \in SUBSET Sounds /\ \A e \in Range(queue) : cancelled[e] => e \in gone
  BY <1>3
<1> HIDE DEF gone
<1>5. queue' \in Seq(Sounds) /\ Range(queue') = Range(queue) \ gone
  BY <1>2, <1>4, DeleteFacts DEF Inv, QueueOK
<1>6. Calmer
  BY <1>2, <1>3, <1>5 DEF Calmer
<1>7. /\ more \in Seq(CallType) /\ more \in Seq(AudioCall)
      /\ \A c \in Range(more) : c \in CallType /\ c.op = "maybe"
  <2>1. Call("maybe", None) \in AudioCall /\ Call("maybe", None).op = "maybe"
    BY CallFacts DEF OnSound, AudioCall
  <2>2. Call("maybe", None) \in CallType
    BY <2>1 DEF AudioCall
  <2>3. <<Call("maybe", None)>> \in Seq(CallType) /\ <<Call("maybe", None)>> \in Seq(AudioCall)
        /\ Range(<<Call("maybe", None)>>) = {Call("maybe", None)}
    BY <2>1, <2>2, OneCall
  <2> QED BY <2>1, <2>2, <2>3
<1> HIDE DEF more
<1>8. ASSUME Top(t) \in Harmless, NEW c \in Range(more) PROVE c \in Harmless'
  <2>1. \A s \in Range(queue) : cancelled[s]
    BY <1>1, <1>8 DEF Harmless
  <2>2. Range(queue') = {}
    BY <1>4, <1>5, <2>1
  <2>3. queue' = << >>
    BY <1>5, <2>2, RangeFacts
  <2> QED BY <1>7, <2>2, <2>3 DEF Harmless
<1>9. \A c \in Range(more) : c.op # "obsolete"
  BY <1>7
<1> QED BY <1>1, <1>2, <1>5, <1>6, <1>7, <1>8, <1>9, CancellingStep DEF Inv

\* Lemma: maybe_start_sound starts nothing if the queue is empty.
LEMMA MaybeStartSoundCalm ==
  ASSUME Inv, Cancelling, NEW t \in Threads, MaybeStartSound(t)
  PROVE  Cancelling'
<1>1. StackTypes /\ stack[t] # << >> /\ Top(t).op = "maybe" /\ tag' = tag /\ cancelled' = cancelled
  BY InFacts DEF MaybeStartSound, Inv
<1>2. CASE Return(t) /\ UNCHANGED <<life, attr, snd, qvars>>
  <2>1. queue' \in Seq(Sounds) /\ Calmer
    BY <1>1, <1>2 DEF Inv, QueueOK, Calmer, qvars
  <2> QED BY <1>1, <1>2, <2>1, ReturnCalm DEF Return
<1>3. ASSUME queue # << >>, NEW j \in DOMAIN queue, NEW how \in Hows,
             IF attr[queue[j]].seq = "replace"
             THEN DeleteEntries(t, {queue[k] : k \in 1 .. j - 1}, last_played_)
             ELSE UNCHANGED <<life, attr, snd, queue, last_played_>>,
             Become(t, <<CallHow("start", queue[j], how)>>)
      PROVE  Cancelling'
  <2> DEFINE gone == {queue[k] : k \in 1 .. j - 1}
  <2>1. PICK c : c = CallHow("start", queue[j], how)
    OBVIOUS
  <2>2. queue \in Seq(Sounds) /\ j \in 1 .. Len(queue) /\ queue[j] \in Sounds
    BY <1>3 DEF Inv, QueueOK
  <2>3. c \in CallType /\ c.op = "start"
    BY <2>1, <2>2, CallFacts DEF OnSound
  <2>4. c \in AudioCall
    BY <2>3 DEF AudioCall
  <2>5. <<c>> \in Seq(CallType) /\ <<c>> \in Seq(AudioCall) /\ Range(<<c>>) = {c}
    BY <2>3, <2>4, OneCall
  <2>6. gone \in SUBSET Sounds
    <3>1. \A k \in 1 .. j - 1 : k \in 1 .. Len(queue)
      BY <2>2
    <3> QED BY <2>2, <3>1
  <2>7. queue' \in Seq(Sounds) /\ Range(queue') \subseteq Range(queue)
    <3>1. CASE attr[queue[j]].seq = "replace"
      <4>1. DeleteEntries(t, gone, last_played_)
        BY <1>3, <3>1
      <4> HIDE DEF gone
      <4>2. queue' \in Seq(Sounds) /\ Range(queue') = Range(queue) \ gone
        BY <1>1, <2>6, <4>1, DeleteFacts DEF Inv, QueueOK
      <4> QED BY <4>2
    <3>2. CASE attr[queue[j]].seq # "replace"
      BY <1>3, <2>2, <3>2
    <3> QED BY <3>1, <3>2
  <2>8. Calmer
    BY <1>1, <2>7 DEF Calmer
  <2>9. Top(t) \notin Harmless
    BY <1>1, <1>3 DEF Harmless
  <2>10. Become(t, <<c>>)
    BY <1>3, <2>1
  <2> QED BY <1>1, <2>3, <2>5, <2>7, <2>8, <2>9, <2>10, CancellingStep DEF Inv
<1>4. CASE /\ playing_ = None /\ queue # << >>
           /\ \E i \in From, j \in DOMAIN queue :
                LET e == queue[j]
                    more == seq_mode \in {"loop", "random"} /\ Len(queue) > 1
                IN  /\ MayCome(i, j)
                    /\ playing_' = e
                    /\ seq_mode' = attr[e].seq
                    /\ IF attr[e].seq = "replace"
                       THEN DeleteEntries(t, {queue[k] : k \in 1 .. j - 1}, last_played_)
                       ELSE UNCHANGED <<life, attr, snd, queue, last_played_>>
                    /\ Become(t, <<CallHow("start", e, IF more THEN "fade" ELSE "halt")>>)
  <2>1. PICK j \in DOMAIN queue :
          /\ IF attr[queue[j]].seq = "replace"
             THEN DeleteEntries(t, {queue[k] : k \in 1 .. j - 1}, last_played_)
             ELSE UNCHANGED <<life, attr, snd, queue, last_played_>>
          /\ Become(t, <<CallHow("start", queue[j],
                                 IF seq_mode \in {"loop", "random"} /\ Len(queue) > 1
                                 THEN "fade" ELSE "halt")>>)
    BY <1>4
  <2>2. "fade" \in Hows /\ "halt" \in Hows
    BY DEF Hows
  <2> QED BY <1>3, <1>4, <2>1, <2>2
<1> QED BY <1>2, <1>4 DEF MaybeStartSound

\* Lemma: startPlaying is not called by what cancels.
LEMMA StartPlayingCalm ==
  ASSUME Inv, Cancelling, NEW t \in Threads, StartPlaying(t)
  PROVE  Cancelling'
<1> DEFINE e == Top(t).s
<1>1. StackTypes /\ stack[t] # << >> /\ Top(t) \in CallType /\ Top(t).op = "start"
  BY InFacts DEF StartPlaying, Inv
<1>2. e \in Sounds
  BY <1>1 DEF CallType, OnSound
<1>3. queue' = queue /\ (cancelled' = cancelled \/ cancelled' = [cancelled EXCEPT ![e] = TRUE])
  BY DEF StartPlaying, qvars
<1>4. queue' \in Seq(Sounds) /\ Calmer
  <2>1. queue \in Seq(Sounds) /\ Range(queue) \subseteq Sounds
    BY RangeFacts DEF Inv, QueueOK
  <2> QED BY <1>2, <1>3, <2>1 DEF Calmer, Inv, EntryTypes
<1>5. Top(t) \notin Harmless
  BY <1>1 DEF Harmless
<1>6. CASE Become(t, << >>)
  BY <1>1, <1>4, <1>6, ReturnCalm
<1>7. CASE Become(t, <<DoneCall(e, 0)>>)
  <2>1. DoneCall(e, 0) \in AudioCall /\ DoneCall(e, 0).op = "done"
    BY <1>2, DoneCallFacts
  <2>2. DoneCall(e, 0) \in CallType
    BY <2>1 DEF AudioCall
  <2>3. /\ <<DoneCall(e, 0)>> \in Seq(CallType) /\ <<DoneCall(e, 0)>> \in Seq(AudioCall)
        /\ \A d \in Range(<<DoneCall(e, 0)>>) : d.op # "obsolete"
    BY <2>1, <2>2, OneCall
  <2> QED BY <1>1, <1>4, <1>5, <1>7, <2>3, CancellingStep DEF Inv
<1> QED BY <1>6, <1>7 DEF StartPlaying, Return

\* Lemma: the steps that stop a sound, and that tell of its end.
LEMMA SoundCalm ==
  ASSUME Inv, Cancelling, NEW t \in Threads,
         CancelPlaying(t) \/ DoFadeOut(t) \/ StopStream(t) \/ FinishCallback(t)
  PROVE  Cancelling'
<1>1. UNCHANGED <<entries, qvars>>
  BY DEF CancelPlaying, DoFadeOut, StopStream, FinishCallback
<1>2. CASE CancelPlaying(t) \/ DoFadeOut(t)
  <2>1. PICK more \in Seq(CallType) :
          Become(t, more) /\ \A c \in Range(more) : c.op \in {"done", "stop"}
    BY <1>2, CancelPlayingCalls, DoFadeOutCalls
  <2>2. stack[t] # << >> /\ t # "audio" /\ Top(t).op # "stopcur"
    BY <1>2, CancelPlayingCalls, DoFadeOutCalls
  <2>3. \A c \in Range(more) : c.op \in {"done", "stop", "finish"}
    BY <2>1
  <2> QED BY <1>1, <2>1, <2>2, <2>3, OnlyCallsCalm
<1>3. CASE StopStream(t)
  <2> DEFINE s == Top(t).s
  <2>1. /\ stack[t] # << >> /\ Top(t) \in CallType /\ Top(t).op = "stop" /\ t # "audio"
    BY <1>3, InFacts DEF StopStream, Inv
  <2>2. s \in Sounds
    BY <2>1 DEF CallType, OnSound
  <2>3. PICK more \in {<< >>, <<Call("finish", s)>>} : Become(t, more)
    BY <1>3 DEF StopStream
  <2>4. Call("finish", s) \in CallType /\ Call("finish", s).op = "finish"
    BY <2>2, CallFacts DEF OnSound
  <2>5. more \in Seq(CallType) /\ \A c \in Range(more) : c.op \in {"done", "stop", "finish"}
    <3>1. CASE more = << >>
      BY <3>1, NoCall
    <3>2. CASE more = <<Call("finish", s)>>
      <4>1. more \in Seq(CallType) /\ Range(more) = {Call("finish", s)}
        BY <2>4, <3>2, OneCall
      <4> QED BY <2>4, <4>1
    <3> QED BY <2>3, <3>1, <3>2
  <2> QED BY <1>1, <2>1, <2>3, <2>5, OnlyCallsCalm
<1>4. CASE FinishCallback(t)
  <2> DEFINE s == Top(t).s
  <2>1. /\ stack[t] # << >> /\ Top(t) \in CallType /\ Top(t).op = "finish"
    BY <1>4, InFacts DEF FinishCallback, Inv
  <2>2. s \in Sounds /\ CallDone(t, s, << >>)
    BY <1>4, <2>1 DEF CallType, OnSound, FinishCallback
  <2>3. << >> \in Seq(CallType) /\ << >> \in Seq(AudioCall) /\ Range(<< >>) = {}
    BY NoCall
  <2>4. PICK more \in Seq(CallType) :
          /\ t = "audio" => more \in Seq(AudioCall)
          /\ Become(t, more)
          /\ \A c \in Range(more) : c.op = "done" \/ c \in Range(<< >>)
    BY <2>2, <2>3, CallDoneFacts DEF Inv
  <2>5. \A c \in Range(more) : c.op \in {"done", "stop", "finish"}
    BY <2>3, <2>4
  <2> QED BY <1>1, <2>1, <2>4, <2>5, OnlyCallsCalm
<1> QED BY <1>2, <1>3, <1>4

\* Lemma: every step of an operation.
LEMMA CallStepCalm ==
  ASSUME Inv, Cancelling, NEW t \in Threads, CallStep(t)
  PROVE  Cancelling'
<1>1. CASE AddSound(t) \/ StopCurrentSound(t) \/ OnSoundDone(t)
  BY <1>1, AddSoundCalm, StopCurrentSoundCalm, OnSoundDoneCalm
<1>2. CASE MaybeStartSound(t) \/ StartPlaying(t)
  BY <1>2, MaybeStartSoundCalm, StartPlayingCalm
<1>3. CASE CancelPlaying(t) \/ DoFadeOut(t) \/ StopStream(t) \/ FinishCallback(t)
  BY <1>3, SoundCalm
<1>4. CASE ObsoletePrevSounds(t)
  <2>1. stack[t] # << >> /\ Become(t, << >>)
    BY <1>4, InFacts DEF ObsoletePrevSounds, Return, Inv
  <2>2. queue' \in Seq(Sounds) /\ Calmer
    BY <1>4, SameQueue DEF ObsoletePrevSounds
  <2> QED BY <2>1, <2>2, ReturnCalm
<1> QED BY <1>1, <1>2, <1>3, <1>4 DEF CallStep

\* Lemma: an operation that begins with one call before its tags let go at most,
\* which is the one that stops what is played.
LEMMA BeginCalm ==
  ASSUME Inv, NEW calling \in Seq(CallType), Begin(calling),
         \A j \in 1 .. Len(calling) :
           calling[j].op = "obsolete" => j = 1 \/ (j = 2 /\ calling[1].op = "stopcur")
  PROVE  Cancelling'
<1>1. stack'["gui"] = calling
  BY BeginFacts DEF Inv
<1>2. ASSUME NEW j \in 1 .. Len(calling), calling[j].op = "obsolete", NEW i \in 1 .. j - 1
      PROVE  calling[i] \in Harmless'
  <2>1. i = 1 /\ calling[1].op = "stopcur"
    BY <1>2
  <2>2. calling[1] \in CallType
    BY <1>2
  <2> QED BY <2>1, <2>2 DEF Harmless
<1> QED BY <1>1, <1>2 DEF Cancelling

\* Lemma: one call at most.
LEMMA BeginOneCalm ==
  ASSUME Inv, NEW c \in CallType, NEW calling \in {<<c>>, << >>}, Begin(calling)
  PROVE  Cancelling'
<1>1. CASE calling = <<c>>
  <2>1. calling \in Seq(CallType) /\ Len(calling) = 1
    BY <1>1
  <2>2. \A j \in 1 .. 1 : j = 1
    OBVIOUS
  <2>3. \A j \in 1 .. Len(calling) : j = 1
    BY <2>1, <2>2
  <2>4. ASSUME NEW j \in 1 .. Len(calling), calling[j].op = "obsolete"
        PROVE  j = 1 \/ (j = 2 /\ calling[1].op = "stopcur")
    BY <2>3
  <2> QED BY <2>1, <2>4, BeginCalm
<1>2. CASE calling = << >>
  <2>1. calling \in Seq(CallType) /\ Len(calling) = 0
    BY <1>2
  <2>2. \A j \in 1 .. 0 : FALSE
    OBVIOUS
  <2>3. \A j \in 1 .. Len(calling) : FALSE
    BY <2>1, <2>2
  <2>4. ASSUME NEW j \in 1 .. Len(calling), calling[j].op = "obsolete"
        PROVE  j = 1 \/ (j = 2 /\ calling[1].op = "stopcur")
    BY <2>3
  <2> QED BY <2>1, <2>4, BeginCalm
<1> QED BY <1>1, <1>2

\* Lemma: the operations that the game, the timers and the settings begin.
LEMMA BeginningsCalm ==
  ASSUME Inv, \/ \E s \in Sounds, a \in Attributes : FormatSound(s, a)
              \/ \E how \in Hows : FormatCancel(how)
              \/ StartNewPage \/ NotifyPreferencesChange \/ OnTimer
              \/ \E s \in Sounds : FadeOutTimer(s)
  PROVE  Cancelling'
<1>1. ASSUME NEW s \in Sounds, NEW a \in Attributes, FormatSound(s, a) PROVE Cancelling'
  <2>1. PICK calling : calling = FormatFrames(s, a)
    OBVIOUS
  <2>2. Begin(calling)
    BY <1>1, <2>1 DEF FormatSound, FormatFrames
  <2>3. /\ calling \in Seq(CallType)
        /\ \/ Len(calling) = 1
           \/ Len(calling) = 3 /\ calling[1].op = "stopcur" /\ calling[2].op = "obsolete"
        /\ calling[Len(calling)].op = "add"
    BY <2>1, FormatCalls
  <2>4. ASSUME NEW j \in 1 .. Len(calling), calling[j].op = "obsolete"
        PROVE  j = 1 \/ (j = 2 /\ calling[1].op = "stopcur")
    BY <2>3, <2>4
  <2> QED BY <2>2, <2>3, <2>4, BeginCalm
<1>2. ASSUME NEW how \in Hows, FormatCancel(how) PROVE Cancelling'
  <2> DEFINE c == CallHow("stopcur", None, how)
             d == Call("obsolete", None)
  <2>1. Begin(<<c, d>>)
    BY <1>2 DEF FormatCancel
  <2>2. c \in CallType /\ c.op = "stopcur" /\ d \in CallType
    BY FirstCalls
  <2> HIDE DEF c, d
  <2>3. <<c, d>> \in Seq(CallType) /\ Len(<<c, d>>) = 2 /\ <<c, d>>[1] = c
    BY <2>2, TwoCalls
  <2>4. \A j \in 1 .. 2 : j = 1 \/ j = 2
    OBVIOUS
  <2> QED BY <2>1, <2>2, <2>3, <2>4, BeginCalm
<1>3. CASE StartNewPage
  <2> DEFINE c == Call("obsolete", None)
             d == Call("stopcur", None)
  <2>1. Begin(<<c, d>>)
    BY <1>3 DEF StartNewPage
  <2>2. c \in CallType /\ d \in CallType /\ d.op = "stopcur"
    BY FirstCalls DEF Hows
  <2> HIDE DEF c, d
  <2>3. <<c, d>> \in Seq(CallType) /\ Len(<<c, d>>) = 2 /\ <<c, d>>[2] = d
    BY <2>2, TwoCalls
  <2>4. \A j \in 1 .. 2 : j = 1 \/ j = 2
    OBVIOUS
  <2>5. \A j \in 1 .. 2 : <<c, d>>[j].op = "obsolete" => j = 1
    BY <2>2, <2>3, <2>4
  <2> QED BY <2>1, <2>3, <2>5, BeginCalm
<1>4. CASE NotifyPreferencesChange
  <2>1. PICK calling \in {<<Call("stopcur", None)>>, << >>} : Begin(calling)
    BY <1>4 DEF NotifyPreferencesChange
  <2>2. Call("stopcur", None) \in CallType
    BY FirstCalls DEF Hows
  <2> QED BY <2>1, <2>2, BeginOneCalm
<1>5. CASE OnTimer
  <2>1. Begin(<<Call("maybe", None)>>) /\ Call("maybe", None) \in CallType
    BY <1>5, FirstCalls DEF OnTimer, Hows
  <2> QED BY <2>1, BeginOneCalm
<1>6. ASSUME NEW s \in Sounds, FadeOutTimer(s) PROVE Cancelling'
  <2>1. Begin(<<Call("fadeout", s)>>) /\ Call("fadeout", s) \in CallType
    BY <1>6, CallFacts DEF FadeOutTimer, OnSound
  <2> QED BY <2>1, BeginOneCalm
<1> QED BY <1>1, <1>2, <1>3, <1>4, <1>5, <1>6

\* Lemma: every step keeps what is known of the calls that cancel.
LEMMA NextCalm == Inv /\ Cancelling /\ [Next]_vars => Cancelling'
<1> SUFFICES ASSUME Inv, Cancelling, [Next]_vars PROVE Cancelling'
  OBVIOUS
<1>1. CASE UNCHANGED vars \/ BeginCallback \/ EndCallback
  <2>1. UNCHANGED <<entries, qvars>> /\ stack' = stack
    BY <1>1 DEF vars, BeginCallback, EndCallback
  <2>2. queue' \in Seq(Sounds) /\ Calmer
    BY <2>1, SameQueue
  <2> QED BY <2>1, <2>2, CancellingKept DEF Inv
<1>2. ASSUME NEW s \in Sounds, Buffers(s) PROVE Cancelling'
  <2>1. PICK n \in 0 .. LoopsPerBuffer, over \in BOOLEAN : Mix(s, n, over)
    BY <1>2 DEF Buffers
  <2>2. UNCHANGED <<entries, qvars>> /\ stack'["gui"] = stack["gui"]
    BY <2>1 DEF Mix, Inv, StackTypes, Threads
  <2>3. queue' \in Seq(Sounds) /\ Calmer
    BY <2>2, SameQueue
  <2> QED BY <2>2, <2>3, CancellingKept DEF Inv
<1>3. ASSUME NEW t \in {"gui", "audio"}, CallStep(t) PROVE Cancelling'
  BY <1>3, CallStepCalm DEF Threads
<1> QED BY <1>1, <1>2, <1>3, BeginningsCalm DEF Next

\* Theorem: no sound is started, by whichever calls a stop leads to, before the tags
\* of what has been stopped have let go of their sounds - with any tags, and whether
\* or not the callback runs between any two steps.
THEOREM StopStartsNothingHolds == Spec => []StopStartsNothing
<1>1. Init => Cancelling
  <2> SUFFICES ASSUME Init PROVE Cancelling
    OBVIOUS
  <2>1. stack["gui"] = << >> /\ Len(<< >>) = 0
    BY DEF Init
  <2>2. \A j \in 1 .. 0 : FALSE
    OBVIOUS
  <2> QED BY <2>1, <2>2 DEF Cancelling
<1>2. Inv /\ Cancelling => StopStartsNothing
  <2> SUFFICES ASSUME Inv, Cancelling, NEW i \in DOMAIN stack["gui"], NEW j \in DOMAIN stack["gui"],
                      i < j, stack["gui"][i].op = "start", stack["gui"][j].op = "obsolete"
               PROVE  FALSE
    BY DEF StopStartsNothing
  <2>1. stack["gui"] \in Seq(CallType)
    BY DEF Inv, StackTypes, Threads
  <2>2. j \in 1 .. Len(stack["gui"]) /\ i \in 1 .. j - 1
    BY <2>1
  <2>3. stack["gui"][i] \in Harmless
    BY <2>2 DEF Cancelling
  <2> QED BY <2>3 DEF Harmless
<1> QED BY <1>1, <1>2, InitInv, NextInv, NextCalm, PTL DEF Spec

-----------------------------------------------------------------------------
\* What the threads know of each other's sounds.

\* A sound that is heard knows that it is being played: cancelPlaying, which does
\* nothing if fPlaying is not set, can still silence it.
HeardKnown == \A s \in Sounds : life[s] = "live" /\ strm[s].playing => snd[s].fPlaying

\* The callback goes on with no sound that the GUI thread has deleted under it.
CallbackAlive ==
  \A i \in DOMAIN stack["audio"] :
    stack["audio"][i].op \in OnSound => life[stack["audio"][i].s] = "live"

\* A call that stops a sound at once, and the sound is not going to be started again.
Stopping(c) == c.op = "finish" \/ (c.op \in {"cancel", "stop"} /\ c.how = "halt")
GivenUp(s) == s \notin Range(queue) \/ cancelled[s]

\* What is to be stopped at once is stopped by the innermost call.
StopsFirst(calling) ==
  \A i \in 1 .. Len(calling) : Stopping(calling[i]) => i = 1 /\ GivenUp(calling[i].s)

\* Before fPlaying is reset by the GUI thread the callback has forgotten the sound.
NotStarted(s, d) ==
  /\ d.op \in {"maybe", "start"} => s \notin Range(queue)
  /\ d.op = "start" => d.s # s
FinishingOK(c) ==
  c.op = "finish" => ~strm[c.s].playing /\ \A d \in Range(stack["audio"]) : NotStarted(c.s, d)

\* The callback makes one call, on a sound that lives.
CallingBackOK(d) ==
  /\ d.op = "finish" => ~strm[d.s].playing
  /\ d.op \in OnSound => life[d.s] = "live"

Known ==
  /\ HeardKnown /\ StopsFirst(stack["gui"])
  /\ \A c \in Range(stack["gui"]) : FinishingOK(c)
  /\ Len(stack["audio"]) <= 1 /\ \A d \in Range(stack["audio"]) : CallingBackOK(d)

\* Lemma: calls of the GUI thread that stop nothing at once but by the first of them.
LEMMA StopsFirstStep ==
  ASSUME StackTypes, StopsFirst(stack["gui"]), stack["gui"] # << >>,
         NEW more \in Seq(CallType), Become("gui", more),
         \A c \in Range(more) : ~Stopping(c) \/ (Len(more) = 1 /\ GivenUp(c.s)')
  PROVE  /\ StopsFirst(stack["gui"])'
         /\ stack'["audio"] = stack["audio"]
         /\ \A c \in Range(stack'["gui"]) : c.op = "finish" => c \in Range(more)
<1>1. PICK q : q = stack["gui"]
  OBVIOUS
<1>2. q \in Seq(CallType) /\ q # << >>
  BY <1>1 DEF StackTypes, Threads
<1>3. PICK r : r = more \o Tail(q)
  OBVIOUS
<1>4. /\ Len(r) = Len(more) + Len(q) - 1 /\ r \in Seq(CallType)
      /\ \A i \in 1 .. Len(more) : r[i] = more[i]
      /\ \A i \in Len(more) + 1 .. Len(r) :
           i - Len(more) + 1 \in 2 .. Len(q) /\ r[i] = q[i - Len(more) + 1]
      /\ Len(more) \in Nat /\ Len(q) \in Nat
  BY <1>2, <1>3, ReplacedFacts
<1>5. stack'["gui"] = r /\ stack'["audio"] = stack["audio"]
  <2>1. "gui" \in Threads /\ "audio" \in Threads
    BY DEF Threads
  <2> QED BY <1>1, <1>3, <2>1 DEF StackTypes, Become
<1>6. ASSUME NEW i \in 1 .. Len(r)
      PROVE  \/ ~Stopping(r[i])
             \/ i = 1 /\ r[i] \in Range(more) /\ GivenUp(r[i].s)'
  <2>1. CASE i <= Len(more)
    <3>1. i \in 1 .. Len(more) /\ r[i] = more[i] /\ r[i] \in Range(more)
      BY <1>4, <2>1, RangeFacts
    <3> QED BY <1>4, <3>1
  <2>2. CASE ~(i <= Len(more))
    <3>1. PICK k \in 2 .. Len(q) : r[i] = q[k]
      BY <1>4, <2>2
    <3>2. k \in 1 .. Len(q) /\ k # 1
      BY <1>4, <3>1
    <3> QED BY <1>1, <3>1, <3>2 DEF StopsFirst
  <2> QED BY <2>1, <2>2
<1>7. StopsFirst(stack["gui"])'
  BY <1>5, <1>6 DEF StopsFirst
<1>8. ASSUME NEW c \in Range(r), c.op = "finish" PROVE c \in Range(more)
  <2>1. PICK i \in 1 .. Len(r) : r[i] = c
    BY <1>4, RangeFacts
  <2> QED BY <1>6, <1>8, <2>1 DEF Stopping
<1> QED BY <1>5, <1>7, <1>8

\* Lemma: what has been given up stays so.
LEMMA StopsFirstKept ==
  ASSUME StackTypes, StopsFirst(stack["gui"]), Calmer, stack'["gui"] = stack["gui"]
  PROVE  StopsFirst(stack["gui"])'
<1>1. \A s : GivenUp(s) => GivenUp(s)'
  BY DEF GivenUp, Calmer
<1> QED BY <1>1 DEF StopsFirst

\* Lemma: the callback makes no call while the GUI thread has the lock.
LEMMA LockedOut ==
  ASSUME CallbackOver, Lock("gui")
  PROVE  stack["audio"] = << >> /\ Range(stack["audio"]) = {}
<1>1. stack["audio"] = << >>
  BY DEF CallbackOver, Lock
<1> QED BY <1>1, NoCall

\* Lemma: what follows for the callback's call when it is replaced.
LEMMA AudioStep ==
  ASSUME StackTypes, Len(stack["audio"]) <= 1, stack["audio"] # << >>,
         NEW more \in Seq(AudioCall), Become("audio", more)
  PROVE  /\ stack'["gui"] = stack["gui"] /\ Len(stack'["audio"]) = Len(more)
         /\ \A d \in Range(stack'["audio"]) : d \in Range(more)
<1>1. PICK q : q = stack["audio"]
  OBVIOUS
<1>2. q \in Seq(AudioCall) /\ q # << >> /\ Len(q) <= 1
  BY <1>1 DEF StackTypes
<1>3. Len(q) = 1
  <2>1. Len(q) \in Nat /\ Len(q) # 0
    BY <1>2
  <2>2. \A n \in Nat : n <= 1 /\ n # 0 => n = 1
    OBVIOUS
  <2> QED BY <1>2, <2>1, <2>2
<1>4. PICK r : r = more \o Tail(q)
  OBVIOUS
<1>5. /\ r \in Seq(AudioCall) /\ Len(r) = Len(more) + Len(q) - 1 /\ Len(more) \in Nat
      /\ \A i \in 1 .. Len(more) : r[i] = more[i]
  BY <1>2, <1>4, ReplacedFacts
<1>6. Len(r) = Len(more)
  BY <1>3, <1>5
<1>7. \A d \in Range(r) : d \in Range(more)
  <2> SUFFICES ASSUME NEW i \in 1 .. Len(r) PROVE r[i] \in Range(more)
    BY <1>5, RangeFacts
  <2>1. i \in 1 .. Len(more) /\ r[i] = more[i]
    BY <1>5, <1>6
  <2> QED BY <2>1, RangeFacts
<1>8. stack'["audio"] = r /\ stack'["gui"] = stack["gui"]
  <2>1. "gui" \in Threads /\ "audio" \in Threads /\ "gui" # "audio"
    BY DEF Threads
  <2> QED BY <1>1, <1>4, <2>1 DEF StackTypes, Become
<1> QED BY <1>6, <1>7, <1>8

\* Lemma: what is left to show of a step of the GUI thread.
LEMMA GuiKnown ==
  ASSUME Inv, Known, stack["gui"] # << >>, NEW more \in Seq(CallType), Become("gui", more),
         \A c \in Range(more) : ~Stopping(c) \/ (Len(more) = 1 /\ GivenUp(c.s)'),
         \A c \in Range(more) : c.op = "finish" => ~strm'[c.s].playing /\ stack["audio"] = << >>,
         \A d \in Range(stack["audio"]) : CallingBackOK(d) => CallingBackOK(d)',
         HeardKnown'
  PROVE  Known'
<1>1. /\ StopsFirst(stack["gui"])' /\ stack'["audio"] = stack["audio"]
      /\ \A c \in Range(stack'["gui"]) : c.op = "finish" => c \in Range(more)
  BY StopsFirstStep DEF Inv, Known
<1>2. ASSUME NEW c \in Range(stack'["gui"]) PROVE FinishingOK(c)'
  <2>1. c.op = "finish" => ~strm'[c.s].playing /\ Range(stack'["audio"]) = {}
    BY <1>1, NoCall
  <2> QED BY <2>1 DEF FinishingOK
<1>3. Len(stack'["audio"]) <= 1 /\ \A d \in Range(stack'["audio"]) : CallingBackOK(d)'
  BY <1>1 DEF Known
<1> QED BY <1>1, <1>2, <1>3 DEF Known

\* Lemma: of a step of the callback's call.
LEMMA AudioKnown ==
  ASSUME Inv, Known, stack["audio"] # << >>,
         NEW more \in Seq(AudioCall), Len(more) <= 1, Become("audio", more),
         Calmer, HeardKnown', \A d \in Range(more) : CallingBackOK(d)',
         \A c \in Range(stack["gui"]) :
           c.op = "finish" => ~strm'[c.s].playing /\ \A d \in Range(more) : NotStarted(c.s, d)'
  PROVE  Known'
<1>1. /\ stack'["gui"] = stack["gui"] /\ Len(stack'["audio"]) = Len(more)
      /\ \A d \in Range(stack'["audio"]) : d \in Range(more)
  BY AudioStep DEF Inv, Known
<1>2. StopsFirst(stack["gui"])'
  BY <1>1, StopsFirstKept DEF Inv, Known
<1>3. ASSUME NEW c \in Range(stack'["gui"]) PROVE FinishingOK(c)'
  BY <1>1 DEF FinishingOK
<1>4. Len(stack'["audio"]) <= 1 /\ \A d \in Range(stack'["audio"]) : CallingBackOK(d)'
  BY <1>1
<1> QED BY <1>2, <1>3, <1>4 DEF Known

\* Lemma: the call that resets fPlaying is the innermost, and its sound is given up.
LEMMA FinishGivenUp ==
  ASSUME Inv, Known, NEW c \in Range(stack["gui"]), c.op = "finish"
  PROVE  /\ c = Top("gui") /\ c.s \in Sounds /\ GivenUp(c.s) /\ ~strm[c.s].playing
         /\ \A d \in Range(stack["audio"]) : NotStarted(c.s, d)
<1>1. stack["gui"] \in Seq(CallType)
  BY DEF Inv, StackTypes, Threads
<1>2. PICK i \in 1 .. Len(stack["gui"]) : stack["gui"][i] = c
  BY <1>1, RangeFacts
<1>3. i = 1 /\ GivenUp(c.s)
  BY <1>2 DEF Known, StopsFirst, Stopping
<1>4. Top("gui") = stack["gui"][1]
  BY <1>1, <1>2 DEF Top
<1>5. c \in CallType
  BY <1>1, <1>2
<1>6. c.s \in Sounds
  BY <1>5 DEF CallType, OnSound
<1> QED BY <1>2, <1>3, <1>4, <1>6 DEF Known, FinishingOK

\* Lemma: no entry that is deleted leaves a sound that is heard and does not know.
LEMMA DeleteKnown ==
  ASSUME Inv, Known, NEW t \in Threads, NEW gone \in SUBSET Sounds, NEW last,
         DeleteEntries(t, gone, last), strm' = strm
  PROVE  /\ HeardKnown'
         /\ t = "gui" => \A d \in Range(stack["audio"]) : CallingBackOK(d) => CallingBackOK(d)'
<1>1. /\ \A s \in Sounds : snd'[s] = IF s \in gone /\ ~tag[s] THEN Silent ELSE snd[s]
      /\ \A s \in Sounds : life'[s] = IF s \in gone /\ ~tag[s] THEN "dead" ELSE life[s]
      /\ (\E s \in gone : ~tag[s]) => Lock(t)
  BY DEF DeleteEntries
<1>2. HeardKnown'
  BY <1>1 DEF Known, HeardKnown
<1>3. ASSUME t = "gui", NEW d \in Range(stack["audio"]), CallingBackOK(d)
      PROVE  CallingBackOK(d)'
  <2>1. ~Lock("gui")
    BY <1>3, LockedOut DEF Inv
  <2>2. \A s \in Sounds : life'[s] = life[s]
    BY <1>1, <1>3, <2>1
  <2>3. d \in CallType
    BY <1>3, RangeFacts DEF Inv, StackTypes, Threads
  <2>4. d.op \in OnSound => d.s \in Sounds
    BY <2>3 DEF CallType
  <2> QED BY <1>3, <2>2, <2>4 DEF CallingBackOK
<1> QED BY <1>2, <1>3

\* Lemma: add_sound.
LEMMA AddSoundKnown ==
  ASSUME Inv, Known, NEW t \in Threads, AddSound(t)
  PROVE  Known'
<1>1. /\ StackTypes /\ stack[t] # << >> /\ Top(t) = stack[t][1] /\ Top(t).op = "add" /\ t = "gui"
  BY InFacts DEF AddSound, Inv, Threads
<1>2. stack[t] \in Seq(CallType) /\ 1 \in 1 .. Len(stack[t]) /\ Len(stack[t]) \in Nat
  BY <1>1 DEF StackTypes
<1>3. PICK more \in {<<Call("maybe", None)>>, << >>} : Become(t, more)
  BY DEF AddSound, Return
<1>4. more \in Seq(CallType) /\ \A c \in Range(more) : c.op = "maybe"
  <2>1. Call("maybe", None) \in CallType /\ Call("maybe", None).op = "maybe"
    BY CallFacts DEF OnSound
  <2>2. <<Call("maybe", None)>> \in Seq(CallType)
        /\ Range(<<Call("maybe", None)>>) = {Call("maybe", None)}
    BY <2>1, OneCall
  <2>3. << >> \in Seq(CallType) /\ Range(<< >>) = {}
    BY NoCall
  <2> QED BY <1>3, <2>1, <2>2, <2>3
<1>5. life' = life /\ strm' = strm
  BY DEF AddSound, audio
<1>6. HeardKnown'
  <2>1. \A s \in Sounds : snd'[s].fPlaying = snd[s].fPlaying
    <3>1. \/ snd' = snd
          \/ \E x, k : snd' = [snd EXCEPT ![x].fCrossFade = TRUE, ![x].timer = k]
      BY DEF AddSound
    <3>2. \A s \in Sounds : snd[s] \in SndType
      BY DEF Inv, SoundTypes
    <3>3. ASSUME NEW x, NEW k, snd' = [snd EXCEPT ![x].fCrossFade = TRUE, ![x].timer = k],
                 NEW s \in Sounds
          PROVE  snd'[s].fPlaying = snd[s].fPlaying
      BY <3>2, <3>3 DEF Inv, SoundTypes, SndType
    <3> QED BY <3>1, <3>3
  <2> QED BY <1>5, <2>1 DEF Known, HeardKnown
<1>7. \A c \in Range(more) : ~Stopping(c) /\ c.op # "finish"
  BY <1>4 DEF Stopping
<1>8. \A d \in Range(stack["audio"]) : CallingBackOK(d) => CallingBackOK(d)'
  BY <1>5 DEF CallingBackOK
<1> QED BY <1>1, <1>3, <1>4, <1>6, <1>7, <1>8, GuiKnown

\* Lemma: stop_current_sound.
LEMMA StopCurrentSoundKnown ==
  ASSUME Inv, Known, NEW t \in Threads, StopCurrentSound(t)
  PROVE  Known'
<1>1. StackTypes /\ stack[t] # << >> /\ Top(t) \in CallType /\ t = "gui"
  BY InFacts DEF StopCurrentSound, Inv, Threads
<1>2. strm' = strm
  BY DEF StopCurrentSound, audio
<1>3. CASE playing_ # None
  <2>1. PICK c : c = CallHow("cancel", playing_, Top(t).how)
    OBVIOUS
  <2>2. PICK p : p = playing_
    OBVIOUS
  <2>3. cancelled' = MarkCancelled /\ Become(t, <<c>>) /\ queue' = queue /\ life' = life /\ snd' = snd
    BY <1>3, <2>1 DEF StopCurrentSound
  <2>4. p \in Sounds /\ p \in Range(queue) /\ Top(t).how \in Hows \union {"cut"}
    BY <1>1, <1>3, <2>2, RangeFacts DEF Inv, QueueOK, CallType
  <2>5. c \in CallType /\ c.op = "cancel" /\ c.s = p
    BY <2>1, <2>2, <2>4, CallFacts DEF OnSound
  <2>6. <<c>> \in Seq(CallType) /\ Range(<<c>>) = {c} /\ Len(<<c>>) = 1
    BY <2>5, OneCall
  <2>7. GivenUp(p)'
    <3>1. cancelled'[p]
      BY <2>3, <2>4 DEF MarkCancelled
    <3> QED BY <3>1 DEF GivenUp
  <2>8. HeardKnown'
    BY <1>2, <2>3 DEF Known, HeardKnown
  <2>9. \A d \in Range(stack["audio"]) : CallingBackOK(d) => CallingBackOK(d)'
    BY <1>2, <2>3 DEF CallingBackOK
  <2>10. \A x \in Range(<<c>>) : x.op # "finish" /\ Len(<<c>>) = 1 /\ GivenUp(x.s)'
    <3>1. GivenUp(c.s)'
      BY <2>5, <2>7
    <3> QED BY <2>5, <2>6, <3>1
  <2> QED BY <1>1, <2>3, <2>6, <2>8, <2>9, <2>10, GuiKnown
<1>4. CASE playing_ = None
  <2>1. DeleteEntries(t, Range(queue), last_played_) /\ Become(t, << >>)
    BY <1>4 DEF StopCurrentSound, Return
  <2>2. Range(queue) \in SUBSET Sounds
    BY RangeFacts DEF Inv, QueueOK
  <2>3. HeardKnown' /\ \A d \in Range(stack["audio"]) : CallingBackOK(d) => CallingBackOK(d)'
    BY <1>1, <1>2, <2>1, <2>2, DeleteKnown
  <2>4. << >> \in Seq(CallType) /\ Range(<< >>) = {}
    BY NoCall
  <2> QED BY <1>1, <2>1, <2>3, <2>4, GuiKnown
<1> QED BY <1>3, <1>4

\* Lemma: on_sound_done.
LEMMA OnSoundDoneKnown ==
  ASSUME Inv, Known, NEW t \in Threads, OnSoundDone(t)
  PROVE  Known'
<1> DEFINE now == IF playing_ = None \/ left[playing_] = 0 THEN left
                  ELSE [left EXCEPT ![playing_] = @ - Top(t).n]
           gone == {e \in Range(queue) : cancelled[e]}
                     \union {e \in {playing_} \ {None} : left[e] # 0 /\ now[e] = 0}
           m == Call("maybe", None)
<1>1. StackTypes /\ stack[t] # << >> /\ Top(t).op = "done"
  BY InFacts DEF OnSoundDone, Inv
<1>2. /\ cancelled' = [s \in Sounds |-> cancelled[s] /\ s \notin gone]
      /\ Become(t, <<m>>) /\ DeleteEntries(t, gone, playing_) /\ tag' = tag /\ strm' = strm
  BY DEF OnSoundDone, audio
<1>3. Range(queue) \subseteq Sounds /\ playing_ \in Sounds \union {None}
  BY RangeFacts DEF Inv, QueueOK
<1>4. gone \in SUBSET Sounds /\ \A e \in Range(queue) : cancelled[e] => e \in gone
  BY <1>3
<1> HIDE DEF gone
<1>5. queue' \in Seq(Sounds) /\ Range(queue') = Range(queue) \ gone
  BY <1>2, <1>4, DeleteFacts DEF Inv, QueueOK
<1>6. m \in AudioCall /\ m \in CallType /\ m.op = "maybe"
  BY CallFacts DEF OnSound, AudioCall
<1> HIDE DEF m
<1>7. /\ <<m>> \in Seq(CallType) /\ <<m>> \in Seq(AudioCall) /\ Len(<<m>>) = 1
      /\ Range(<<m>>) = {m}
  BY <1>6, OneCall
<1>8. HeardKnown' /\ (t = "gui" => \A d \in Range(stack["audio"]) : CallingBackOK(d) => CallingBackOK(d)')
  BY <1>2, <1>4, DeleteKnown
<1>9. CASE t = "gui"
  <2>1. \A c \in Range(<<m>>) : ~Stopping(c) /\ c.op # "finish"
    BY <1>6, <1>7 DEF Stopping
  <2> QED BY <1>1, <1>2, <1>7, <1>8, <1>9, <2>1, GuiKnown
<1>10. CASE t = "audio"
  <2>1. Calmer
    BY <1>2, <1>3, <1>5 DEF Calmer
  <2>2. \A d \in Range(<<m>>) : CallingBackOK(d)'
    BY <1>6, <1>7 DEF CallingBackOK, OnSound
  <2>3. ASSUME NEW c \in Range(stack["gui"]), c.op = "finish"
        PROVE  ~strm'[c.s].playing /\ \A d \in Range(<<m>>) : NotStarted(c.s, d)'
    <3>1. GivenUp(c.s) /\ ~strm[c.s].playing
      BY <2>3, FinishGivenUp
    <3>2. c.s \notin Range(queue')
      BY <1>4, <1>5, <3>1 DEF GivenUp
    <3> QED BY <1>2, <1>6, <1>7, <3>1, <3>2 DEF NotStarted
  <2>4. Len(<<m>>) <= 1
    BY <1>7
  <2> QED BY <1>1, <1>2, <1>7, <1>8, <1>10, <2>1, <2>2, <2>3, <2>4, AudioKnown
<1> QED BY <1>9, <1>10 DEF Threads

\* Lemma: the callback's call returns.
LEMMA AudioReturns ==
  ASSUME Inv, Known, stack["audio"] # << >>, Become("audio", << >>), Calmer, HeardKnown',
         \A c \in Range(stack["gui"]) : c.op = "finish" => ~strm'[c.s].playing
  PROVE  Known'
<1>1. PICK more : more = << >>
  OBVIOUS
<1>2. more \in Seq(AudioCall) /\ Range(more) = {} /\ Len(more) <= 1 /\ Become("audio", more)
  <2>1. Len(<< >>) = 0 /\ 0 <= 1
    OBVIOUS
  <2> QED BY <1>1, <2>1, NoCall
<1> QED BY <1>2, AudioKnown

\* Lemma: maybe_start_sound.
LEMMA MaybeStartSoundKnown ==
  ASSUME Inv, Known, NEW t \in Threads, MaybeStartSound(t)
  PROVE  Known'
<1>1. /\ StackTypes /\ stack[t] # << >> /\ Top(t).op = "maybe" /\ Top(t) \in Range(stack[t])
      /\ UNCHANGED <<tag, cancelled, strm>>
  BY InFacts DEF MaybeStartSound, Inv, audio
<1>2. ASSUME NEW c \in Range(stack["gui"]), c.op = "finish"
      PROVE  ~strm'[c.s].playing /\ (t = "audio" => c.s \notin Range(queue))
  <2>1. ~strm[c.s].playing /\ \A d \in Range(stack["audio"]) : NotStarted(c.s, d)
    BY <1>2, FinishGivenUp
  <2> QED BY <1>1, <2>1 DEF NotStarted
<1>3. CASE Return(t) /\ UNCHANGED <<life, attr, snd, qvars>>
  <2>1. << >> \in Seq(CallType) /\ Range(<< >>) = {}
    BY NoCall
  <2>2. HeardKnown' /\ \A d \in Range(stack["audio"]) : CallingBackOK(d) => CallingBackOK(d)'
    BY <1>1, <1>3 DEF Known, HeardKnown, CallingBackOK
  <2>3. Calmer
    BY <1>1, <1>3 DEF Calmer, qvars
  <2>4. Become(t, << >>)
    BY <1>3 DEF Return
  <2>5. CASE t = "gui"
    BY <1>1, <2>1, <2>2, <2>4, <2>5, GuiKnown
  <2>6. CASE t = "audio"
    BY <1>1, <1>2, <2>2, <2>3, <2>4, <2>6, AudioReturns
  <2> QED BY <2>5, <2>6 DEF Threads
<1>4. ASSUME NEW e, NEW how \in Hows, NEW gone \in SUBSET Sounds, e \in Range(queue), playing_' = e,
             \/ DeleteEntries(t, gone, last_played_)
             \/ UNCHANGED <<life, attr, snd, queue, last_played_>>,
             NEW c, c = CallHow("start", e, how), Become(t, <<c>>)
      PROVE  Known'
  <2>1. Range(queue) \subseteq Sounds /\ e \in Sounds
    BY <1>4, RangeFacts DEF Inv, QueueOK
  <2>2. c \in CallType /\ c \in AudioCall /\ c.op = "start" /\ c.s = e
    <3>1. c \in CallType /\ c.op = "start" /\ c.s = e
      BY <1>4, <2>1, CallFacts DEF OnSound
    <3> QED BY <3>1 DEF AudioCall
  <2>3. /\ <<c>> \in Seq(CallType) /\ <<c>> \in Seq(AudioCall) /\ Range(<<c>>) = {c}
        /\ Len(<<c>>) = 1
    BY <2>2, OneCall
  <2>4. HeardKnown' /\ (t = "gui" => \A d \in Range(stack["audio"]) : CallingBackOK(d) => CallingBackOK(d)')
    <3>1. CASE DeleteEntries(t, gone, last_played_)
      BY <1>1, <3>1, DeleteKnown
    <3>2. CASE UNCHANGED <<life, attr, snd, queue, last_played_>>
      BY <1>1, <3>2 DEF Known, HeardKnown, CallingBackOK
    <3> QED BY <1>4, <3>1, <3>2
  <2>5. CASE t = "gui"
    <3>1. \A d \in Range(<<c>>) : ~Stopping(d) /\ d.op # "finish"
      BY <2>2, <2>3 DEF Stopping
    <3> QED BY <1>1, <1>4, <2>3, <2>4, <2>5, <3>1, GuiKnown
  <2>6. CASE t = "audio"
    <3>1. life'[e] = "live"
      <4>1. QueueOK'
        BY MaybeStartSoundInv DEF Inv
      <4>2. e # None
        BY <2>1, SoundAssumption
      <4> QED BY <1>4, <4>1, <4>2 DEF QueueOK
    <3>2. \A d \in Range(<<c>>) : CallingBackOK(d)'
      BY <2>2, <2>3, <3>1 DEF CallingBackOK
    <3>3. Range(queue') \subseteq Range(queue)
      <4>1. CASE DeleteEntries(t, gone, last_played_)
        BY <1>1, <4>1, DeleteFacts DEF Inv, QueueOK
      <4> QED BY <1>4, <4>1
    <3>4. Calmer
      BY <1>1, <3>3 DEF Calmer
    <3>5. ASSUME NEW d \in Range(stack["gui"]), d.op = "finish"
          PROVE  ~strm'[d.s].playing /\ \A x \in Range(<<c>>) : NotStarted(d.s, x)'
      <4>1. d.s \notin Range(queue') /\ e # d.s
        BY <1>2, <1>4, <2>6, <3>3, <3>5
      <4> QED BY <1>2, <2>2, <2>3, <3>5, <4>1 DEF NotStarted
    <3>6. Len(<<c>>) <= 1
      BY <2>3
    <3> QED BY <1>1, <1>4, <2>3, <2>4, <2>6, <3>2, <3>4, <3>5, <3>6, AudioKnown
  <2> QED BY <2>5, <2>6 DEF Threads
<1>5. CASE /\ playing_ = None /\ queue # << >>
           /\ \E i \in From, j \in DOMAIN queue :
                LET e == queue[j]
                    more == seq_mode \in {"loop", "random"} /\ Len(queue) > 1
                IN  /\ MayCome(i, j)
                    /\ playing_' = e
                    /\ seq_mode' = attr[e].seq
                    /\ IF attr[e].seq = "replace"
                       THEN DeleteEntries(t, {queue[k] : k \in 1 .. j - 1}, last_played_)
                       ELSE UNCHANGED <<life, attr, snd, queue, last_played_>>
                    /\ Become(t, <<CallHow("start", e, IF more THEN "fade" ELSE "halt")>>)
  <2>1. PICK j \in DOMAIN queue :
          /\ playing_' = queue[j]
          /\ IF attr[queue[j]].seq = "replace"
             THEN DeleteEntries(t, {queue[k] : k \in 1 .. j - 1}, last_played_)
             ELSE UNCHANGED <<life, attr, snd, queue, last_played_>>
          /\ Become(t, <<CallHow("start", queue[j],
                                 IF seq_mode \in {"loop", "random"} /\ Len(queue) > 1
                                 THEN "fade" ELSE "halt")>>)
    BY <1>5
  <2>2. PICK how \in Hows : Become(t, <<CallHow("start", queue[j], how)>>)
    <3>1. "fade" \in Hows /\ "halt" \in Hows
      BY DEF Hows
    <3> QED BY <2>1, <3>1
  <2>3. PICK e, c, gone : /\ e = queue[j] /\ c = CallHow("start", queue[j], how)
                          /\ gone = {queue[k] : k \in 1 .. j - 1}
    OBVIOUS
  <2>4. queue \in Seq(Sounds) /\ j \in 1 .. Len(queue) /\ Len(queue) \in Nat
    BY DEF Inv, QueueOK
  <2>5. e \in Range(queue)
    BY <2>3, <2>4, RangeFacts
  <2>6. gone \in SUBSET Sounds
    <3>1. \A k \in 1 .. j - 1 : k \in 1 .. Len(queue)
      BY <2>4
    <3> QED BY <2>3, <2>4, <3>1
  <2>7. \/ DeleteEntries(t, gone, last_played_)
        \/ UNCHANGED <<life, attr, snd, queue, last_played_>>
    BY <2>1, <2>3
  <2>8. c = CallHow("start", e, how) /\ Become(t, <<c>>) /\ playing_' = e
    BY <2>1, <2>2, <2>3
  <2> QED BY <1>4, <2>5, <2>6, <2>7, <2>8
<1> QED BY <1>3, <1>5 DEF MaybeStartSound

\* Lemma: what startPlaying leaves of a sound and its stream.
LEMMA Started ==
  ASSUME Inv, NEW t \in Threads, StartPlaying(t), enabled
  PROVE  LET e == Top(t).s
         IN  /\ Lock(t) /\ e \in Sounds /\ Become(t, << >>) /\ cancelled' = cancelled
             /\ snd'[e].fPlaying
             /\ \A s \in Sounds : s # e => strm'[s] = strm[s] /\ snd'[s] = snd[s]
<1>1. PICK e : e = Top(t).s
  OBVIOUS
<1>2. Top(t) \in CallType /\ Top(t).op = "start"
  BY InFacts DEF StartPlaying, Inv
<1>3. e \in Sounds
  BY <1>1, <1>2 DEF CallType, OnSound
<1> DEFINE repeat == IF attr[e].seq \in {"default", "replace"} /\ ~attr[e].rnd THEN left[e] ELSE 1
           fade_in == attr[e].fadein /\ left[e] = attr[e].repeat
           fade_out == attr[e].fadeout /\ repeat = left[e] /\ repeat # 0 /\ Top(t).how = "halt"
           timer == IF fade_out /\ repeat = 1 THEN "on" ELSE snd[e].timer
           new == [fPlaying |-> TRUE, fRepeats |-> 1, fCrossFade |-> attr[e].xout, done |-> TRUE,
                   timer |-> timer]
           st == Play(strm[e], repeat, fade_in)
<1>4. strm' = [strm EXCEPT ![e] = st] /\ snd' = [snd EXCEPT ![e] = new] /\ new.fPlaying
  BY <1>1 DEF StartPlaying
<1> HIDE DEF new, st
<1>5. Lock(t) /\ Become(t, << >>) /\ cancelled' = cancelled
  BY DEF StartPlaying, Return
<1>6. snd'[e].fPlaying /\ \A s \in Sounds : s # e => strm'[s] = strm[s] /\ snd'[s] = snd[s]
  BY <1>3, <1>4 DEF Inv, StreamTypes, SoundTypes
<1> QED BY <1>1, <1>3, <1>5, <1>6

\* Lemma: startPlaying.
LEMMA StartPlayingKnown ==
  ASSUME Inv, Known, NEW t \in Threads, StartPlaying(t)
  PROVE  Known'
<1>1. PICK e : e = Top(t).s
  OBVIOUS
<1>2. /\ StackTypes /\ stack[t] # << >> /\ Top(t) \in CallType /\ Top(t).op = "start"
      /\ Top(t) \in Range(stack[t])
  BY InFacts DEF StartPlaying, Inv
<1>3. e \in Sounds /\ life' = life /\ queue' = queue
  BY <1>1, <1>2 DEF CallType, OnSound, StartPlaying, qvars
<1>4. ASSUME NEW c \in Range(stack["gui"]), c.op = "finish"
      PROVE  c.s \in Sounds /\ ~strm[c.s].playing /\ (t = "audio" => c.s # e)
  <2>1. c.s \in Sounds /\ ~strm[c.s].playing /\ \A d \in Range(stack["audio"]) : NotStarted(c.s, d)
    BY <1>4, FinishGivenUp
  <2> QED BY <1>1, <1>2, <2>1 DEF NotStarted
<1>5. CASE enabled
  <2>1. /\ Lock(t) /\ Become(t, << >>) /\ cancelled' = cancelled /\ snd'[e].fPlaying
        /\ \A s \in Sounds : s # e => strm'[s] = strm[s] /\ snd'[s] = snd[s]
    BY <1>1, <1>5, Started
  <2>2. << >> \in Seq(CallType) /\ Range(<< >>) = {}
    BY NoCall
  <2>3. HeardKnown'
    BY <1>3, <2>1 DEF Known, HeardKnown
  <2>4. CASE t = "gui"
    <3>1. Range(stack["audio"]) = {}
      BY <2>1, <2>4, LockedOut DEF Inv
    <3> QED BY <1>2, <2>1, <2>2, <2>3, <2>4, <3>1, GuiKnown
  <2>5. CASE t = "audio"
    <3>1. Calmer
      BY <1>3, <2>1 DEF Calmer
    <3>2. \A c \in Range(stack["gui"]) : c.op = "finish" => ~strm'[c.s].playing
      BY <1>4, <2>1, <2>5
    <3> QED BY <1>2, <2>1, <2>3, <2>5, <3>1, <3>2, AudioReturns
  <2> QED BY <2>4, <2>5 DEF Threads
<1>6. CASE ~enabled
  <2>1. PICK c : c = DoneCall(e, 0)
    OBVIOUS
  <2>2. /\ cancelled' = [cancelled EXCEPT ![e] = TRUE] /\ Become(t, <<c>>)
        /\ UNCHANGED <<strm, snd>>
    BY <1>1, <1>6, <2>1 DEF StartPlaying
  <2>3. c \in AudioCall /\ c \in CallType /\ c.op = "done"
    <3>1. c \in AudioCall /\ c.op = "done"
      BY <1>3, <2>1, DoneCallFacts
    <3> QED BY <3>1 DEF AudioCall
  <2>4. /\ <<c>> \in Seq(CallType) /\ <<c>> \in Seq(AudioCall) /\ Range(<<c>>) = {c}
        /\ Len(<<c>>) = 1
    BY <2>3, OneCall
  <2>5. HeardKnown' /\ \A d \in Range(stack["audio"]) : CallingBackOK(d) => CallingBackOK(d)'
    BY <1>3, <2>2 DEF Known, HeardKnown, CallingBackOK
  <2>6. CASE t = "gui"
    <3>1. \A d \in Range(<<c>>) : ~Stopping(d) /\ d.op # "finish"
      BY <2>3, <2>4 DEF Stopping
    <3> QED BY <1>2, <2>2, <2>4, <2>5, <2>6, <3>1, GuiKnown
  <2>7. CASE t = "audio"
    <3>1. Calmer
      <4>1. Range(queue) \subseteq Sounds
        BY RangeFacts DEF Inv, QueueOK
      <4> QED BY <1>3, <2>2, <4>1 DEF Calmer, Inv, EntryTypes
    <3>2. \A d \in Range(<<c>>) : CallingBackOK(d)'
      BY <2>3, <2>4 DEF CallingBackOK, OnSound
    <3>3. \A d \in Range(stack["gui"]) :
            d.op = "finish" => ~strm'[d.s].playing /\ \A x \in Range(<<c>>) : NotStarted(d.s, x)'
      BY <1>4, <2>2, <2>3, <2>4 DEF NotStarted
    <3>4. Len(<<c>>) <= 1
      BY <2>4
    <3> QED BY <1>2, <2>2, <2>4, <2>5, <2>7, <3>1, <3>2, <3>3, <3>4, AudioKnown
  <2> QED BY <2>6, <2>7 DEF Threads
<1> QED BY <1>5, <1>6

\* Lemma: calls that leave the queue, the sounds and the streams alone.
LEMMA OnlyCallsKnown ==
  ASSUME Inv, Known, stack["gui"] # << >>, NEW more \in Seq(CallType), Become("gui", more),
         UNCHANGED <<life, entries, qvars, snd, audio>>,
         \A c \in Range(more) : c.op # "finish" /\ (~Stopping(c) \/ (Len(more) = 1 /\ GivenUp(c.s)))
  PROVE  Known'
<1>1. HeardKnown' /\ \A d \in Range(stack["audio"]) : CallingBackOK(d) => CallingBackOK(d)'
  BY DEF Known, HeardKnown, CallingBackOK, audio
<1>2. \A s : GivenUp(s) => GivenUp(s)'
  BY DEF GivenUp, entries, qvars
<1> QED BY <1>1, <1>2, GuiKnown

\* Lemma: a call of stop.
LEMMA StopCallFacts ==
  ASSUME NEW s \in Sounds, NEW how \in Hows \union {"cut"}, NEW c, c = CallHow("stop", s, how)
  PROVE  /\ <<c>> \in Seq(CallType) /\ Range(<<c>>) = {c} /\ Len(<<c>>) = 1
         /\ c.op = "stop" /\ c.s = s /\ c.how = how
<1>1. c.op = "stop" /\ c.s = s /\ c.how = how
  BY DEF CallHow, Call
<1> QED BY <1>1, StopCall

\* Lemma: cancelPlaying and fDoFadeOut, where they tell the queue first.
LEMMA DoneAndStopKnown ==
  ASSUME Inv, Known, stack["gui"] # << >>, NEW s \in Sounds,
         NEW how \in {"crossfade", "cut"}, CallDone("gui", s, <<CallHow("stop", s, how)>>),
         UNCHANGED <<life, entries, qvars, snd, audio>>
  PROVE  Known'
<1>1. PICK c : c = CallHow("stop", s, how)
  OBVIOUS
<1>2. how \in Hows \union {"cut"} /\ how # "halt"
  BY DEF Hows
<1>3. <<c>> \in Seq(CallType) /\ Range(<<c>>) = {c} /\ c.op = "stop" /\ c.how # "halt"
  BY <1>1, <1>2, StopCallFacts
<1>4. CallDone("gui", s, <<c>>) /\ SoundTypes /\ "gui" \in Threads /\ "gui" # "audio"
  BY <1>1 DEF Inv, Threads
<1>5. PICK more \in Seq(CallType) :
        Become("gui", more) /\ \A d \in Range(more) : d.op = "done" \/ d \in Range(<<c>>)
  BY <1>3, <1>4, CallDoneFacts
<1>6. \A d \in Range(more) : d.op # "finish" /\ ~Stopping(d)
  BY <1>3, <1>5 DEF Stopping
<1> QED BY <1>5, <1>6, OnlyCallsKnown

\* Lemma: cancelPlaying.
LEMMA CancelPlayingKnown ==
  ASSUME Inv, Known, NEW t \in Threads, CancelPlaying(t)
  PROVE  Known'
<1>1. PICK s, how : s = Top(t).s /\ how = Top(t).how
  OBVIOUS
<1>2. /\ StackTypes /\ stack[t] # << >> /\ Top(t) \in CallType /\ Top(t).op = "cancel"
      /\ Top(t) = stack[t][1] /\ t = "gui"
  BY InFacts DEF CancelPlaying, Inv, Threads
<1>3. s \in Sounds /\ how \in Hows \union {"cut"} /\ UNCHANGED <<life, entries, qvars, snd, audio>>
  BY <1>1, <1>2 DEF CallType, OnSound, CancelPlaying
<1>4. how = "halt" => GivenUp(s)
  <2>1. 1 \in 1 .. Len(stack["gui"])
    BY <1>2 DEF StackTypes
  <2> QED BY <1>1, <1>2, <2>1 DEF Known, StopsFirst, Stopping
<1>5. CASE ~snd[s].fPlaying
  <2>1. Become(t, << >>)
    BY <1>1, <1>5 DEF CancelPlaying, Return
  <2>2. << >> \in Seq(CallType) /\ Range(<< >>) = {}
    BY NoCall
  <2> QED BY <1>2, <1>3, <2>1, <2>2, OnlyCallsKnown
<1>6. CASE snd[s].fPlaying /\ how = "crossfade"
  <2>1. CallDone(t, s, <<CallHow("stop", s, "crossfade")>>)
    BY <1>1, <1>6 DEF CancelPlaying
  <2> QED BY <1>2, <1>3, <2>1, DoneAndStopKnown
<1>7. CASE snd[s].fPlaying /\ how # "crossfade"
  <2>1. PICK c : c = CallHow("stop", s, how)
    OBVIOUS
  <2>2. Become(t, <<c>>)
    BY <1>1, <1>7, <2>1 DEF CancelPlaying
  <2>3. /\ <<c>> \in Seq(CallType) /\ Range(<<c>>) = {c} /\ Len(<<c>>) = 1
        /\ c.op = "stop" /\ c.s = s /\ c.how = how
    BY <1>3, <2>1, StopCallFacts
  <2>4. \A d \in Range(<<c>>) :
          d.op # "finish" /\ (~Stopping(d) \/ (Len(<<c>>) = 1 /\ GivenUp(d.s)))
    BY <1>4, <2>3 DEF Stopping
  <2> QED BY <1>2, <1>3, <2>2, <2>3, <2>4, OnlyCallsKnown
<1> QED BY <1>5, <1>6, <1>7

\* Lemma: fDoFadeOut.
LEMMA DoFadeOutKnown ==
  ASSUME Inv, Known, NEW t \in Threads, DoFadeOut(t)
  PROVE  Known'
<1>1. PICK s : s = Top(t).s
  OBVIOUS
<1>2. /\ StackTypes /\ stack[t] # << >> /\ Top(t) \in CallType /\ Top(t).op = "fadeout"
      /\ t = "gui"
  BY InFacts DEF DoFadeOut, Inv, Threads
<1>3. s \in Sounds /\ UNCHANGED <<life, entries, qvars, snd, audio>>
  BY <1>1, <1>2 DEF CallType, OnSound, DoFadeOut
<1>4. PICK how \in {"crossfade", "cut"} :
        IF snd[s].fCrossFade
        THEN CallDone(t, s, <<CallHow("stop", s, how)>>)
        ELSE Become(t, <<CallHow("stop", s, "fade")>>)
  BY <1>1 DEF DoFadeOut
<1>5. CASE snd[s].fCrossFade
  BY <1>2, <1>3, <1>4, <1>5, DoneAndStopKnown
<1>6. CASE ~snd[s].fCrossFade
  <2>1. PICK c : c = CallHow("stop", s, "fade")
    OBVIOUS
  <2>2. Become(t, <<c>>) /\ "fade" \in Hows \union {"cut"}
    BY <1>4, <1>6, <2>1 DEF Hows
  <2>3. /\ <<c>> \in Seq(CallType) /\ Range(<<c>>) = {c} /\ c.op = "stop" /\ c.how = "fade"
    BY <1>3, <2>1, <2>2, StopCallFacts
  <2>4. \A d \in Range(<<c>>) : d.op # "finish" /\ ~Stopping(d)
    BY <2>3 DEF Stopping
  <2> QED BY <1>2, <1>3, <2>2, <2>3, <2>4, OnlyCallsKnown
<1> QED BY <1>5, <1>6

\* Lemma: the end of cancelPlaying and of fDoFadeOut.
LEMMA StopStreamKnown ==
  ASSUME Inv, Known, NEW t \in Threads, StopStream(t)
  PROVE  Known'
<1>1. PICK s, how : s = Top(t).s /\ how = Top(t).how
  OBVIOUS
<1>2. /\ StackTypes /\ stack[t] # << >> /\ Top(t) \in CallType /\ Top(t).op = "stop"
      /\ Top(t) = stack[t][1] /\ t = "gui" /\ Lock(t)
  BY InFacts DEF StopStream, Inv, Threads
<1>3. s \in Sounds
  BY <1>1, <1>2 DEF CallType, OnSound
<1>4. PICK fade : fade = (how \in {"fade", "crossfade"})
  OBVIOUS
<1>5. PICK done, st : /\ snd' = [snd EXCEPT ![s].done = done]
                      /\ strm' = [strm EXCEPT ![s] = st]
                      /\ st = IF fade THEN StopFading(strm[s]) ELSE Stop(strm[s])
  <2>1. /\ snd' = [snd EXCEPT ![s].done = @ /\ KeepsDone(how)]
        /\ strm' = [strm EXCEPT ![s] = IF fade THEN StopFading(@) ELSE Stop(@)]
    BY <1>1, <1>4 DEF StopStream
  <2>2. /\ snd' = [snd EXCEPT ![s].done = (snd[s].done /\ KeepsDone(how))]
        /\ strm' = [strm EXCEPT ![s] = IF fade THEN StopFading(strm[s]) ELSE Stop(strm[s])]
    BY <2>1
  <2> QED BY <2>2
<1>6. st.playing => strm[s].playing
  BY <1>3, <1>5, StopFacts DEF Inv, StreamTypes
<1>7. life' = life /\ queue' = queue /\ cancelled' = cancelled
  BY DEF StopStream, entries, qvars
<1>8. HeardKnown'
  <2>1. \A x \in Sounds : snd'[x].fPlaying = snd[x].fPlaying /\ (strm'[x].playing => strm[x].playing)
    BY <1>3, <1>5, <1>6 DEF Inv, StreamTypes, SoundTypes, SndType
  <2> QED BY <1>7, <2>1 DEF Known, HeardKnown
<1>9. Range(stack["audio"]) = {} /\ stack["audio"] = << >>
  BY <1>2, LockedOut DEF Inv
<1>10. CASE how = "halt"
  <2>1. PICK c : c = Call("finish", s)
    OBVIOUS
  <2>2. Become(t, <<c>>)
    BY <1>1, <1>10, <2>1 DEF StopStream, Finishes
  <2>3. c \in CallType /\ c.op = "finish" /\ c.s = s
    BY <1>3, <2>1, CallFacts DEF OnSound
  <2>4. <<c>> \in Seq(CallType) /\ Range(<<c>>) = {c} /\ Len(<<c>>) = 1
    BY <2>3, OneCall
  <2>5. GivenUp(s)'
    <3>1. 1 \in 1 .. Len(stack["gui"])
      BY <1>2 DEF StackTypes
    <3>2. GivenUp(s)
      BY <1>1, <1>2, <1>10, <3>1 DEF Known, StopsFirst, Stopping
    <3> QED BY <1>7, <3>2 DEF GivenUp
  <2>6. ~strm'[s].playing
    <3>1. ~fade
      BY <1>4, <1>10
    <3>2. ~st.playing
      BY <1>3, <1>5, <3>1, StopFacts DEF Inv, StreamTypes
    <3> QED BY <1>3, <1>5, <3>2 DEF Inv, StreamTypes
  <2>7. \A x \in Range(<<c>>) : (Len(<<c>>) = 1 /\ GivenUp(x.s)') /\ ~strm'[x.s].playing
    <3>1. GivenUp(c.s)' /\ ~strm'[c.s].playing
      BY <2>3, <2>5, <2>6
    <3> QED BY <2>4, <3>1
  <2> QED BY <1>2, <1>8, <1>9, <2>2, <2>4, <2>7, GuiKnown
<1>11. CASE how # "halt"
  <2>1. Become(t, << >>)
    BY <1>1, <1>11 DEF StopStream, Finishes
  <2>2. << >> \in Seq(CallType) /\ Range(<< >>) = {}
    BY NoCall
  <2> QED BY <1>2, <1>8, <1>9, <2>1, <2>2, GuiKnown
<1> QED BY <1>10, <1>11

\* Lemma: fDone_func with nothing after it.
LEMMA DoneAlone ==
  ASSUME SoundTypes, NEW t \in Threads, NEW s \in Sounds, CallDone(t, s, << >>)
  PROVE  \E more \in Seq(AudioCall) :
           /\ more \in Seq(CallType) /\ Become(t, more) /\ Len(more) <= 1
           /\ \A c \in Range(more) : c.op = "done"
<1>1. PICK d : d = DoneCall(s, snd[s].fRepeats)
  OBVIOUS
<1>2. d \in AudioCall /\ d \in CallType /\ d.op = "done"
  <2>1. snd[s].fRepeats \in Nat
    BY DEF SoundTypes, SndType
  <2>2. d \in AudioCall /\ d.op = "done"
    BY <1>1, <2>1, DoneCallFacts
  <2> QED BY <2>2 DEF AudioCall
<1>3. <<d>> \o << >> = <<d>> /\ Len(<<d>>) = 1 /\ Len(<< >>) = 0 /\ 1 <= 1 /\ 0 <= 1
  OBVIOUS
<1>4. /\ <<d>> \in Seq(AudioCall) /\ <<d>> \in Seq(CallType) /\ Range(<<d>>) = {d}
      /\ << >> \in Seq(AudioCall) /\ << >> \in Seq(CallType) /\ Range(<< >>) = {}
  BY <1>2, OneCall, NoCall
<1>5. CASE snd[s].done
  <2>1. Become(t, <<d>>)
    BY <1>1, <1>3, <1>5 DEF CallDone
  <2> QED BY <1>2, <1>3, <1>4, <2>1
<1>6. CASE ~snd[s].done
  <2>1. Become(t, << >>)
    BY <1>6 DEF CallDone
  <2> QED BY <1>3, <1>4, <2>1
<1> QED BY <1>5, <1>6

\* Lemma: fFinishCallback.
LEMMA FinishCallbackKnown ==
  ASSUME Inv, Known, NEW t \in Threads, FinishCallback(t)
  PROVE  Known'
<1>1. PICK s : s = Top(t).s
  OBVIOUS
<1>2. /\ StackTypes /\ stack[t] # << >> /\ Top(t) \in CallType /\ Top(t).op = "finish"
      /\ Top(t) \in Range(stack[t])
  BY InFacts DEF FinishCallback, Inv
<1>3. s \in Sounds
  BY <1>1, <1>2 DEF CallType, OnSound
<1>4. /\ snd' = [snd EXCEPT ![s].fPlaying = FALSE] /\ CallDone(t, s, << >>)
      /\ life' = life /\ strm' = strm /\ UNCHANGED <<entries, qvars>>
  BY <1>1 DEF FinishCallback, audio
<1>5. PICK more \in Seq(AudioCall) :
        /\ more \in Seq(CallType) /\ Become(t, more) /\ Len(more) <= 1
        /\ \A c \in Range(more) : c.op = "done"
  BY <1>3, <1>4, DoneAlone DEF Inv
<1>6. ~strm[s].playing
  <2>1. CASE t = "gui"
    BY <1>1, <1>2, <2>1, FinishGivenUp
  <2>2. CASE t = "audio"
    BY <1>1, <1>2, <2>2 DEF Known, CallingBackOK
  <2> QED BY <2>1, <2>2 DEF Threads
<1>7. HeardKnown'
  <2>1. \A x \in Sounds : x # s => snd'[x] = snd[x]
    BY <1>3, <1>4 DEF Inv, SoundTypes
  <2> QED BY <1>4, <1>6, <2>1 DEF Known, HeardKnown
<1>8. CASE t = "gui"
  <2>1. \A d \in Range(stack["audio"]) : CallingBackOK(d) => CallingBackOK(d)'
    BY <1>4 DEF CallingBackOK
  <2>2. \A c \in Range(more) : ~Stopping(c) /\ c.op # "finish"
    BY <1>5 DEF Stopping
  <2> QED BY <1>2, <1>5, <1>7, <1>8, <2>1, <2>2, GuiKnown
<1>9. CASE t = "audio"
  <2>1. Calmer
    BY <1>4 DEF Calmer, entries, qvars
  <2>2. \A d \in Range(more) : CallingBackOK(d)'
    BY <1>5 DEF CallingBackOK, OnSound
  <2>3. ASSUME NEW c \in Range(stack["gui"]), c.op = "finish"
        PROVE  ~strm'[c.s].playing /\ \A d \in Range(more) : NotStarted(c.s, d)'
    <3>1. ~strm'[c.s].playing
      BY <1>4, <2>3, FinishGivenUp
    <3>2. \A d \in Range(more) : NotStarted(c.s, d)'
      BY <1>5 DEF NotStarted
    <3> QED BY <3>1, <3>2
  <2> QED BY <1>2, <1>5, <1>7, <1>9, <2>1, <2>2, <2>3, AudioKnown
<1> QED BY <1>8, <1>9 DEF Threads

\* Lemma: obsolete_prev_sounds.
LEMMA ObsoletePrevSoundsKnown ==
  ASSUME Inv, Known, NEW t \in Threads, ObsoletePrevSounds(t)
  PROVE  Known'
<1>1. StackTypes /\ stack[t] # << >> /\ t = "gui"
  BY InFacts DEF ObsoletePrevSounds, Inv, Threads
<1>2. PICK gone : /\ gone # {} => Lock(t)
                  /\ life' = [s \in Sounds |-> IF s \in gone THEN "dead" ELSE life[s]]
                  /\ snd' = [s \in Sounds |-> IF s \in gone THEN Silent ELSE snd[s]]
  BY DEF ObsoletePrevSounds
<1>3. Become(t, << >>) /\ strm' = strm
  BY DEF ObsoletePrevSounds, Return, audio
<1>4. HeardKnown'
  BY <1>2, <1>3 DEF Known, HeardKnown
<1>5. ASSUME NEW d \in Range(stack["audio"]), CallingBackOK(d) PROVE CallingBackOK(d)'
  <2>1. ~Lock("gui")
    BY <1>5, LockedOut DEF Inv
  <2>2. \A s \in Sounds : life'[s] = life[s]
    BY <1>1, <1>2, <2>1
  <2>3. d \in CallType
    BY <1>5, RangeFacts DEF Inv, StackTypes, Threads
  <2>4. d.op \in OnSound => d.s \in Sounds
    BY <2>3 DEF CallType
  <2> QED BY <1>3, <1>5, <2>2, <2>4 DEF CallingBackOK
<1>6. << >> \in Seq(CallType) /\ Range(<< >>) = {}
  BY NoCall
<1> QED BY <1>1, <1>3, <1>4, <1>5, <1>6, GuiKnown

\* Lemma: a step of an operation.
LEMMA CallStepKnown ==
  ASSUME Inv, Known, NEW t \in Threads, CallStep(t)
  PROVE  Known'
<1>1. CASE AddSound(t) \/ StopCurrentSound(t) \/ OnSoundDone(t)
  BY <1>1, AddSoundKnown, StopCurrentSoundKnown, OnSoundDoneKnown
<1>2. CASE MaybeStartSound(t) \/ StartPlaying(t) \/ CancelPlaying(t)
  BY <1>2, MaybeStartSoundKnown, StartPlayingKnown, CancelPlayingKnown
<1>3. CASE DoFadeOut(t) \/ StopStream(t)
  BY <1>3, DoFadeOutKnown, StopStreamKnown
<1>4. CASE FinishCallback(t) \/ ObsoletePrevSounds(t)
  BY <1>4, FinishCallbackKnown, ObsoletePrevSoundsKnown
<1> QED BY <1>1, <1>2, <1>3, <1>4 DEF CallStep

\* Lemma: an operation begins with calls that do not stop a sound at once.
LEMMA BeginKnown ==
  ASSUME Inv, Known, NEW calling \in Seq(CallType), Begin(calling),
         \A i \in 1 .. Len(calling) : ~Stopping(calling[i]), HeardKnown',
         \A d \in Range(stack["audio"]) : CallingBackOK(d) => CallingBackOK(d)'
  PROVE  Known'
<1>1. stack'["gui"] = calling /\ stack'["audio"] = stack["audio"]
  BY BeginFacts DEF Inv
<1>2. StopsFirst(stack["gui"])'
  BY <1>1 DEF StopsFirst
<1>3. ASSUME NEW c \in Range(stack'["gui"]) PROVE FinishingOK(c)'
  <2>1. c.op # "finish"
    BY <1>1, <1>3, RangeFacts DEF Stopping
  <2> QED BY <2>1 DEF FinishingOK
<1>4. Len(stack'["audio"]) <= 1 /\ \A d \in Range(stack'["audio"]) : CallingBackOK(d)'
  BY <1>1 DEF Known
<1> QED BY <1>2, <1>3, <1>4 DEF Known

\* Lemma: CHtmlTagSOUND::format.
LEMMA FormatSoundKnown ==
  ASSUME Inv, Known, NEW s \in Sounds, NEW a \in Attributes, FormatSound(s, a)
  PROVE  Known'
<1>1. PICK waiting, calling :
        /\ waiting = {x \in Sounds : life[x] = "dead" /\ ~strm[x].playing}
        /\ calling = FormatFrames(s, a)
  OBVIOUS
<1>2. /\ ~incb /\ Begin(calling) /\ snd' = [snd EXCEPT ![s] = Silent]
      /\ strm' = [x \in Sounds |-> IF x \in {s} \union waiting THEN Stopped ELSE strm[x]]
      /\ life' = [x \in Sounds |-> IF x = s THEN "live" ELSE IF x \in waiting THEN "none" ELSE life[x]]
  BY <1>1 DEF FormatSound, FormatFrames
<1>3. /\ calling \in Seq(CallType)
      /\ \/ Len(calling) = 1
         \/ Len(calling) = 3 /\ calling[1].op = "stopcur" /\ calling[2].op = "obsolete"
      /\ calling[Len(calling)].op = "add"
  BY <1>1, FormatCalls
<1>4. \A i \in 1 .. Len(calling) : ~Stopping(calling[i])
  <2>1. (\A i \in 1 .. 1 : i = 1) /\ \A i \in 1 .. 3 : i = 1 \/ i = 2 \/ i = 3
    OBVIOUS
  <2> QED BY <1>3, <2>1 DEF Stopping
<1>5. Range(stack["audio"]) = {}
  BY <1>2, NoCall DEF Inv, CallbackOver
<1>6. HeardKnown'
  <2>1. ~Stopped.playing
    BY DEF Stopped
  <2>2. ASSUME NEW x \in Sounds, strm'[x].playing
        PROVE  strm[x].playing /\ life'[x] = life[x] /\ snd'[x] = snd[x]
    <3>1. x # s /\ x \notin waiting
      BY <1>2, <2>1, <2>2
    <3> QED BY <1>2, <2>2, <3>1 DEF Inv, SoundTypes
  <2> QED BY <2>2 DEF Known, HeardKnown
<1> QED BY <1>2, <1>3, <1>4, <1>5, <1>6, BeginKnown

\* Lemma: one call, or none.
LEMMA BeginOneKnown ==
  ASSUME Inv, Known, HeardKnown', \A d \in Range(stack["audio"]) : CallingBackOK(d) => CallingBackOK(d)',
         NEW c \in CallType, ~Stopping(c), NEW calling \in {<<c>>, << >>}, Begin(calling)
  PROVE  Known'
<1>1. <<c>> \in Seq(CallType) /\ Len(<<c>>) = 1 /\ <<c>>[1] = c
  OBVIOUS
<1>2. << >> \in Seq(CallType) /\ Len(<< >>) = 0
  OBVIOUS
<1>3. (\A i \in 1 .. 1 : i = 1) /\ \A i \in 1 .. 0 : FALSE
  OBVIOUS
<1>4. calling \in Seq(CallType) /\ \A i \in 1 .. Len(calling) : calling[i] = c
  BY <1>1, <1>2, <1>3
<1>5. \A i \in 1 .. Len(calling) : ~Stopping(calling[i])
  BY <1>4
<1> QED BY <1>4, <1>5, BeginKnown

\* Lemma: two calls.
LEMMA BeginTwoKnown ==
  ASSUME Inv, Known, HeardKnown', \A d \in Range(stack["audio"]) : CallingBackOK(d) => CallingBackOK(d)',
         NEW c \in CallType, NEW d \in CallType, ~Stopping(c), ~Stopping(d), Begin(<<c, d>>)
  PROVE  Known'
<1>1. /\ <<c, d>> \in Seq(CallType)
      /\ \A i \in 1 .. Len(<<c, d>>) : <<c, d>>[i] = c \/ <<c, d>>[i] = d
  BY TwoCalls
<1>2. \A i \in 1 .. Len(<<c, d>>) : ~Stopping(<<c, d>>[i])
  BY <1>1
<1> QED BY <1>1, <1>2, BeginKnown

\* Lemma: the other operations.
LEMMA BeginningsKnown ==
  ASSUME Inv, Known,
         \/ \E how \in Hows : FormatCancel(how)
         \/ StartNewPage \/ NotifyPreferencesChange \/ OnTimer
         \/ \E s \in Sounds : FadeOutTimer(s)
  PROVE  Known'
<1>1. life' = life /\ strm' = strm
  BY DEF FormatCancel, StartNewPage, NotifyPreferencesChange, OnTimer, FadeOutTimer, audio
<1>2. HeardKnown'
  <2>1. \/ snd' = snd
        \/ \E s \in Sounds : snd' = [snd EXCEPT ![s].timer = "off"]
    BY DEF FormatCancel, StartNewPage, NotifyPreferencesChange, OnTimer, FadeOutTimer
  <2>2. \A x \in Sounds : snd'[x].fPlaying = snd[x].fPlaying
    BY <2>1 DEF Inv, SoundTypes, SndType
  <2> QED BY <1>1, <2>2 DEF Known, HeardKnown
<1>3. \A d \in Range(stack["audio"]) : CallingBackOK(d) => CallingBackOK(d)'
  BY <1>1 DEF CallingBackOK
<1>4. PICK c : c = Call("stopcur", None)
  OBVIOUS
<1>5. PICK d : d = Call("obsolete", None)
  OBVIOUS
<1>6. c \in CallType /\ d \in CallType /\ ~Stopping(c) /\ ~Stopping(d)
  <2>1. c \in CallType /\ d \in CallType /\ c.op = "stopcur" /\ d.op = "obsolete"
    BY <1>4, <1>5, FirstCalls DEF Hows
  <2> QED BY <2>1 DEF Stopping
<1>7. ASSUME NEW how \in Hows, FormatCancel(how) PROVE Known'
  <2>1. PICK x : x = CallHow("stopcur", None, how)
    OBVIOUS
  <2>2. x \in CallType /\ ~Stopping(x)
    <3>1. x \in CallType /\ x.op = "stopcur"
      BY <2>1, FirstCalls
    <3> QED BY <3>1 DEF Stopping
  <2>3. Begin(<<x, d>>)
    BY <1>5, <1>7, <2>1 DEF FormatCancel
  <2> QED BY <1>2, <1>3, <1>6, <2>2, <2>3, BeginTwoKnown
<1>8. CASE StartNewPage
  <2>1. Begin(<<d, c>>)
    BY <1>4, <1>5, <1>8 DEF StartNewPage
  <2> QED BY <1>2, <1>3, <1>6, <2>1, BeginTwoKnown
<1>9. CASE NotifyPreferencesChange
  <2>1. PICK calling \in {<<c>>, << >>} : Begin(calling)
    BY <1>4, <1>9 DEF NotifyPreferencesChange
  <2> QED BY <1>2, <1>3, <1>6, <2>1, BeginOneKnown
<1>10. ASSUME NEW x \in CallType, ~Stopping(x), Begin(<<x>>) PROVE Known'
  BY <1>2, <1>3, <1>10, BeginOneKnown
<1>11. CASE OnTimer
  <2>1. PICK x : x = Call("maybe", None)
    OBVIOUS
  <2>2. x \in CallType /\ ~Stopping(x)
    <3>1. x \in CallType /\ x.op = "maybe"
      BY <2>1, FirstCalls DEF Hows
    <3> QED BY <3>1 DEF Stopping
  <2>3. Begin(<<x>>)
    BY <1>11, <2>1 DEF OnTimer
  <2> QED BY <1>10, <2>2, <2>3
<1>12. ASSUME NEW s \in Sounds, FadeOutTimer(s) PROVE Known'
  <2>1. PICK x : x = Call("fadeout", s)
    OBVIOUS
  <2>2. x \in CallType /\ ~Stopping(x)
    <3>1. x \in CallType /\ x.op = "fadeout"
      BY <2>1, CallFacts DEF OnSound
    <3> QED BY <3>1 DEF Stopping
  <2>3. Begin(<<x>>)
    BY <1>12, <2>1 DEF FadeOutTimer
  <2> QED BY <1>10, <2>2, <2>3
<1> QED BY <1>7, <1>8, <1>9, <1>11, <1>12

\* Lemma: the callback tells a sound that lives that its stream has stopped.
LEMMA MixKnown ==
  ASSUME Inv, Known, NEW s \in Sounds, NEW n \in 0 .. LoopsPerBuffer, NEW over \in BOOLEAN,
         Mix(s, n, over)
  PROVE  Known'
<1>1. PICK ended, new, sound, calling :
        /\ ended = (~Skipped(strm[s]) /\ Finished(strm[s], n, over))
        /\ new = IF Skipped(strm[s]) THEN strm[s] ELSE Buffer(strm[s], n, over)
        /\ sound \in {snd[s], LoopCallback(snd[s])}
        /\ calling = IF ended /\ life[s] = "live" THEN <<Call("finish", s)>> ELSE << >>
        /\ strm' = [strm EXCEPT ![s] = new] /\ snd' = [snd EXCEPT ![s] = sound]
        /\ stack' = [stack EXCEPT !["audio"] = calling]
  <2> DEFINE looped == ~Skipped(strm[s]) /\ ~(~Skipped(strm[s]) /\ Finished(strm[s], n, over))
                         /\ Looped(strm[s], n)
             u == IF looped /\ life[s] = "live" THEN LoopCallback(snd[s]) ELSE snd[s]
  <2>1. /\ strm' = [strm EXCEPT ![s] = IF Skipped(strm[s]) THEN strm[s] ELSE Buffer(strm[s], n, over)]
        /\ snd' = [snd EXCEPT ![s] = u]
        /\ stack' = [stack EXCEPT !["audio"] =
                       IF (~Skipped(strm[s]) /\ Finished(strm[s], n, over)) /\ life[s] = "live"
                       THEN <<Call("finish", s)>> ELSE << >>]
    BY DEF Mix
  <2>2. u \in {snd[s], LoopCallback(snd[s])}
    OBVIOUS
  <2> HIDE DEF u
  <2> QED BY <2>1, <2>2
<1>2. /\ stack["audio"] = << >> /\ life' = life /\ UNCHANGED <<entries, qvars>>
  BY DEF Mix, CallbackIdle
<1>3. new.playing => strm[s].playing /\ ~ended
  <2>1. strm[s] \in StreamType /\ n \in Int
    BY SoundAssumption DEF Inv, StreamTypes
  <2>2. Buffer(strm[s], n, over).playing <=> strm[s].playing /\ ~Finished(strm[s], n, over)
    BY <2>1, BufferFacts
  <2> QED BY <1>1, <2>2
<1>4. \A x \in Sounds : /\ strm'[x].playing => strm[x].playing
                        /\ snd'[x].fPlaying = snd[x].fPlaying
  <2>1. sound.fPlaying = snd[s].fPlaying
    <3>1. snd[s] \in SndType
      BY DEF Inv, SoundTypes
    <3> QED BY <1>1, <3>1 DEF LoopCallback, SndType
  <2> QED BY <1>1, <1>3, <2>1 DEF Inv, StreamTypes, SoundTypes
<1>5. HeardKnown'
  BY <1>2, <1>4 DEF Known, HeardKnown
<1>6. PICK c : c = Call("finish", s)
  OBVIOUS
<1>7. c \in CallType /\ c.op = "finish" /\ c.s = s
  BY <1>6, CallFacts DEF OnSound
<1>8. Len(calling) <= 1 /\ \A d \in Range(calling) : d = c /\ ended /\ life[s] = "live"
  <2>1. Len(<<c>>) = 1 /\ Len(<< >>) = 0 /\ 1 <= 1 /\ 0 <= 1
    OBVIOUS
  <2>2. Range(<<c>>) = {c} /\ Range(<< >>) = {}
    BY <1>7, OneCall, NoCall
  <2> QED BY <1>1, <1>6, <2>1, <2>2
<1>9. stack'["gui"] = stack["gui"] /\ stack'["audio"] = calling
  <2>1. "gui" \in Threads /\ "audio" \in Threads /\ "gui" # "audio"
    BY DEF Threads
  <2> QED BY <1>1, <2>1 DEF Inv, StackTypes
<1>10. StopsFirst(stack["gui"])'
  <2>1. Calmer
    BY <1>2 DEF Calmer, entries, qvars
  <2> QED BY <1>9, <2>1, StopsFirstKept DEF Inv, Known
<1>11. ASSUME NEW d \in Range(stack["gui"]) PROVE FinishingOK(d)'
  <2>1. d.op = "finish" => ~strm'[d.s].playing
    BY <1>4, <1>11, FinishGivenUp
  <2>2. \A x \in Range(stack'["audio"]) : NotStarted(d.s, x)'
    BY <1>7, <1>8, <1>9 DEF NotStarted
  <2> QED BY <2>1, <2>2 DEF FinishingOK
<1>12. ASSUME NEW d \in Range(calling) PROVE CallingBackOK(d)'
  <2>1. d = c /\ ended /\ life'[s] = "live"
    BY <1>2, <1>8, <1>12
  <2>2. ~strm'[s].playing
    <3>1. ~new.playing
      BY <1>3, <2>1
    <3> QED BY <1>1, <3>1 DEF Inv, StreamTypes
  <2> QED BY <1>7, <2>1, <2>2 DEF CallingBackOK
<1>13. (\A d \in Range(stack["gui"]) : FinishingOK(d))'
  BY <1>9, <1>11
<1>14. (Len(stack["audio"]) <= 1 /\ \A d \in Range(stack["audio"]) : CallingBackOK(d))'
  BY <1>8, <1>9, <1>12
<1> QED BY <1>5, <1>10, <1>13, <1>14 DEF Known

\* Lemma: every step keeps what the threads know.
LEMMA NextKnown == Inv /\ Known /\ [Next]_vars => Known'
<1> SUFFICES ASSUME Inv, Known, [Next]_vars PROVE Known'
  OBVIOUS
<1>1. CASE UNCHANGED vars \/ BeginCallback \/ EndCallback
  <2>1. /\ stack' = stack /\ life' = life /\ strm' = strm /\ snd' = snd
        /\ queue' = queue /\ cancelled' = cancelled
    BY <1>1 DEF vars, audio, BeginCallback, EndCallback, entries, qvars
  <2>2. HeardKnown' /\ StopsFirst(stack["gui"])'
    BY <2>1 DEF Known, HeardKnown, StopsFirst, GivenUp
  <2>3. \A c : (FinishingOK(c) => FinishingOK(c)') /\ (CallingBackOK(c) => CallingBackOK(c)')
    BY <2>1 DEF FinishingOK, CallingBackOK, NotStarted
  <2> QED BY <2>1, <2>2, <2>3 DEF Known
<1>2. ASSUME NEW s \in Sounds, Buffers(s) PROVE Known'
  <2>1. PICK n \in 0 .. LoopsPerBuffer, over \in BOOLEAN : Mix(s, n, over)
    BY <1>2 DEF Buffers
  <2> QED BY <2>1, MixKnown
<1>3. ASSUME NEW t \in {"gui", "audio"}, CallStep(t) PROVE Known'
  BY <1>3, CallStepKnown DEF Threads
<1>4. ASSUME NEW s \in Sounds, NEW a \in Attributes, FormatSound(s, a) PROVE Known'
  BY <1>4, FormatSoundKnown
<1> QED BY <1>1, <1>2, <1>3, <1>4, BeginningsKnown DEF Next

\* Lemma: at the start nothing is known or heard.
LEMMA InitKnown == Init => Known
<1> SUFFICES ASSUME Init PROVE Known
  OBVIOUS
<1>1. stack["gui"] = << >> /\ stack["audio"] = << >> /\ Range(<< >>) = {} /\ Len(<< >>) = 0
  BY NoCall DEF Init
<1>2. HeardKnown
  BY DEF Init, HeardKnown, Stopped
<1>3. StopsFirst(<< >>)
  <2>1. \A i \in 1 .. 0 : FALSE
    OBVIOUS
  <2> QED BY <1>1, <2>1 DEF StopsFirst
<1>4. 0 <= 1
  OBVIOUS
<1> QED BY <1>1, <1>2, <1>3, <1>4 DEF Known

\* Theorem: a sound that is heard has fPlaying set, so that cancelPlaying, which does
\* nothing without it, can still stop it - with any tags, and although the callback
\* of an earlier end may reset fPlaying between any two steps of the GUI thread.
THEOREM HeardKnownHolds == Spec => []HeardKnown
<1>1. Known => HeardKnown
  BY DEF Known
<1> QED BY <1>1, InitInv, InitKnown, NextInv, NextKnown, PTL DEF Spec

\* Theorem: the callback calls fFinishCallback, and starts the next sound, on sounds
\* that have not been deleted - with any tags, and whichever operation of the GUI
\* thread it interrupts: they are deleted with the lock that it holds.
THEOREM CallbackAliveHolds == Spec => []CallbackAlive
<1>1. Inv /\ Known => CallbackAlive
  <2> SUFFICES ASSUME Inv, Known, NEW i \in DOMAIN stack["audio"], stack["audio"][i].op \in OnSound
               PROVE  life[stack["audio"][i].s] = "live"
    BY DEF CallbackAlive
  <2>1. stack["audio"] \in Seq(AudioCall)
    BY DEF Inv, StackTypes
  <2>2. stack["audio"][i] \in Range(stack["audio"])
    BY <2>1, RangeFacts
  <2> QED BY <2>2 DEF Known, CallingBackOK
<1> QED BY <1>1, InitInv, InitKnown, NextInv, NextKnown, PTL DEF Spec

-----------------------------------------------------------------------------
\* With tags that do not crossfade, and a callback that waits for the GUI thread.
\*
\* The code provides neither: SDL calls back at any time, and every tag that can be
\* written is accepted.  What is shown here is what holds apart from these two; so
\* it is stated in lemmas, of the tags and the scheduling that the model is checked
\* with, and not in theorems.

\* Tags that do not fade into each other, but for those that come in for all
\* that is played; and the callback keeps out of what the GUI thread does.
PlainTags == ~Overlap /\ \A a \in Attributes : ~a.xout /\ (a.xin => a.interrupt)

\* Only one of the threads is in a call; the calls it is in.
Alone == stack["gui"] # << >> => ~incb
Now == IF stack["gui"] # << >> THEN stack["gui"] ELSE stack["audio"]

\* What is left to do when what was to be cancelled has been.
Adds(u) == \E s \in Sounds : u = <<Call("obsolete", s), Call("add", s)>>
Bases == {<< >>, <<Call("obsolete", None)>>} \union {<<Call("obsolete", s), Call("add", s)>> : s \in Sounds}

\* A sound that fades in the background: it has been reported, its stream is
\* about to be told.
Leaving(s) == CallHow("stop", s, "crossfade")
Among(k, s) ==
  k # << >> /\ (Head(k) = Leaving(s) \/ (Tail(k) # << >> /\ Head(Tail(k)) = Leaving(s)))
Pending(s) == Among(Now, s)

Sounding(s) == life[s] = "live" /\ snd[s].fPlaying /\ snd[s].done /\ strm[s].playing
AllCancelled == \A s \in Range(queue) : cancelled[s]
FadingOut(s) == strm[s].fading = "out"

\* What is known of the call c, with the calls u around it.
AtCancel(c, u) ==
  /\ c.how \in Hows /\ u \in Bases /\ (Adds(u) => c.how # "fade")
  /\ playing_ = c.s /\ Sounding(c.s) /\ AllCancelled
AtStop(c, u) ==
  \/ c.how \in {"halt", "fade"} /\ AtCancel(c, u)
  \/ c.how = "fade" /\ u = << >> /\ life[c.s] = "live"
AtLeave(c, u) == u \in Bases /\ queue = << >> /\ (life[c.s] = "live" \/ FadingOut(c.s))
AtFinish(c, u) ==
  /\ u \in Bases /\ life[c.s] = "live" /\ ~strm[c.s].playing /\ snd[c.s].fPlaying
  /\ snd[c.s].done <=> playing_ = c.s
  /\ u # << >> => AllCancelled /\ snd[c.s].done
Remaining(s, e) == <<Leaving(s)>> \o e
AtDone(c, u) ==
  /\ c.s \in Sounds /\ playing_ = c.s /\ (left[c.s] # 0 => c.n <= left[c.s])
  /\ u # << >> => AllCancelled
  /\ \/ u \in Bases /\ ~strm[c.s].playing
     \/ \E e \in Bases : u = Remaining(c.s, e) /\ (tag[c.s] \/ FadingOut(c.s))
AtMaybe(c, u) ==
  /\ playing_ = None
  /\ u # << >> => queue = << >>
  /\ \/ u \in Bases
     \/ \E s \in Sounds, e \in Bases : u = Remaining(s, e) /\ (life[s] = "live" \/ FadingOut(s))
AtStart(c, u) ==
  u = << >> /\ playing_ = c.s /\ ~strm[c.s].playing /\ \A s \in Range(queue) : tag[s]
AtAdd(c, u) == u = << >> /\ (attr[c.s].xin => queue = << >>)
AtObsolete(c, u) ==
  \/ u = << >> /\ (queue # << >> => AllCancelled /\ playing_ # None /\ FadingOut(playing_))
  \/ u = <<Call("add", c.s)>> /\ c.s \in Sounds /\ queue = << >>
  \/ u = <<Call("stopcur", None)>> /\ c.s = None

Doing ==
  LET c == Head(Now)
      u == Tail(Now)
  IN  Now # << >> =>
        /\ c.op = "stopcur" => c.how \in Hows /\ u \in Bases /\ (Adds(u) => c.how # "fade")
        /\ c.op = "cancel" => AtCancel(c, u)
        /\ c.op = "stop" => IF c.how = "crossfade" THEN AtLeave(c, u) ELSE AtStop(c, u)
        /\ c.op = "finish" => AtFinish(c, u)
        /\ c.op = "done" => AtDone(c, u)
        /\ c.op = "maybe" => AtMaybe(c, u)
        /\ c.op = "start" => AtStart(c, u)
        /\ c.op = "add" => AtAdd(c, u)
        /\ c.op = "fadeout" => u = << >> /\ life[c.s] = "live"
        /\ c.op = "obsolete" => AtObsolete(c, u)

\* A sound that is to be added does not play yet.
Waiting == \A c \in Range(Now) : c.op = "add" => ~strm[c.s].playing

\* The state of each sound: no crossfade comes with it; what plays is known to
\* play; the stream has not been played more often than it was to be.
SoundOK(s) ==
  /\ ~attr[s].xout /\ ~snd[s].fCrossFade
  /\ life[s] = "live" /\ strm[s].playing => snd[s].fPlaying
  /\ calls[s] <= 1 /\ left[s] >= 0 /\ strm[s].iter >= 0 /\ strm[s].wanted >= 0
  /\ strm[s].playing /\ strm[s].wanted # 0 =>
       strm[s].iter < strm[s].wanted /\ snd[s].fRepeats <= strm[s].iter + 1
SoundsOK == calls \in [Sounds -> Nat] /\ \A s \in Sounds : SoundOK(s)

\* What will report its end is what the queue waits for, and has not done so
\* yet; what the queue waits for will.
Backed ==
  \A s \in Sounds :
    life[s] = "live" /\ snd[s].fPlaying /\ snd[s].done =>
      /\ strm[s].playing => playing_ = s \/ Pending(s)
      /\ calls[s] = 0 \/ Pending(s)
Reports == Now # << >> /\ Head(Now).op \in {"start", "finish", "done"}
Plays == playing_ # None => Sounding(playing_) \/ (Reports /\ Head(Now).s = playing_)

\* A sound is said to play until its end is about to be told.
Finishing(s) == Now # << >> /\ Head(Now).op = "finish" /\ Head(Now).s = s
Heard == \A s \in Sounds : snd[s].fPlaying => life[s] = "live" /\ (strm[s].playing \/ Finishing(s))

\* Of those in the queue only the one it waits for plays.
InQueue == \A s \in Range(queue) : strm[s].playing => playing_ = s
Repeats ==
  LET p == playing_
  IN  p # None /\ left[p] # 0 /\ snd[p].fPlaying =>
        strm[p].wanted # 0 /\ strm[p].wanted <= left[p] /\ snd[p].fRepeats <= strm[p].wanted

\* A tag lets go of its sound only when that is cancelled and fades out, or will
\* be stopped at once.
Halts ==
  /\ Now # << >> /\ Tail(Now) = << >> /\ Head(Now).how = "halt"
  /\ Head(Now).op \in {"stopcur", "cancel", "stop", "finish", "done"}
  /\ Head(Now).op # "stopcur" => AllCancelled
  /\ Head(Now).op = "finish" => Head(Now).s = playing_
Tagged ==
  \A s \in Range(queue) :
    tag[s] \/ Halts \/ (cancelled[s] /\ playing_ # None /\ (playing_ = s => FadingOut(s)))

\* What the callback has still to mix is playing.
RestOK == IsInjective(rest) /\ \A s \in Range(rest) : strm[s].playing

Safe ==
  /\ Alone /\ Doing /\ Waiting /\ SoundsOK /\ Backed /\ Plays /\ InQueue /\ Repeats /\ Tagged
  /\ RestOK /\ Heard

-----------------------------------------------------------------------------
\* The calls under way.

\* Lemma: the calls of both threads are those of the one that is in a call.
LEMMA NowFacts ==
  ASSUME StackTypes, CallbackOver, Alone
  PROVE  /\ Now \in Seq(CallType)
         /\ \A t \in Threads : stack[t] # << >> => Now = stack[t]
         /\ Now = << >> => \A t \in Threads : stack[t] = << >>
<1>1. stack["gui"] \in Seq(CallType) /\ stack["audio"] \in Seq(CallType)
  BY DEF StackTypes, Threads
<1>2. \A t \in Threads : stack[t] # << >> => Now = stack[t]
  BY DEF Now, Threads, Alone, CallbackOver
<1> QED BY <1>1, <1>2 DEF Now, Threads

\* Lemma: a step of a thread is one of the calls under way.
LEMMA NowStep ==
  ASSUME Inv, Alone, NEW t \in Threads, stack[t] # << >>,
         NEW more \in Seq(CallType), t = "audio" => more \in Seq(AudioCall),
         Become(t, more), incb' = incb, Inv'
  PROVE  /\ Alone' /\ Now # << >> /\ Top(t) = Head(Now)
         /\ Now' = more \o Tail(Now)
<1>1. Now = stack[t]
  BY NowFacts DEF Inv
<1>2. stack'[t] = more \o Tail(stack[t]) /\ \A u \in Threads : u # t => stack'[u] = stack[u]
  BY BecomeFacts DEF Inv
<1>3. CASE t = "gui"
  <2>1. ~incb /\ stack["audio"] = << >>
    BY <1>3 DEF Alone, Inv, CallbackOver
  <2>2. stack'["audio"] = << >>
    BY <1>2, <1>3, <2>1 DEF Threads
  <2> QED BY <1>1, <1>2, <1>3, <2>1, <2>2 DEF Now, Alone, Top
<1>4. CASE t = "audio"
  <2>1. incb /\ stack["gui"] = << >>
    BY <1>4 DEF Alone, Inv, CallbackOver
  <2>2. stack'["gui"] = << >>
    BY <1>2, <1>4, <2>1 DEF Threads
  <2> QED BY <1>1, <1>2, <1>4, <2>1, <2>2 DEF Now, Alone, Top
<1> QED BY <1>3, <1>4 DEF Threads

\* Lemma: a call around which there are others.
LEMMA Pushed ==
  ASSUME NEW d \in CallType, NEW k \in Seq(CallType)
  PROVE  LET r == <<d>> \o k
         IN  /\ r \in Seq(CallType) /\ r # << >> /\ Head(r) = d /\ Tail(r) = k
             /\ Range(r) \subseteq {d} \union Range(k)
<1>1. PICK r : r = <<d>> \o k
  OBVIOUS
<1>2. <<d>> \in Seq(CallType) /\ <<d>> # << >> /\ Range(<<d>>) = {d}
  BY OneCall
<1>3. r \in Seq(CallType) /\ Len(r) = Len(k) + 1 /\ r[1] = d /\ Len(k) \in Nat
  BY <1>1, <1>2
<1>4. r # << >> /\ Head(r) = d
  BY <1>3
<1>5. PICK q : q = Tail(r)
  OBVIOUS
<1>6. q \in Seq(CallType) /\ Len(q) = Len(k)
  BY <1>3, <1>4, <1>5
<1>7. \A i \in 1 .. Len(k) : q[i] = k[i]
  <2> TAKE i \in 1 .. Len(k)
  <2>1. q[i] = r[i + 1]
    BY <1>3, <1>4, <1>5, <1>6
  <2>2. r[i + 1] = k[i]
    BY <1>1
  <2> QED BY <2>1, <2>2
<1>8. q = k
  BY <1>6, <1>7
<1>9. Range(r) \subseteq {d} \union Range(k)
  <2>1. \A x : x \in Range(r) <=> \E i \in 1 .. Len(r) : r[i] = x
    BY <1>3, RangeFacts
  <2>2. \A x : x \in Range(k) <=> \E i \in 1 .. Len(k) : k[i] = x
    BY RangeFacts
  <2> SUFFICES ASSUME NEW i \in 1 .. Len(r) PROVE r[i] \in {d} \union Range(k)
    BY <2>1
  <2>3. CASE i = 1
    BY <1>3, <2>3
  <2>4. CASE i # 1
    <3>1. i - 1 \in 1 .. Len(k) /\ r[i] = k[i - 1]
      BY <1>1, <1>3, <2>4
    <3> QED BY <2>2, <3>1
  <2> QED BY <2>3, <2>4
<1> QED BY <1>1, <1>3, <1>4, <1>5, <1>8, <1>9

\* Lemma: the call that is made, returned from, or replaced.
LEMMA NowBecomes ==
  ASSUME NEW k \in Seq(CallType), k # << >>
  PROVE  /\ << >> \o Tail(k) = Tail(k)
         /\ Head(k) \in CallType /\ Tail(k) \in Seq(CallType)
         /\ Range(Tail(k)) \subseteq Range(k)
         /\ \A d \in CallType :
              LET r == <<d>> \o Tail(k)
              IN  r # << >> /\ Head(r) = d /\ Tail(r) = Tail(k) /\ Range(r) \subseteq {d} \union Range(k)
<1>1. Head(k) \in CallType /\ Tail(k) \in Seq(CallType) /\ << >> \o Tail(k) = Tail(k)
  OBVIOUS
<1>2. Range(Tail(k)) \subseteq Range(k)
  <2>2. \A x : x \in Range(Tail(k)) <=> \E i \in 1 .. Len(Tail(k)) : Tail(k)[i] = x
    BY <1>1, RangeFacts
  <2> SUFFICES ASSUME NEW i \in 1 .. Len(Tail(k)) PROVE Tail(k)[i] \in Range(k)
    BY <2>2
  <2>1. i + 1 \in 1 .. Len(k) /\ Tail(k)[i] = k[i + 1]
    OBVIOUS
  <2> QED BY <2>1, RangeFacts
<1>3. ASSUME NEW d \in CallType
      PROVE  LET r == <<d>> \o Tail(k)
             IN  r # << >> /\ Head(r) = d /\ Tail(r) = Tail(k) /\ Range(r) \subseteq {d} \union Range(k)
  <2>1. LET r == <<d>> \o Tail(k)
        IN  r # << >> /\ Head(r) = d /\ Tail(r) = Tail(k) /\ Range(r) \subseteq {d} \union Range(Tail(k))
    BY <1>1, Pushed
  <2> QED BY <1>2, <2>1
<1> QED BY <1>1, <1>2, <1>3

\* Lemma: what else a call says.
LEMMA HowFacts ==
  ASSUME NEW op, NEW s
  PROVE  /\ Call(op, s).op = op /\ Call(op, s).s = s /\ Call(op, s).how = "halt" /\ Call(op, s).n = 0
         /\ \A how : /\ CallHow(op, s, how).op = op /\ CallHow(op, s, how).s = s
                     /\ CallHow(op, s, how).how = how
         /\ \A n : /\ DoneCall(s, n).op = "done" /\ DoneCall(s, n).s = s /\ DoneCall(s, n).n = n
                   /\ DoneCall(s, n).how = "halt"
<1>1. Call(op, s) = [op |-> op, s |-> s, how |-> "halt", n |-> 0]
  BY DEF Call
<1>2. \A how : CallHow(op, s, how) = [op |-> op, s |-> s, how |-> how, n |-> 0]
  BY DEF Call, CallHow
<1>3. \A n : DoneCall(s, n) = [op |-> "done", s |-> s, how |-> "halt", n |-> n]
  BY DEF Call, DoneCall
<1> QED BY <1>1, <1>2, <1>3

\* Lemma: the call that leaves a sound to its fade.
LEMMA LeavingFacts ==
  /\ \A s \in Sounds : /\ Leaving(s) \in CallType /\ Leaving(s).op = "stop" /\ Leaving(s).s = s
                       /\ Leaving(s).how = "crossfade"
  /\ \A s, x \in Sounds : Leaving(s) = Leaving(x) => s = x
<1>1. ASSUME NEW s \in Sounds
      PROVE  /\ Leaving(s) \in CallType /\ Leaving(s).op = "stop" /\ Leaving(s).s = s
             /\ Leaving(s).how = "crossfade"
  <2>1. "stop" \in OnSound /\ "crossfade" \in Hows
    BY DEF OnSound, Hows
  <2>2. CallHow("stop", s, "crossfade") \in CallType
    BY <2>1, CallFacts
  <2>3. Leaving(s) = [op |-> "stop", s |-> s, how |-> "crossfade", n |-> 0]
    BY DEF Leaving, CallHow, Call
  <2> QED BY <2>2, <2>3 DEF Leaving
<1>2. ASSUME NEW s \in Sounds, NEW x \in Sounds, Leaving(s) = Leaving(x) PROVE s = x
  BY <1>1, <1>2
<1> QED BY <1>1, <1>2

\* Lemma: what is left to do.
LEMMA BaseFacts ==
  ASSUME NEW u \in Bases
  PROVE  /\ u \in Seq(CallType)
         /\ \/ u = << >> /\ ~Adds(u)
            \/ u # << >> /\ Head(u) = Call("obsolete", None) /\ Tail(u) = << >> /\ ~Adds(u)
            \/ \E s \in Sounds : /\ u # << >> /\ Head(u) = Call("obsolete", s)
                                 /\ Tail(u) = <<Call("add", s)>> /\ Adds(u)
<1>1. \A s \in Sounds \union {None} : Call("obsolete", s) \in CallType
  BY CallFacts DEF OnSound
<1>2. \A s \in Sounds : Call("add", s) \in CallType
  BY CallFacts DEF OnSound
<1>3. CASE u = << >>
  <2>1. ~Adds(u)
    <3> SUFFICES ASSUME NEW s \in Sounds, u = <<Call("obsolete", s), Call("add", s)>> PROVE FALSE
      BY DEF Adds
    <3>1. Len(u) = 2 /\ Len(u) = 0
      BY <1>3
    <3> QED BY <3>1
  <2> QED BY <1>3, <2>1
<1>4. CASE u = <<Call("obsolete", None)>>
  <2>1. u \in Seq(CallType) /\ u # << >> /\ Head(u) = Call("obsolete", None) /\ Tail(u) = << >> /\ Len(u) = 1
    BY <1>1, <1>4
  <2>2. ~Adds(u)
    <3> SUFFICES ASSUME NEW s \in Sounds, u = <<Call("obsolete", s), Call("add", s)>> PROVE FALSE
      BY DEF Adds
    <3>1. Len(u) = 2
      OBVIOUS
    <3> QED BY <2>1, <3>1
  <2> QED BY <2>1, <2>2
<1>5. ASSUME NEW s \in Sounds, u = <<Call("obsolete", s), Call("add", s)>>
      PROVE  /\ u \in Seq(CallType) /\ u # << >> /\ Head(u) = Call("obsolete", s)
             /\ Tail(u) = <<Call("add", s)>> /\ Adds(u)
  <2>1. Call("obsolete", s) \in CallType /\ Call("add", s) \in CallType
    BY <1>1, <1>2
  <2>2. u \in Seq(CallType) /\ u # << >> /\ Head(u) = Call("obsolete", s) /\ Tail(u) = <<Call("add", s)>>
    BY <1>5, <2>1
  <2> QED BY <1>5, <2>2 DEF Adds
<1> QED BY <1>3, <1>4, <1>5 DEF Bases

\* Lemma: a background fade, and what is left to do after it.
LEMMA RemainingFacts ==
  ASSUME NEW s \in Sounds, NEW e \in Bases
  PROVE  LET r == Remaining(s, e)
         IN  r \in Seq(CallType) /\ r # << >> /\ Head(r) = Leaving(s) /\ Tail(r) = e /\ r \notin Bases
<1>1. e \in Seq(CallType) /\ Leaving(s) \in CallType
  BY BaseFacts, LeavingFacts
<1>2. PICK k : k = <<Leaving(s)>> \o e
  OBVIOUS
<1>3. k \in Seq(CallType) /\ k # << >> /\ Head(k) = Leaving(s) /\ Tail(k) = e
  BY <1>1, <1>2, Pushed
<1>4. k \notin Bases
  <2>1. \A x : Call("obsolete", x).op = "obsolete"
    BY HowFacts
  <2>2. Head(k).op = "stop"
    BY <1>3, LeavingFacts
  <2> QED BY <1>3, <2>1, <2>2, BaseFacts
<1> QED BY <1>2, <1>3, <1>4 DEF Remaining

\* No other sound is about to be added.
NoNewAdds == \A c \in Range(Now') : c.op = "add" => c \in Range(Now)

\* Lemma: a call returns.
LEMMA Returned ==
  ASSUME Inv, Inv', Alone, NEW t \in Threads, stack[t] # << >>, Return(t), incb' = incb
  PROVE  /\ Alone' /\ Now \in Seq(CallType) /\ Now # << >> /\ Top(t) = Head(Now)
         /\ Now' = Tail(Now) /\ NoNewAdds
<1>1. << >> \in Seq(CallType) /\ << >> \in Seq(AudioCall)
  OBVIOUS
<1>2. Become(t, << >>)
  BY DEF Return
<1>3. Alone' /\ Now # << >> /\ Top(t) = Head(Now) /\ Now' = << >> \o Tail(Now)
  BY <1>1, <1>2, NowStep
<1>4. Now \in Seq(CallType)
  BY NowFacts DEF Inv
<1>5. Now' = Tail(Now) /\ Range(Now') \subseteq Range(Now)
  BY <1>3, <1>4, NowBecomes
<1> QED BY <1>3, <1>4, <1>5 DEF NoNewAdds

\* Lemma: a call makes another one, as the last thing it does.
LEMMA Replaced ==
  ASSUME Inv, Inv', Alone, NEW t \in Threads, stack[t] # << >>,
         NEW d \in CallType, d.op # "add", t = "audio" => d \in AudioCall,
         Become(t, <<d>>), incb' = incb
  PROVE  /\ Alone' /\ Now \in Seq(CallType) /\ Now # << >> /\ Top(t) = Head(Now)
         /\ Now' # << >> /\ Head(Now') = d /\ Tail(Now') = Tail(Now) /\ NoNewAdds
<1>1. <<d>> \in Seq(CallType) /\ (t = "audio" => <<d>> \in Seq(AudioCall))
  OBVIOUS
<1>2. Alone' /\ Now # << >> /\ Top(t) = Head(Now) /\ Now' = <<d>> \o Tail(Now)
  BY <1>1, NowStep
<1>3. Now \in Seq(CallType)
  BY NowFacts DEF Inv
<1>4. Now' # << >> /\ Head(Now') = d /\ Tail(Now') = Tail(Now) /\ Range(Now') \subseteq {d} \union Range(Now)
  BY <1>2, <1>3, NowBecomes
<1> QED BY <1>2, <1>3, <1>4 DEF NoNewAdds

\* Lemma: a call makes another one, and leaves the sound when that returns.
LEMMA Doubled ==
  ASSUME Inv, Inv', Alone, NEW t \in Threads, stack[t] # << >>, t # "audio",
         NEW d \in CallType, d.op # "add", NEW s \in Sounds,
         Become(t, <<d>> \o <<Leaving(s)>>), incb' = incb
  PROVE  /\ Alone' /\ Now \in Seq(CallType) /\ Now # << >> /\ Top(t) = Head(Now)
         /\ Now' # << >> /\ Head(Now') = d /\ Tail(Now') = Remaining(s, Tail(Now)) /\ NoNewAdds
<1>1. Leaving(s) \in CallType /\ Leaving(s).op = "stop"
  BY LeavingFacts
<1>2. <<Leaving(s)>> \in Seq(CallType) /\ <<d>> \in Seq(CallType)
  BY <1>1
<1>3. PICK more : more = <<d>> \o <<Leaving(s)>>
  OBVIOUS
<1>4. more \in Seq(CallType)
  BY <1>2, <1>3
<1>5. Alone' /\ Now # << >> /\ Top(t) = Head(Now) /\ Now' = more \o Tail(Now)
  BY <1>3, <1>4, NowStep
<1>6. Now \in Seq(CallType)
  BY NowFacts DEF Inv
<1>7. PICK k : k = <<Leaving(s)>> \o Tail(Now)
  OBVIOUS
<1>8. Tail(Now) \in Seq(CallType)
  BY <1>5, <1>6
<1>9. /\ k \in Seq(CallType) /\ Range(k) \subseteq {Leaving(s)} \union Range(Now)
      /\ Now' = <<d>> \o k
  <2>1. k \in Seq(CallType) /\ Now' = <<d>> \o k
    BY <1>1, <1>2, <1>3, <1>5, <1>7, <1>8
  <2>2. Range(k) \subseteq {Leaving(s)} \union Range(Now)
    BY <1>1, <1>5, <1>6, <1>7, NowBecomes
  <2> QED BY <2>1, <2>2
<1>10. Now' # << >> /\ Head(Now') = d /\ Tail(Now') = k /\ Range(Now') \subseteq {d} \union Range(k)
  BY <1>9, Pushed
<1> QED BY <1>1, <1>5, <1>6, <1>7, <1>9, <1>10 DEF NoNewAdds, Remaining

\* Lemma: one call alone.
LEMMA HeadOne ==
  ASSUME NEW c
  PROVE  Head(<<c>>) = c /\ Tail(<<c>>) = << >> /\ <<c>> # << >>
  OBVIOUS

\* Lemma: what is left to do does not leave a sound.
LEMMA BaseLeaves ==
  ASSUME NEW u \in Bases
  PROVE  /\ \A s \in Sounds : ~Among(u, s)
         /\ \A s \in Sounds : u # << >> => Head(u) # Leaving(s)
<1>1. \A s \in Sounds : Leaving(s).op = "stop"
  BY LeavingFacts
<1>2. \A s \in Sounds : \A x : Call("add", x) # Leaving(s) /\ Call("obsolete", x) # Leaving(s)
  <2>1. \A x : Call("add", x).op = "add" /\ Call("obsolete", x).op = "obsolete"
    BY DEF Call
  <2> QED BY <1>1, <2>1
<1>3. CASE u = << >>
  BY <1>3 DEF Among
<1>4. CASE u # << >> /\ Head(u) = Call("obsolete", None) /\ Tail(u) = << >>
  BY <1>2, <1>4 DEF Among
<1>5. ASSUME NEW x \in Sounds, u # << >>, Head(u) = Call("obsolete", x), Tail(u) = <<Call("add", x)>>
      PROVE  /\ \A s \in Sounds : ~Among(u, s)
             /\ \A s \in Sounds : u # << >> => Head(u) # Leaving(s)
  <2>1. Head(Tail(u)) = Call("add", x)
    BY <1>5, HeadOne
  <2> QED BY <1>2, <1>5, <2>1 DEF Among
<1> QED BY <1>3, <1>4, <1>5, BaseFacts

\* Lemma: nor do the calls under way, unless it is what a crossfade does.
LEMMA NotPending ==
  ASSUME Doing, Now \in Seq(CallType), Now # << >>,
         Head(Now).op \notin {"done", "maybe"}, Head(Now).op = "stop" => Head(Now).how # "crossfade"
  PROVE  \A s \in Sounds : ~Pending(s)
<1>1. PICK c : c = Head(Now)
  OBVIOUS
<1>2. PICK u : u = Tail(Now)
  OBVIOUS
<1>3. c \in CallType
  BY <1>1
<1>4. \A s \in Sounds : c # Leaving(s)
  BY <1>1, LeavingFacts
<1>5. \/ u \in Bases \/ u = << >> \/ \E s \in Sounds : u = <<Call("add", s)>>
      \/ u = <<Call("stopcur", None)>>
  <2>1. c.op \in OnSound \union {"stopcur", "done", "maybe", "obsolete"}
    BY <1>3 DEF CallType
  <2>2. CASE c.op = "obsolete"
    BY <1>1, <1>2, <2>2 DEF Doing, AtObsolete
  <2>3. CASE c.op # "obsolete"
    BY <1>1, <1>2, <2>1, <2>3 DEF Doing, AtCancel, AtStop, AtFinish, AtStart, AtAdd, OnSound
  <2> QED BY <2>2, <2>3
<1>6. \A s \in Sounds : ~(u # << >> /\ Head(u) = Leaving(s))
  <2>1. \A x : Call("add", x).op = "add" /\ Call("stopcur", x).op = "stopcur"
    BY DEF Call
  <2>2. CASE u \in Bases
    BY <2>2, BaseLeaves
  <2>3. ASSUME NEW x, u = <<x>>, x.op # "stop" PROVE \A s \in Sounds : ~(u # << >> /\ Head(u) = Leaving(s))
    <3>1. Head(u) = x
      BY <2>3, HeadOne
    <3> QED BY <2>3, <3>1, LeavingFacts
  <2> QED BY <1>5, <2>1, <2>2, <2>3
<1> QED BY <1>1, <1>2, <1>4, <1>6 DEF Pending, Among

\* Lemma: a step that starts no stream.
LEMMA WaitingKept ==
  ASSUME Now \in Seq(CallType), Waiting, NoNewAdds,
         \A s \in Sounds : strm'[s].playing => strm[s].playing
  PROVE  Waiting'
<1>1. \A c \in Range(Now) : c.op = "add" => c.s \in Sounds
  BY RangeFacts DEF CallType, OnSound
<1>2. ASSUME NEW c \in Range(Now'), c.op = "add" PROVE ~strm'[c.s].playing
  BY <1>1, <1>2 DEF Waiting, NoNewAdds
<1> QED BY <1>2 DEF Waiting

\* Lemma: back to what is left to do.
LEMMA BaseDoing ==
  ASSUME NEW u \in Bases, Now' = u,
         queue' # << >> => AllCancelled' /\ playing_' # None /\ FadingOut(playing_)' /\ ~Adds(u)
  PROVE  Doing'
<1>1. CASE u = << >>
  BY <1>1 DEF Doing
<1>2. CASE u # << >> /\ Head(u) = Call("obsolete", None) /\ Tail(u) = << >> /\ ~Adds(u)
  <2>1. Head(u).op = "obsolete"
    BY <1>2 DEF Call
  <2>2. AtObsolete(Head(u), Tail(u))'
    BY <1>2 DEF AtObsolete
  <2> QED BY <2>1, <2>2 DEF Doing
<1>3. ASSUME NEW s \in Sounds, u # << >>, Head(u) = Call("obsolete", s),
             Tail(u) = <<Call("add", s)>>, Adds(u)
      PROVE  Doing'
  <2>1. Head(u).op = "obsolete" /\ Head(u).s = s
    BY <1>3 DEF Call
  <2>2. AtObsolete(Head(u), Tail(u))'
    BY <1>3, <2>1 DEF AtObsolete
  <2> QED BY <2>1, <2>2 DEF Doing
<1> QED BY <1>1, <1>2, <1>3, BaseFacts

\* Lemma: nothing is left to do.
LEMMA NoneLeft == << >> \in Bases /\ ~Adds(<< >>) /\ \A s \in Sounds : ~Among(<< >>, s)
<1>1. << >> \in Bases
  BY DEF Bases
<1>2. ~Adds(<< >>)
  <2> SUFFICES ASSUME NEW s \in Sounds, << >> = <<Call("obsolete", s), Call("add", s)>> PROVE FALSE
    BY DEF Adds
  <2>1. Len(<<Call("obsolete", s), Call("add", s)>>) = 2 /\ Len(<< >>) = 0
    OBVIOUS
  <2> QED BY <2>1
<1> QED BY <1>1, <1>2 DEF Among

\* Lemma: what plays, unless a sound is about to tell its end.
LEMMA Hearing ==
  ASSUME Heard, Now # << >> => Head(Now).op # "finish"
  PROVE  \A s \in Sounds : snd[s].fPlaying => life[s] = "live" /\ strm[s].playing
<1>1. \A s \in Sounds : ~Finishing(s)
  BY DEF Finishing
<1> QED BY <1>1 DEF Heard

\* Lemma: what is said to play does.
LEMMA HeardThen ==
  ASSUME \A s \in Sounds : snd'[s].fPlaying => life'[s] = "live" /\ strm'[s].playing
  PROVE  Heard'
  BY DEF Heard

\* Lemma: add_sound.
LEMMA AddSoundSafe ==
  ASSUME Inv, Inv', Safe, NEW t \in Threads, AddSound(t)
  PROVE  Safe'
<1>1. /\ stack[t] # << >> /\ Top(t) \in CallType /\ Top(t).op = "add"
      /\ Top(t) \in Range(stack[t]) /\ t # "audio"
  <2>1. In(t, "add") /\ StackTypes
    BY DEF AddSound, Inv
  <2> QED BY <2>1, InFacts
<1>2. PICK s : s = Top(t).s
  OBVIOUS
<1>3. s \in Sounds
  BY <1>1, <1>2 DEF CallType, OnSound
<1>4. Now = stack[t] /\ Now \in Seq(CallType) /\ Now # << >> /\ Head(Now) = Top(t)
  BY <1>1, NowFacts DEF Safe, Inv, Top
<1>5. Tail(Now) = << >> /\ (attr[s].xin => queue = << >>)
  BY <1>1, <1>2, <1>4 DEF Safe, Doing, AtAdd
<1>6. /\ queue' = Append(queue, s) /\ left' = [left EXCEPT ![s] = attr[s].repeat]
      /\ cancelled' = [cancelled EXCEPT ![s] = FALSE] /\ attr' = attr /\ snd' = snd
      /\ life' = life /\ tag' = tag /\ playing_' = playing_ /\ strm' = strm /\ incb' = incb
      /\ rest' = rest /\ calls' = calls
      /\ IF playing_ = None THEN Become(t, <<Call("maybe", None)>>) ELSE Return(t)
  BY <1>2, <1>5 DEF AddSound, audio
<1>7. tag[s] /\ life[s] = "live" /\ s \notin Range(queue)
  BY <1>1, <1>2 DEF Inv, CallsOK, CallOK
<1>8. ~strm[s].playing
  BY <1>1, <1>2, <1>4 DEF Safe, Waiting
<1>9. /\ queue \in Seq(Sounds) /\ Range(queue) \subseteq Sounds
      /\ Range(queue') = Range(queue) \union {s} /\ playing_ \in Range(queue) \union {None}
      /\ playing_ # s
  <2>1. queue \in Seq(Sounds) /\ playing_ \in Range(queue) \union {None}
    BY DEF Inv, QueueOK
  <2> QED BY <1>3, <1>6, <1>7, <2>1, AppendFacts, RangeFacts, SoundAssumption
<1>10. \A x \in Sounds : ~Pending(x)
  BY <1>1, <1>4, NotPending DEF Safe
<1>11. /\ Alone' /\ NoNewAdds /\ Doing'
       /\ \A x \in Sounds : ~Pending(x)'
       /\ Now' # << >> => Head(Now').op = "maybe"
  <2>1. CASE playing_ = None
    <3>1. Call("maybe", None) \in CallType /\ Call("maybe", None).op = "maybe"
      BY CallFacts DEF OnSound
    <3>2. /\ Alone' /\ NoNewAdds
          /\ Now' # << >> /\ Head(Now') = Call("maybe", None) /\ Tail(Now') = << >>
      BY <1>1, <1>5, <1>6, <2>1, <3>1, Replaced DEF Safe
    <3>3. Doing'
      <4>1. AtMaybe(Head(Now), Tail(Now))'
        BY <1>6, <2>1, <3>2, NoneLeft DEF AtMaybe
      <4> QED BY <3>1, <3>2, <4>1 DEF Doing
    <3>4. \A x \in Sounds : ~Pending(x)'
      BY <3>1, <3>2, LeavingFacts DEF Pending, Among
    <3> QED BY <3>1, <3>2, <3>3, <3>4
  <2>2. CASE playing_ # None
    <3>1. Alone' /\ NoNewAdds /\ Now' = << >>
      BY <1>1, <1>5, <1>6, <2>2, Returned DEF Safe
    <3>2. Doing'
      BY <3>1 DEF Doing
    <3>3. \A x \in Sounds : ~Pending(x)'
      BY <3>1 DEF Pending, Among
    <3> QED BY <3>1, <3>2, <3>3
  <2> QED BY <2>1, <2>2
<1>12. Waiting'
  BY <1>4, <1>6, <1>11, WaitingKept DEF Safe
<1>13. SoundsOK'
  <2>1. \A x \in Sounds : left'[x] >= 0
    <3>1. attr[s].repeat \in Nat /\ left \in [Sounds -> Int]
      BY <1>3 DEF Inv, EntryTypes, AttrType
    <3> QED BY <1>3, <1>6, <3>1 DEF Safe, SoundsOK, SoundOK
  <2> QED BY <1>6, <2>1 DEF Safe, SoundsOK, SoundOK
<1>14. Backed'
  BY <1>6, <1>10, <1>11 DEF Safe, Backed
<1>15. Plays'
  BY <1>1, <1>4, <1>6 DEF Safe, Plays, Reports, Sounding
<1>16. InQueue'
  BY <1>6, <1>8, <1>9 DEF Safe, InQueue
<1>17. Repeats'
  <2>1. left'[playing_] = left[playing_] \/ playing_ = None
    BY <1>6, <1>9 DEF Inv, EntryTypes
  <2> QED BY <1>6, <2>1 DEF Safe, Repeats
<1>18. Tagged'
  <2>1. ~Halts
    BY <1>1, <1>4 DEF Halts
  <2>2. \A x \in Range(queue) : cancelled'[x] = cancelled[x]
    BY <1>6, <1>7, <1>9 DEF Inv, EntryTypes
  <2> QED BY <1>6, <1>7, <1>9, <2>1, <2>2 DEF Safe, Tagged, FadingOut
<1>19. RestOK'
  BY <1>6 DEF Safe, RestOK
<1>20. Heard'
  <2>1. Heard /\ Head(Now).op # "finish"
    BY <1>1, <1>4 DEF Safe
  <2>2. \A x \in Sounds : snd[x].fPlaying => life[x] = "live" /\ strm[x].playing
    BY <2>1, Hearing
  <2> QED BY <1>6, <2>2, HeardThen
<1> QED BY <1>20, <1>11, <1>12, <1>13, <1>14, <1>15, <1>16, <1>17, <1>18, <1>19 DEF Safe

\* Lemma: what is known of the sounds when entries are deleted.
LEMMA Forgotten ==
  ASSUME Inv, SoundsOK, NEW t, NEW gone \in SUBSET Sounds, NEW last, DeleteEntries(t, gone, last),
         strm' = strm, calls' = calls, \A s \in Sounds : left'[s] >= 0
  PROVE  /\ SoundsOK'
         /\ \A s \in Sounds : life'[s] = "live" => life[s] = "live" /\ snd'[s] = snd[s]
         /\ \A s \in Sounds : snd'[s].fPlaying => life'[s] = life[s] /\ snd[s].fPlaying
         /\ \A s \in Sounds : s \notin gone \/ tag[s] => life'[s] = life[s]
<1>1. \A s \in Sounds :
        /\ attr'[s] = IF s \in gone THEN NoAttr ELSE attr[s]
        /\ snd'[s] = IF s \in gone /\ ~tag[s] THEN Silent ELSE snd[s]
        /\ life'[s] = IF s \in gone /\ ~tag[s] THEN "dead" ELSE life[s]
  BY DEF DeleteEntries
<1>2. Silent.fPlaying = FALSE /\ Silent.fCrossFade = FALSE /\ Silent.fRepeats = 0 /\ NoAttr.xout = FALSE
  BY DEF Silent, NoAttr
<1>3. SoundsOK'
  <2> SUFFICES ASSUME NEW s \in Sounds PROVE SoundOK(s)'
    BY DEF SoundsOK
  <2>1. SoundOK(s) /\ left'[s] >= 0
    BY DEF SoundsOK
  <2>2. strm[s].iter \in Int /\ strm[s].iter >= 0
    BY <2>1 DEF SoundOK, Inv, StreamTypes, StreamType
  <2>3. ~attr'[s].xout /\ ~snd'[s].fCrossFade
    BY <1>1, <1>2, <2>1 DEF SoundOK
  <2>4. life'[s] = "live" => life[s] = "live" /\ snd'[s] = snd[s]
    BY <1>1
  <2>5. snd'[s] = snd[s] \/ snd'[s].fRepeats = 0
    BY <1>1, <1>2
  <2> QED BY <2>1, <2>2, <2>3, <2>4, <2>5 DEF SoundOK
<1> QED BY <1>1, <1>2, <1>3

\* Lemma: a call, and those around it.
LEMMA CallNow ==
  ASSUME Inv, Safe, NEW t \in Threads, NEW op, In(t, op)
  PROVE  /\ stack[t] # << >> /\ Top(t) \in CallType /\ Top(t).op = op
         /\ Now = stack[t] /\ Now \in Seq(CallType) /\ Now # << >> /\ Head(Now) = Top(t)
         /\ t = "audio" => op \in {"finish", "done", "maybe", "start"}
<1>1. /\ stack[t] # << >> /\ Top(t) \in CallType /\ Top(t).op = op
      /\ t = "audio" => op \in {"finish", "done", "maybe", "start"}
  <2>1. StackTypes
    BY DEF Inv
  <2> QED BY <2>1, InFacts
<1>2. Now = stack[t] /\ Now \in Seq(CallType) /\ Now # << >> /\ Head(Now) = Top(t)
  BY <1>1, NowFacts DEF Safe, Inv, Top
<1> QED BY <1>1, <1>2

\* Lemma: stop_current_sound.
LEMMA StopCurrentSoundSafe ==
  ASSUME Inv, Inv', Safe, NEW t \in Threads, StopCurrentSound(t)
  PROVE  Safe'
<1>1. /\ stack[t] # << >> /\ Top(t) \in CallType /\ Top(t).op = "stopcur"
      /\ Now = stack[t] /\ Now \in Seq(CallType) /\ Now # << >> /\ Head(Now) = Top(t)
      /\ t # "audio"
  <2>1. In(t, "stopcur")
    BY DEF StopCurrentSound
  <2> QED BY <2>1, CallNow
<1>2. PICK u : u = Tail(Now)
  OBVIOUS
<1>3. PICK how : how = Top(t).how
  OBVIOUS
<1>4. u \in Bases /\ how \in Hows /\ (Adds(u) => how # "fade")
  BY <1>1, <1>2, <1>3 DEF Safe, Doing
<1>5. \A x \in Sounds : ~Pending(x)
  BY <1>1, NotPending DEF Safe
<1>6. \A x \in Sounds : snd[x].fPlaying => life[x] = "live" /\ strm[x].playing
  <2>1. Heard /\ Head(Now).op # "finish"
    BY <1>1 DEF Safe
  <2> QED BY <2>1, Hearing
<1>7. /\ tag' = tag /\ left' = left /\ playing_' = playing_ /\ strm' = strm /\ incb' = incb
      /\ rest' = rest /\ calls' = calls
  BY DEF StopCurrentSound, audio
<1>8. queue \in Seq(Sounds) /\ Range(queue) \subseteq Sounds /\ playing_ \in Range(queue) \union {None}
  <2>1. queue \in Seq(Sounds) /\ playing_ \in Range(queue) \union {None}
    BY DEF Inv, QueueOK
  <2> QED BY <2>1, RangeFacts
<1>9. RestOK'
  BY <1>7 DEF Safe, RestOK
<1>10. CASE playing_ # None
  <2>1. /\ cancelled' = MarkCancelled /\ life' = life /\ queue' = queue /\ attr' = attr /\ snd' = snd
        /\ Become(t, <<CallHow("cancel", playing_, how)>>)
    BY <1>3, <1>10 DEF StopCurrentSound
  <2>2. PICK d : d = CallHow("cancel", playing_, how)
    OBVIOUS
  <2>3. d \in CallType /\ d.op = "cancel" /\ d.s = playing_ /\ d.how = how
    <3>1. playing_ \in Sounds /\ "cancel" \in OnSound
      BY <1>8, <1>10 DEF OnSound
    <3>2. d \in CallType
      BY <1>4, <2>2, <3>1, CallFacts
    <3>3. d.op = "cancel" /\ d.s = playing_ /\ d.how = how
      <4>1. d = [op |-> "cancel", s |-> playing_, how |-> how, n |-> 0]
        BY <2>2 DEF CallHow, Call
      <4> QED BY <4>1
    <3> QED BY <3>2, <3>3
  <2>4. /\ Alone' /\ Now' # << >> /\ Head(Now') = d /\ Tail(Now') = u /\ NoNewAdds
    <3>1. Become(t, <<d>>) /\ d.op # "add" /\ Alone
      BY <2>1, <2>2, <2>3 DEF Safe
    <3> QED BY <1>1, <1>2, <1>7, <2>3, <3>1, Replaced
  <2>5. AllCancelled'
    BY <1>8, <2>1 DEF AllCancelled, MarkCancelled
  <2>6. Sounding(playing_)
    BY <1>1, <1>10 DEF Safe, Plays, Reports
  <2>7. Doing'
    <3>1. AtCancel(d, u)'
      BY <1>4, <1>7, <2>1, <2>3, <2>5, <2>6 DEF AtCancel, Sounding
    <3> QED BY <2>3, <2>4, <3>1 DEF Doing
  <2>8. Waiting'
    BY <1>1, <1>7, <2>4, WaitingKept DEF Safe
  <2>9. SoundsOK'
    BY <1>7, <2>1 DEF Safe, SoundsOK, SoundOK
  <2>10. Backed'
    BY <1>5, <1>7, <2>1 DEF Safe, Backed
  <2>11. Plays'
    BY <1>7, <2>1, <2>6 DEF Plays, Sounding
  <2>12. InQueue' /\ Repeats'
    BY <1>7, <2>1 DEF Safe, InQueue, Repeats
  <2>13. Tagged'
    <3>1. Halts => Halts'
      BY <1>1, <1>2, <1>3, <2>3, <2>4, <2>5 DEF Halts
    <3>2. \A x \in Range(queue) : cancelled'[x]
      BY <2>1, <2>5 DEF AllCancelled
    <3> QED BY <1>7, <2>1, <3>1, <3>2 DEF Safe, Tagged, FadingOut
  <2>14. Heard'
    BY <1>6, <1>7, <2>1, HeardThen
  <2> QED BY <1>9, <2>4, <2>7, <2>8, <2>9, <2>10, <2>11, <2>12, <2>13, <2>14 DEF Safe
<1>11. CASE playing_ = None
  <2>1. DeleteEntries(t, Range(queue), last_played_) /\ Return(t) /\ cancelled' = cancelled
    BY <1>11 DEF StopCurrentSound
  <2>2. queue' = << >>
    <3>1. queue' \in Seq(Sounds) /\ Range(queue') = Range(queue) \ Range(queue)
      BY <1>8, <2>1, WithoutFacts DEF DeleteEntries
    <3> QED BY <3>1, RangeFacts
  <2>3. Range(queue') = {}
    BY <2>2, NoCall
  <2>4. /\ SoundsOK'
        /\ \A x \in Sounds : life'[x] = "live" => life[x] = "live" /\ snd'[x] = snd[x]
        /\ \A x \in Sounds : snd'[x].fPlaying => life'[x] = life[x] /\ snd[x].fPlaying
    <3>1. \A x \in Sounds : left'[x] >= 0
      BY <1>7 DEF Safe, SoundsOK, SoundOK
    <3> QED BY <1>7, <1>8, <2>1, <3>1, Forgotten DEF Safe
  <2>5. Alone' /\ Now' = u /\ NoNewAdds
    BY <1>1, <1>2, <1>7, <2>1, Returned DEF Safe
  <2>6. Doing'
    BY <1>4, <2>2, <2>5, BaseDoing
  <2>7. Waiting'
    BY <1>1, <1>7, <2>5, WaitingKept DEF Safe
  <2>8. Backed'
    BY <1>5, <1>7, <2>4 DEF Safe, Backed
  <2>9. Plays' /\ InQueue' /\ Repeats' /\ Tagged'
    BY <1>7, <1>11, <2>3 DEF Plays, InQueue, Repeats, Tagged
  <2>10. Heard'
    BY <1>6, <1>7, <2>4, HeardThen
  <2> QED BY <1>9, <2>4, <2>5, <2>6, <2>7, <2>8, <2>9, <2>10 DEF Safe
<1> QED BY <1>10, <1>11

\* Lemma: on_sound_done.
LEMMA OnSoundDoneSafe ==
  ASSUME Inv, Inv', Safe, NEW t \in Threads, OnSoundDone(t)
  PROVE  Safe'
<1>1. /\ stack[t] # << >> /\ Top(t) \in CallType /\ Top(t).op = "done"
      /\ Now = stack[t] /\ Now \in Seq(CallType) /\ Now # << >> /\ Head(Now) = Top(t)
  <2>1. In(t, "done")
    BY DEF OnSoundDone
  <2> QED BY <2>1, CallNow
<1>2. PICK u : u = Tail(Now)
  OBVIOUS
<1>3. PICK c : c = Top(t)
  OBVIOUS
<1>4. PICK p : p = playing_
  OBVIOUS
<1>5. AtDone(c, u) /\ c.s = p /\ p \in Sounds /\ c.n \in Nat /\ p # None
  <2>1. AtDone(c, u)
    BY <1>1, <1>2, <1>3 DEF Safe, Doing
  <2>2. c.n \in Nat
    BY <1>1, <1>3 DEF CallType
  <2> QED BY <1>4, <2>1, <2>2, SoundAssumption DEF AtDone
<1>6. PICK now : now = IF playing_ = None \/ left[playing_] = 0 THEN left
                       ELSE [left EXCEPT ![playing_] = @ - Top(t).n]
  OBVIOUS
<1>7. PICK gone : gone = {e \in Range(queue) : cancelled[e]}
                           \union {e \in {playing_} \ {None} : left[e] # 0 /\ now[e] = 0}
  OBVIOUS
<1>8. /\ now = IF left[p] = 0 THEN left ELSE [left EXCEPT ![p] = @ - c.n]
      /\ gone \in SUBSET Sounds /\ \A x \in Range(queue) : cancelled[x] => x \in gone
  <2>1. Range(queue) \subseteq Sounds
    BY RangeFacts DEF Inv, QueueOK
  <2>2. gone \in SUBSET Sounds /\ \A x \in Range(queue) : cancelled[x] => x \in gone
    BY <1>4, <1>5, <1>7, <2>1
  <2> QED BY <1>3, <1>4, <1>5, <1>6, <2>2
<1>9. /\ left' = [x \in Sounds |-> IF x \in gone THEN 0 ELSE now[x]]
      /\ cancelled' = [x \in Sounds |-> cancelled[x] /\ x \notin gone]
      /\ DeleteEntries(t, gone, p)
  BY <1>4, <1>6, <1>7 DEF OnSoundDone
<1>10. /\ tag' = tag /\ playing_' = None /\ strm' = strm /\ incb' = incb
       /\ rest' = rest /\ calls' = calls /\ Become(t, <<Call("maybe", None)>>)
  BY DEF OnSoundDone, audio
<1>11. /\ Range(queue') = Range(queue) \ gone /\ queue' \in Seq(Sounds) /\ p \in Range(queue)
       /\ life[p] = "live" /\ Range(queue) \subseteq Sounds
  <2>1. queue \in Seq(Sounds) /\ p \in Range(queue) /\ life[p] = "live"
    BY <1>4, <1>5 DEF Inv, QueueOK
  <2>2. queue' = Without(queue, gone)
    BY <1>8, <1>9 DEF DeleteEntries
  <2> QED BY <2>1, <2>2, WithoutFacts, RangeFacts
<1>12. /\ Alone' /\ Now' # << >> /\ Head(Now') = Call("maybe", None) /\ Tail(Now') = u /\ NoNewAdds
       /\ Head(Now').op = "maybe"
  <2>1. PICK d : d = Call("maybe", None)
    OBVIOUS
  <2>2. d \in CallType /\ d.op = "maybe" /\ Become(t, <<d>>) /\ Alone
    BY <1>10, <2>1, CallFacts DEF OnSound, Safe
  <2>3. d \in AudioCall /\ d.op # "add"
    BY <2>2 DEF AudioCall
  <2> QED BY <1>1, <1>2, <1>10, <2>1, <2>2, <2>3, Replaced
<1>13. AllCancelled => queue' = << >> /\ Range(queue') = {}
  <2>1. AllCancelled => Range(queue') = {}
    BY <1>8, <1>9, <1>11 DEF AllCancelled
  <2> QED BY <1>11, <2>1, RangeFacts
<1>14. /\ SoundsOK'
       /\ \A x \in Sounds : life'[x] = "live" => life[x] = "live" /\ snd'[x] = snd[x]
       /\ \A x \in Sounds : snd'[x].fPlaying => life'[x] = life[x] /\ snd[x].fPlaying
       /\ \A x \in Sounds : x \notin gone \/ tag[x] => life'[x] = life[x]
  <2>1. \A x \in Sounds : left'[x] >= 0
    <3> SUFFICES ASSUME NEW x \in Sounds PROVE left'[x] >= 0
      OBVIOUS
    <3>1. left \in [Sounds -> Int] /\ left[x] >= 0 /\ left[p] >= 0
      BY <1>5 DEF Inv, EntryTypes, Safe, SoundsOK, SoundOK
    <3>2. left[p] # 0 => c.n <= left[p]
      BY <1>5 DEF AtDone
    <3>3. now[x] >= 0
      BY <1>5, <1>8, <1>9, <3>1, <3>2
    <3> QED BY <1>8, <1>9, <3>3
  <2> QED BY <1>8, <1>9, <1>10, <2>1, Forgotten DEF Safe
<1>15. Doing'
  <2>1. u # << >> => queue' = << >>
    BY <1>5, <1>13 DEF AtDone
  <2>2. CASE u \in Bases
    <3>1. AtMaybe(Head(Now), Tail(Now))'
      BY <1>10, <1>12, <2>1, <2>2 DEF AtMaybe
    <3> QED BY <1>12, <3>1 DEF Doing
  <2>3. ASSUME NEW e \in Bases, u = Remaining(p, e), tag[p] \/ FadingOut(p)
        PROVE  Doing'
    <3>1. life'[p] = "live" \/ FadingOut(p)'
      BY <1>5, <1>10, <1>11, <1>14, <2>3 DEF FadingOut
    <3>2. AtMaybe(Head(Now), Tail(Now))'
      BY <1>5, <1>10, <1>12, <2>1, <2>3, <3>1 DEF AtMaybe
    <3> QED BY <1>12, <3>2 DEF Doing
  <2> QED BY <1>5, <2>2, <2>3 DEF AtDone
<1>16. Waiting'
  BY <1>1, <1>10, <1>12, WaitingKept DEF Safe
<1>17. \A x \in Sounds : Pending(x) => Pending(x)'
  BY <1>1, <1>2, <1>12, LeavingFacts DEF Pending, Among
<1>18. strm[p].playing => AllCancelled /\ Pending(p)'
  <2>1. CASE u \in Bases /\ ~strm[p].playing
    BY <2>1
  <2>2. ASSUME NEW e \in Bases, u = Remaining(p, e) PROVE AllCancelled /\ Pending(p)'
    <3>1. u # << >> /\ Head(u) = Leaving(p)
      BY <1>5, <2>2, RemainingFacts
    <3> QED BY <1>5, <1>12, <3>1 DEF AtDone, Pending, Among
  <2> QED BY <1>5, <2>1, <2>2 DEF AtDone
<1>19. Backed'
  BY <1>4, <1>10, <1>14, <1>17, <1>18 DEF Safe, Backed
<1>20. Plays' /\ Repeats'
  BY <1>10 DEF Plays, Repeats
<1>21. InQueue'
  BY <1>4, <1>10, <1>11, <1>13, <1>18 DEF Safe, InQueue
<1>22. Tagged'
  <2>1. Halts => AllCancelled
    BY <1>1 DEF Halts
  <2> QED BY <1>8, <1>9, <1>10, <1>11, <1>13, <2>1 DEF Safe, Tagged
<1>23. RestOK'
  BY <1>10 DEF Safe, RestOK
<1>24. Heard'
  <2>1. Heard /\ Head(Now).op # "finish"
    BY <1>1 DEF Safe
  <2>2. \A x \in Sounds : snd[x].fPlaying => life[x] = "live" /\ strm[x].playing
    BY <2>1, Hearing
  <2> QED BY <1>10, <1>14, <2>2, HeardThen
<1> QED BY <1>12, <1>14, <1>15, <1>16, <1>19, <1>20, <1>21, <1>22, <1>23, <1>24 DEF Safe

\* Lemma: maybe_start_sound.
LEMMA MaybeStartSoundSafe ==
  ASSUME Inv, Inv', Safe, NEW t \in Threads, MaybeStartSound(t)
  PROVE  Safe'
<1>1. /\ stack[t] # << >> /\ Top(t) \in CallType /\ Top(t).op = "maybe"
      /\ Now = stack[t] /\ Now \in Seq(CallType) /\ Now # << >> /\ Head(Now) = Top(t)
  <2>1. In(t, "maybe")
    BY DEF MaybeStartSound
  <2> QED BY <2>1, CallNow
<1>2. PICK u : u = Tail(Now)
  OBVIOUS
<1>3. AtMaybe(Top(t), u) /\ playing_ = None /\ (u # << >> => queue = << >>)
  BY <1>1, <1>2 DEF Safe, Doing, AtMaybe
<1>4. /\ tag' = tag /\ left' = left /\ cancelled' = cancelled /\ strm' = strm /\ incb' = incb
      /\ rest' = rest /\ calls' = calls
  BY DEF MaybeStartSound, audio
<1>5. queue \in Seq(Sounds) /\ Range(queue) \subseteq Sounds /\ None \notin Sounds /\ IsInjective(queue)
  <2>1. queue \in Seq(Sounds) /\ IsInjective(queue)
    BY DEF Inv, QueueOK
  <2> QED BY <2>1, RangeFacts, SoundAssumption
<1>6. \A x \in Range(queue) : tag[x] /\ ~strm[x].playing
  <2>1. ~Halts
    BY <1>1 DEF Halts
  <2> QED BY <1>3, <1>5, <2>1 DEF Safe, Tagged, InQueue
<1>7. \A x \in Sounds : snd[x].fPlaying => life[x] = "live" /\ strm[x].playing
  <2>1. Heard /\ Head(Now).op # "finish"
    BY <1>1 DEF Safe
  <2> QED BY <2>1, Hearing
<1>8. RestOK'
  BY <1>4 DEF Safe, RestOK
<1>9. CASE Return(t) /\ UNCHANGED <<life, attr, snd, qvars>>
  <2>1. /\ life' = life /\ attr' = attr /\ snd' = snd /\ queue' = queue /\ playing_' = playing_
    BY <1>9 DEF qvars
  <2>2. Alone' /\ Now' = u /\ NoNewAdds
    BY <1>1, <1>2, <1>4, <1>9, Returned DEF Safe
  <2>3. Doing'
    <3>1. CASE u = << >>
      BY <2>2, <3>1 DEF Doing
    <3>2. CASE u # << >> /\ u \in Bases
      BY <1>3, <2>1, <2>2, <3>2, BaseDoing
    <3>3. ASSUME NEW s \in Sounds, NEW e \in Bases, u = Remaining(s, e), life[s] = "live" \/ FadingOut(s)
          PROVE  Doing'
      <4>1. u # << >> /\ Head(u) = Leaving(s) /\ Tail(u) = e
        BY <3>3, RemainingFacts
      <4>2. Leaving(s).op = "stop" /\ Leaving(s).how = "crossfade" /\ Leaving(s).s = s
        BY LeavingFacts
      <4>3. AtLeave(Leaving(s), e)'
        BY <1>3, <1>4, <2>1, <3>3, <4>1, <4>2 DEF AtLeave, FadingOut
      <4> QED BY <2>2, <4>1, <4>2, <4>3 DEF Doing
    <3> QED BY <1>3, <3>1, <3>2, <3>3 DEF AtMaybe
  <2>4. Waiting'
    BY <1>1, <1>4, <2>2, WaitingKept DEF Safe
  <2>5. \A x \in Sounds : Pending(x) => Pending(x)'
    BY <1>1, <1>2, <2>2, LeavingFacts DEF Pending, Among
  <2>6. SoundsOK'
    BY <1>4, <2>1 DEF Safe, SoundsOK, SoundOK
  <2>7. Backed'
    BY <1>4, <2>1, <2>5 DEF Safe, Backed
  <2>8. Plays' /\ Repeats'
    BY <1>3, <2>1 DEF Plays, Repeats
  <2>9. InQueue' /\ Tagged'
    BY <1>4, <1>6, <2>1 DEF InQueue, Tagged
  <2>10. Heard'
    BY <1>4, <1>7, <2>1, HeardThen
  <2> QED BY <1>8, <2>2, <2>3, <2>4, <2>6, <2>7, <2>8, <2>9, <2>10 DEF Safe
<1>10. ASSUME queue # << >>, NEW i \in From, NEW j \in DOMAIN queue,
              playing_' = queue[j],
              IF attr[queue[j]].seq = "replace"
              THEN DeleteEntries(t, {queue[k] : k \in 1 .. j - 1}, last_played_)
              ELSE UNCHANGED <<life, attr, snd, queue, last_played_>>,
              NEW how \in Hows, Become(t, <<CallHow("start", queue[j], how)>>)
       PROVE  Safe'
  <2>1. PICK e : e = queue[j]
    OBVIOUS
  <2>2. e \in Range(queue) /\ e \in Sounds
    BY <1>5, <1>10, <2>1, RangeFacts
  <2>3. PICK gone : gone = {queue[k] : k \in 1 .. j - 1}
    OBVIOUS
  <2>4. gone \in SUBSET Sounds /\ e \notin gone
    <3>1. j \in 1 .. Len(queue) /\ Len(queue) \in Nat
      BY <1>5, <1>10
    <3>2. \A k \in 1 .. j - 1 : k \in 1 .. Len(queue) /\ queue[k] \in Sounds /\ queue[k] # queue[j]
      BY <1>5, <3>1 DEF IsInjective
    <3> QED BY <2>1, <2>3, <3>2
  <2>5. PICK d : d = CallHow("start", e, how)
    OBVIOUS
  <2>6. d \in CallType /\ d.op = "start" /\ d.s = e /\ d \in AudioCall
    <3>1. d \in CallType
      BY <2>2, <2>5, CallFacts DEF OnSound
    <3>2. d = [op |-> "start", s |-> e, how |-> how, n |-> 0]
      BY <2>5 DEF CallHow, Call
    <3> QED BY <3>1, <3>2 DEF AudioCall
  <2>7. u = << >>
    BY <1>3, <1>10
  <2>8. Alone' /\ Now' # << >> /\ Head(Now') = d /\ Tail(Now') = << >> /\ NoNewAdds
    <3>1. Become(t, <<d>>) /\ d.op # "add" /\ Alone
      BY <1>10, <2>1, <2>5, <2>6 DEF Safe
    <3> QED BY <1>1, <1>2, <1>4, <2>6, <2>7, <3>1, Replaced
  <2>9. /\ SoundsOK'
        /\ \A x \in Sounds : life'[x] = "live" => life[x] = "live" /\ snd'[x] = snd[x]
        /\ \A x \in Sounds : snd'[x].fPlaying => life'[x] = life[x] /\ snd[x].fPlaying
        /\ Range(queue') \subseteq Range(queue)
    <3>1. CASE attr[queue[j]].seq = "replace"
      <4>1. DeleteEntries(t, gone, last_played_)
        BY <1>10, <2>3, <3>1
      <4>2. \A x \in Sounds : left'[x] >= 0
        BY <1>4 DEF Safe, SoundsOK, SoundOK
      <4>3. queue' = Without(queue, gone)
        BY <4>1 DEF DeleteEntries
      <4>4. Range(queue') = Range(queue) \ gone
        BY <1>5, <4>3, WithoutFacts
      <4> QED BY <1>4, <2>4, <4>1, <4>2, <4>4, Forgotten DEF Safe
    <3>2. CASE attr[queue[j]].seq # "replace"
      <4>1. life' = life /\ attr' = attr /\ snd' = snd /\ queue' = queue
        BY <1>10, <3>2
      <4>2. SoundsOK'
        BY <1>4, <4>1 DEF Safe, SoundsOK, SoundOK
      <4> QED BY <4>1, <4>2
    <3> QED BY <3>1, <3>2
  <2>10. \A x \in Sounds : ~Pending(x)
    BY <1>1, <1>2, <2>7, LeavingFacts DEF Pending, Among
  <2>11. Doing'
    <3>1. AtStart(d, << >>)'
      BY <1>4, <1>6, <1>10, <2>1, <2>2, <2>6, <2>9 DEF AtStart
    <3> QED BY <2>6, <2>8, <3>1 DEF Doing
  <2>12. Waiting'
    BY <1>1, <1>4, <2>8, WaitingKept DEF Safe
  <2>13. Backed'
    <3>1. \A x \in Sounds : life[x] = "live" /\ snd[x].fPlaying /\ snd[x].done =>
                              ~strm[x].playing /\ calls[x] = 0
      BY <1>3, <1>5, <2>10 DEF Safe, Backed
    <3> QED BY <1>4, <2>9, <3>1 DEF Backed
  <2>14. Plays'
    BY <1>10, <2>1, <2>6, <2>8 DEF Plays, Reports
  <2>15. InQueue' /\ Tagged'
    BY <1>4, <1>6, <2>9 DEF InQueue, Tagged
  <2>16. Repeats'
    <3>1. ~snd'[e].fPlaying
      BY <1>6, <1>7, <2>2, <2>9
    <3> QED BY <1>10, <2>1, <3>1 DEF Repeats
  <2>17. Heard'
    BY <1>4, <1>7, <2>9, HeardThen
  <2> QED BY <1>8, <2>8, <2>9, <2>11, <2>12, <2>13, <2>14, <2>15, <2>16, <2>17 DEF Safe
<1>11. CASE ~(Return(t) /\ UNCHANGED <<life, attr, snd, qvars>>)
  <2>1. /\ queue # << >>
        /\ \E i \in From, j \in DOMAIN queue :
             LET e == queue[j]
                 more == seq_mode \in {"loop", "random"} /\ Len(queue) > 1
             IN  /\ playing_' = e
                 /\ IF attr[e].seq = "replace"
                    THEN DeleteEntries(t, {queue[k] : k \in 1 .. j - 1}, last_played_)
                    ELSE UNCHANGED <<life, attr, snd, queue, last_played_>>
                 /\ Become(t, <<CallHow("start", e, IF more THEN "fade" ELSE "halt")>>)
    BY <1>11 DEF MaybeStartSound
  <2>2. "fade" \in Hows /\ "halt" \in Hows
    BY DEF Hows
  <2>3. PICK i \in From, j \in DOMAIN queue :
             LET e == queue[j]
                 more == seq_mode \in {"loop", "random"} /\ Len(queue) > 1
             IN  /\ playing_' = e
                 /\ IF attr[e].seq = "replace"
                    THEN DeleteEntries(t, {queue[k] : k \in 1 .. j - 1}, last_played_)
                    ELSE UNCHANGED <<life, attr, snd, queue, last_played_>>
                 /\ Become(t, <<CallHow("start", e, IF more THEN "fade" ELSE "halt")>>)
    BY <2>1
  <2>4. PICK how : how = IF seq_mode \in {"loop", "random"} /\ Len(queue) > 1 THEN "fade" ELSE "halt"
    OBVIOUS
  <2>5. how \in Hows
    BY <2>2, <2>4
  <2> QED BY <1>10, <2>1, <2>3, <2>4, <2>5
<1> QED BY <1>9, <1>11

\* Lemma: a stream that begins to play.
LEMMA PlayFirst ==
  ASSUME NEW st \in StreamType, NEW n \in Int, NEW fade, ~st.playing
  PROVE  Play(st, n, fade).iter = 0 /\ Play(st, n, fade).wanted = n
<1> DEFINE fading == IF fade THEN "in" ELSE IF st.fading = "in" THEN "no" ELSE st.fading
<1>1. PICK a : a = [st EXCEPT !.playing = TRUE]
  OBVIOUS
<1>2. PICK b : b = [a EXCEPT !.iter = 0]
  OBVIOUS
<1>3. PICK c : c = [b EXCEPT !.wanted = n]
  OBVIOUS
<1>4. Play(st, n, fade) = [c EXCEPT !.fading = fading]
  BY <1>1, <1>2, <1>3 DEF Play
<1> HIDE DEF fading
<1>5. a \in [playing : BOOLEAN, iter : Int, wanted : Int, fading : Fading, stop_after : BOOLEAN, paused : BOOLEAN]
  BY <1>1 DEF StreamType
<1>6. /\ b \in [playing : BOOLEAN, iter : Int, wanted : Int, fading : Fading, stop_after : BOOLEAN, paused : BOOLEAN]
      /\ b.iter = 0
  BY <1>2, <1>5
<1>7. /\ c \in [playing : BOOLEAN, iter : Int, wanted : Int, fading : Fading, stop_after : BOOLEAN, paused : BOOLEAN]
      /\ c.iter = 0 /\ c.wanted = n
  BY <1>3, <1>6
<1> QED BY <1>4, <1>7

\* Lemma: startPlaying.
LEMMA StartPlayingSafe ==
  ASSUME Inv, Inv', Safe, NEW t \in Threads, StartPlaying(t)
  PROVE  Safe'
<1>1. /\ stack[t] # << >> /\ Top(t) \in CallType /\ Top(t).op = "start"
      /\ Now = stack[t] /\ Now \in Seq(CallType) /\ Now # << >> /\ Head(Now) = Top(t)
  <2>1. In(t, "start")
    BY DEF StartPlaying
  <2> QED BY <2>1, CallNow
<1>2. PICK e : e = Top(t).s
  OBVIOUS
<1>3. /\ Tail(Now) = << >> /\ playing_ = e /\ ~strm[e].playing /\ \A x \in Range(queue) : tag[x]
      /\ e \in Sounds /\ e # None
  <2>1. AtStart(Top(t), Tail(Now))
    BY <1>1 DEF Safe, Doing
  <2>2. e \in Sounds
    BY <1>1, <1>2 DEF CallType, OnSound
  <2> QED BY <1>2, <2>1, <2>2, SoundAssumption DEF AtStart
<1>4. /\ life' = life /\ tag' = tag /\ attr' = attr /\ left' = left /\ queue' = queue
      /\ playing_' = playing_ /\ incb' = incb /\ rest' = rest
  BY DEF StartPlaying, qvars
<1>5. life[e] = "live" /\ Range(queue) \subseteq Sounds /\ \A x \in Range(rest) : x \in Sounds
  <2>1. queue \in Seq(Sounds) /\ rest \in Seq(Sounds) /\ playing_ \in Range(queue) \union {None}
        /\ \A x \in Range(queue) : life[x] = "live"
    BY DEF Inv, QueueOK, StreamTypes
  <2> QED BY <1>3, <2>1, RangeFacts
<1>6. \A x \in Sounds : ~Pending(x)
  BY <1>1, NotPending DEF Safe
<1>7. \A x \in Sounds : snd[x].fPlaying => life[x] = "live" /\ strm[x].playing
  <2>1. Heard /\ Head(Now).op # "finish"
    BY <1>1 DEF Safe
  <2> QED BY <2>1, Hearing
<1>8. Tagged'
  BY <1>3, <1>4 DEF Tagged
<1>9. CASE enabled
  <2> DEFINE repeat == IF attr[e].seq \in {"default", "replace"} /\ ~attr[e].rnd THEN left[e] ELSE 1
             fade_in == attr[e].fadein /\ left[e] = attr[e].repeat
             fade_out == attr[e].fadeout /\ repeat = left[e] /\ repeat # 0 /\ Top(t).how = "halt"
             timer == IF fade_out /\ repeat = 1 THEN "on" ELSE snd[e].timer
             new == [fPlaying |-> TRUE, fRepeats |-> 1, fCrossFade |-> attr[e].xout, done |-> TRUE,
                     timer |-> timer]
  <2>1. /\ strm' = [strm EXCEPT ![e] = Play(strm[e], repeat, fade_in)]
        /\ snd' = [snd EXCEPT ![e] = new]
        /\ calls' = [calls EXCEPT ![e] = 0] /\ cancelled' = cancelled /\ Return(t)
    BY <1>2, <1>9 DEF StartPlaying
  <2>2. left[e] \in Int /\ left[e] >= 0 /\ strm[e] \in StreamType /\ ~attr[e].xout
    BY <1>3 DEF Inv, EntryTypes, StreamTypes, Safe, SoundsOK, SoundOK
  <2>3. repeat \in Int /\ repeat >= 0 /\ (left[e] # 0 => repeat # 0 /\ repeat <= left[e])
    BY <2>2
  <2>4. new.fPlaying /\ new.fRepeats = 1 /\ ~new.fCrossFade /\ new.done
    BY <2>2
  <2> HIDE DEF repeat, fade_in, fade_out, new
  <2>5. PICK n \in Int : n = repeat
    BY <2>3
  <2>6. PICK st : st = Play(strm[e], n, fade_in)
    OBVIOUS
  <2>7. st.playing /\ st.iter = 0 /\ st.wanted = n /\ n >= 0
    BY <1>3, <2>2, <2>3, <2>5, <2>6, PlayFacts, PlayFirst
  <2>8. strm'[e] = st /\ \A x \in Sounds : x # e => strm'[x] = strm[x]
    BY <1>3, <2>1, <2>5, <2>6 DEF Inv, StreamTypes
  <2>9. snd'[e] = new /\ \A x \in Sounds : x # e => snd'[x] = snd[x]
    BY <1>3, <2>1 DEF Inv, SoundTypes
  <2>10. Alone' /\ Now' = << >>
    BY <1>1, <1>3, <1>4, <2>1, Returned DEF Safe
  <2>11. Doing' /\ Waiting'
    BY <2>10, NoCall DEF Doing, Waiting
  <2>12. calls' \in [Sounds -> Nat] /\ calls'[e] = 0 /\ \A x \in Sounds : x # e => calls'[x] = calls[x]
    BY <1>3, <2>1 DEF Safe, SoundsOK
  <2>13. SoundsOK'
    <3> SUFFICES ASSUME NEW x \in Sounds PROVE SoundOK(x)'
      BY <2>12 DEF SoundsOK
    <3>1. SoundOK(x)
      BY DEF Safe, SoundsOK
    <3>2. CASE x = e
      BY <1>3, <1>4, <2>2, <2>4, <2>5, <2>7, <2>8, <2>9, <2>12, <3>2 DEF SoundOK
    <3>3. CASE x # e
      BY <1>4, <2>8, <2>9, <2>12, <3>1, <3>3 DEF SoundOK
    <3> QED BY <3>2, <3>3
  <2>14. Backed'
    <3> SUFFICES ASSUME NEW x \in Sounds, life'[x] = "live", snd'[x].fPlaying, snd'[x].done
                 PROVE  (strm'[x].playing => playing_' = x) /\ calls'[x] = 0
      BY DEF Backed
    <3>1. CASE x = e
      BY <1>3, <1>4, <2>12, <3>1
    <3>2. CASE x # e
      BY <1>4, <1>6, <2>8, <2>9, <2>12, <3>2 DEF Safe, Backed
    <3> QED BY <3>1, <3>2
  <2>15. Plays'
    BY <1>3, <1>4, <1>5, <2>4, <2>7, <2>8, <2>9 DEF Plays, Sounding
  <2>16. InQueue'
    BY <1>3, <1>4, <1>5, <2>8 DEF Safe, InQueue
  <2>17. Repeats'
    BY <1>3, <1>4, <2>2, <2>3, <2>4, <2>5, <2>7, <2>8, <2>9 DEF Repeats
  <2>18. RestOK'
    BY <1>4, <1>5, <2>7, <2>8 DEF Safe, RestOK
  <2>19. Heard'
    <3>1. \A x \in Sounds : snd'[x].fPlaying => life'[x] = "live" /\ strm'[x].playing
      BY <1>4, <1>5, <1>7, <2>7, <2>8, <2>9
    <3> QED BY <3>1, HeardThen
  <2> QED BY <1>8, <2>10, <2>11, <2>13, <2>14, <2>15, <2>16, <2>17, <2>18, <2>19 DEF Safe
<1>10. CASE ~enabled
  <2>1. /\ cancelled' = [cancelled EXCEPT ![e] = TRUE] /\ Become(t, <<DoneCall(e, 0)>>)
        /\ strm' = strm /\ snd' = snd /\ calls' = calls
    BY <1>2, <1>10 DEF StartPlaying
  <2>2. PICK d : d = DoneCall(e, 0)
    OBVIOUS
  <2>3. d \in AudioCall /\ d \in CallType /\ d.op = "done" /\ d.s = e /\ d.n = 0
    <3>1. d \in AudioCall
      BY <1>3, <2>2, DoneCallFacts
    <3>2. d = [op |-> "done", s |-> e, how |-> "halt", n |-> 0]
      BY <2>2 DEF DoneCall, Call
    <3> QED BY <3>1, <3>2 DEF AudioCall
  <2>4. Alone' /\ Now' # << >> /\ Head(Now') = d /\ Tail(Now') = << >> /\ NoNewAdds
    <3>1. Become(t, <<d>>) /\ d.op # "add" /\ Alone
      BY <2>1, <2>2, <2>3 DEF Safe
    <3> QED BY <1>1, <1>3, <1>4, <2>3, <3>1, Replaced
  <2>5. Doing'
    <3>1. left[e] >= 0
      BY <1>3 DEF Safe, SoundsOK, SoundOK
    <3>2. AtDone(d, << >>)'
      BY <1>3, <1>4, <2>1, <2>3, <3>1, NoneLeft DEF AtDone
    <3> QED BY <2>3, <2>4, <3>2 DEF Doing
  <2>6. Waiting'
    BY <1>1, <2>1, <2>4, WaitingKept DEF Safe
  <2>7. SoundsOK'
    BY <1>4, <2>1 DEF Safe, SoundsOK, SoundOK
  <2>8. Backed'
    BY <1>4, <1>6, <2>1 DEF Safe, Backed
  <2>9. Plays'
    BY <1>3, <1>4, <2>3, <2>4 DEF Plays, Reports
  <2>10. InQueue' /\ Repeats' /\ RestOK'
    BY <1>4, <2>1 DEF Safe, InQueue, Repeats, RestOK
  <2>11. Heard'
    BY <1>4, <1>7, <2>1, HeardThen
  <2> QED BY <1>8, <2>4, <2>5, <2>6, <2>7, <2>8, <2>9, <2>10, <2>11 DEF Safe
<1> QED BY <1>9, <1>10

\* Lemma: the record of a call.
LEMMA CallIs ==
  ASSUME NEW op, NEW s, NEW how, NEW d, d = CallHow(op, s, how)
  PROVE  d.op = op /\ d.s = s /\ d.how = how
<1>1. d = [op |-> op, s |-> s, how |-> how, n |-> 0]
  BY DEF CallHow, Call
<1> QED BY <1>1

\* Lemma: the record of the call that tells the end of a sound.
LEMMA DoneIs ==
  ASSUME NEW s \in Sounds, NEW n \in Nat, NEW d, d = DoneCall(s, n)
  PROVE  d \in CallType /\ d \in AudioCall /\ d.op = "done" /\ d.s = s /\ d.n = n /\ d.how = "halt"
<1>1. d = [op |-> "done", s |-> s, how |-> "halt", n |-> n]
  BY DEF DoneCall, Call
<1>2. d \in AudioCall
  BY DoneCallFacts
<1> QED BY <1>1, <1>2 DEF AudioCall

\* Lemma: cancelPlaying.
LEMMA CancelPlayingSafe ==
  ASSUME Inv, Inv', Safe, NEW t \in Threads, CancelPlaying(t)
  PROVE  Safe'
<1>1. /\ stack[t] # << >> /\ Top(t) \in CallType /\ Top(t).op = "cancel"
      /\ Now = stack[t] /\ Now \in Seq(CallType) /\ Now # << >> /\ Head(Now) = Top(t)
      /\ t # "audio"
  <2>1. In(t, "cancel")
    BY DEF CancelPlaying
  <2> QED BY <2>1, CallNow
<1>2. PICK u : u = Tail(Now)
  OBVIOUS
<1>3. PICK c : c = Top(t)
  OBVIOUS
<1>4. PICK s : s = c.s
  OBVIOUS
<1>5. PICK how : how = c.how
  OBVIOUS
<1>6. /\ s \in Sounds /\ how \in Hows /\ u \in Bases /\ (Adds(u) => how # "fade")
      /\ playing_ = s /\ Sounding(s) /\ AllCancelled /\ s # None
  <2>1. AtCancel(c, u)
    BY <1>1, <1>2, <1>3 DEF Safe, Doing
  <2>2. s \in Sounds
    BY <1>1, <1>3, <1>4 DEF CallType, OnSound
  <2> QED BY <1>4, <1>5, <2>1, <2>2, SoundAssumption DEF AtCancel
<1>7. /\ life' = life /\ tag' = tag /\ attr' = attr /\ left' = left /\ cancelled' = cancelled
      /\ queue' = queue /\ playing_' = playing_ /\ snd' = snd /\ strm' = strm /\ incb' = incb
      /\ rest' = rest
  BY DEF CancelPlaying, entries, qvars, audio
<1>8. \A x \in Sounds : ~Pending(x)
  BY <1>1, NotPending DEF Safe
<1>9. \A x \in Sounds : snd[x].fPlaying => life[x] = "live" /\ strm[x].playing
  <2>1. Heard /\ Head(Now).op # "finish"
    BY <1>1 DEF Safe
  <2> QED BY <2>1, Hearing
<1>10. InQueue' /\ Repeats' /\ RestOK'
  BY <1>7 DEF Safe, InQueue, Repeats, RestOK
<1>11. Heard'
  BY <1>7, <1>9, HeardThen
<1>12. Sounding(s)' /\ AllCancelled'
  BY <1>6, <1>7 DEF Sounding, AllCancelled
<1>13. Plays'
  BY <1>6, <1>7, <1>12 DEF Plays
<1>14. CASE how = "crossfade"
  <2>1. CallDone(t, s, <<CallHow("stop", s, "crossfade")>>)
    BY <1>3, <1>4, <1>5, <1>6, <1>14 DEF CancelPlaying, Sounding
  <2>2. /\ Become(t, <<DoneCall(s, snd[s].fRepeats)>> \o <<Leaving(s)>>)
        /\ calls' = [calls EXCEPT ![s] = IF @ < 2 THEN @ + 1 ELSE @]
    BY <1>6, <2>1 DEF CallDone, Sounding, Leaving
  <2>3. PICK n \in Nat : n = snd[s].fRepeats
    BY <1>6 DEF Inv, SoundTypes, SndType
  <2>4. PICK d : d = DoneCall(s, n)
    OBVIOUS
  <2>5. d \in CallType /\ d.op = "done" /\ d.s = s /\ d.n = n
    BY <1>6, <2>4, DoneIs
  <2>6. /\ Alone' /\ Now' # << >> /\ Head(Now') = d /\ Tail(Now') = Remaining(s, u) /\ NoNewAdds
    <3>1. Become(t, <<d>> \o <<Leaving(s)>>) /\ d.op # "add" /\ Alone
      BY <2>2, <2>3, <2>4, <2>5 DEF Safe
    <3> QED BY <1>1, <1>2, <1>6, <1>7, <2>5, <3>1, Doubled
  <2>7. /\ Remaining(s, u) # << >> /\ Head(Remaining(s, u)) = Leaving(s)
    BY <1>6, RemainingFacts
  <2>8. Pending(s)'
    BY <2>6, <2>7 DEF Pending, Among
  <2>9. calls' \in [Sounds -> Nat] /\ calls'[s] = 1 /\ \A x \in Sounds : x # s => calls'[x] = calls[x]
    <3>1. calls[s] = 0
      BY <1>6, <1>8 DEF Safe, Backed, Sounding
    <3>2. calls' = [calls EXCEPT ![s] = 1]
      BY <2>2, <3>1
    <3> QED BY <1>6, <3>2 DEF Safe, SoundsOK
  <2>10. Doing'
    <3>1. left[s] # 0 => n <= left[s]
      <4>1. left[s] \in Int /\ strm[s].wanted \in Int
        BY <1>6 DEF Inv, EntryTypes, StreamTypes, StreamType
      <4> QED BY <1>6, <2>3, <4>1 DEF Safe, Repeats, Sounding
    <3>2. tag[s] \/ FadingOut(s)
      <4>1. ~Halts
        BY <1>1, <1>3, <1>5, <1>14 DEF Halts
      <4>2. s \in Range(queue)
        BY <1>6 DEF Inv, QueueOK
      <4> QED BY <1>6, <4>1, <4>2 DEF Safe, Tagged
    <3>3. AtDone(d, Remaining(s, u))'
      BY <1>6, <1>7, <1>12, <2>5, <3>1, <3>2 DEF AtDone, FadingOut
    <3> QED BY <2>5, <2>6, <3>3 DEF Doing
  <2>11. Waiting'
    BY <1>1, <1>7, <2>6, WaitingKept DEF Safe
  <2>12. SoundsOK'
    <3>1. \A x \in Sounds : calls'[x] <= 1
      BY <2>9 DEF Safe, SoundsOK, SoundOK
    <3> QED BY <1>7, <2>9, <3>1 DEF Safe, SoundsOK, SoundOK
  <2>13. Backed'
    BY <1>6, <1>7, <1>8, <2>8, <2>9 DEF Safe, Backed
  <2>14. Tagged'
    <3>1. ~Halts
      BY <1>1, <1>3, <1>5, <1>14 DEF Halts
    <3> QED BY <1>7, <3>1 DEF Safe, Tagged, FadingOut
  <2> QED BY <1>10, <1>11, <1>13, <2>6, <2>10, <2>11, <2>12, <2>13, <2>14 DEF Safe
<1>15. CASE how # "crossfade"
  <2>1. Become(t, <<CallHow("stop", s, how)>>) /\ calls' = calls
    BY <1>3, <1>4, <1>5, <1>6, <1>15 DEF CancelPlaying, Sounding
  <2>2. PICK d : d = CallHow("stop", s, how)
    OBVIOUS
  <2>3. d \in CallType /\ d.op = "stop" /\ d.s = s /\ d.how = how
    <3>1. d \in CallType
      BY <1>6, <2>2, CallFacts DEF OnSound
    <3> QED BY <2>2, <3>1, CallIs
  <2>4. /\ Alone' /\ Now' # << >> /\ Head(Now') = d /\ Tail(Now') = u /\ NoNewAdds
    <3>1. Become(t, <<d>>) /\ d.op # "add" /\ Alone
      BY <2>1, <2>2, <2>3 DEF Safe
    <3> QED BY <1>1, <1>2, <1>7, <2>3, <3>1, Replaced
  <2>5. Doing'
    <3>1. AtCancel(d, u)'
      BY <1>6, <1>7, <1>12, <2>3 DEF AtCancel
    <3>2. AtStop(d, u)'
      BY <1>6, <1>15, <2>3, <3>1 DEF AtStop, Hows
    <3> QED BY <1>15, <2>3, <2>4, <3>2 DEF Doing
  <2>6. Waiting'
    BY <1>1, <1>7, <2>4, WaitingKept DEF Safe
  <2>7. SoundsOK'
    BY <1>7, <2>1 DEF Safe, SoundsOK, SoundOK
  <2>8. Backed'
    BY <1>7, <1>8, <2>1 DEF Safe, Backed
  <2>9. Tagged'
    <3>1. Halts => Halts'
      BY <1>1, <1>2, <1>3, <1>5, <1>12, <2>3, <2>4 DEF Halts
    <3> QED BY <1>7, <3>1 DEF Safe, Tagged, FadingOut
  <2> QED BY <1>10, <1>11, <1>13, <2>4, <2>5, <2>6, <2>7, <2>8, <2>9 DEF Safe
<1> QED BY <1>14, <1>15

\* Lemma: fDoFadeOut, of a sound that does not crossfade.
LEMMA DoFadeOutSafe ==
  ASSUME Inv, Inv', Safe, NEW t \in Threads, DoFadeOut(t)
  PROVE  Safe'
<1>1. /\ stack[t] # << >> /\ Top(t) \in CallType /\ Top(t).op = "fadeout"
      /\ Now = stack[t] /\ Now \in Seq(CallType) /\ Now # << >> /\ Head(Now) = Top(t)
      /\ t # "audio"
  <2>1. In(t, "fadeout")
    BY DEF DoFadeOut
  <2> QED BY <2>1, CallNow
<1>2. PICK s : s = Top(t).s
  OBVIOUS
<1>3. s \in Sounds /\ Tail(Now) = << >> /\ life[s] = "live"
  <2>1. s \in Sounds
    BY <1>1, <1>2 DEF CallType, OnSound
  <2> QED BY <1>1, <1>2, <2>1 DEF Safe, Doing
<1>4. ~snd[s].fCrossFade
  BY <1>3 DEF Safe, SoundsOK, SoundOK
<1>5. /\ life' = life /\ tag' = tag /\ attr' = attr /\ left' = left /\ cancelled' = cancelled
      /\ queue' = queue /\ playing_' = playing_ /\ snd' = snd /\ strm' = strm /\ incb' = incb
      /\ rest' = rest
  BY DEF DoFadeOut, entries, qvars, audio
<1>6. Become(t, <<CallHow("stop", s, "fade")>>) /\ calls' = calls
  BY <1>2, <1>4 DEF DoFadeOut
<1>7. PICK d : d = CallHow("stop", s, "fade")
  OBVIOUS
<1>8. d \in CallType /\ d.op = "stop" /\ d.s = s /\ d.how = "fade"
  <2>1. d \in CallType
    BY <1>3, <1>7, CallFacts DEF OnSound, Hows
  <2> QED BY <1>7, <2>1, CallIs
<1>9. /\ Alone' /\ Now' # << >> /\ Head(Now') = d /\ Tail(Now') = << >> /\ NoNewAdds
  <2>1. Become(t, <<d>>) /\ d.op # "add" /\ Alone
    BY <1>6, <1>7, <1>8 DEF Safe
  <2> QED BY <1>1, <1>3, <1>5, <1>8, <2>1, Replaced
<1>10. Doing'
  <2>1. AtStop(d, << >>)'
    BY <1>3, <1>5, <1>8 DEF AtStop
  <2> QED BY <1>8, <1>9, <2>1 DEF Doing
<1>11. Waiting'
  BY <1>1, <1>5, <1>9, WaitingKept DEF Safe
<1>12. SoundsOK'
  BY <1>5, <1>6 DEF Safe, SoundsOK, SoundOK
<1>13. Backed'
  <2>1. \A x \in Sounds : ~Pending(x)
    BY <1>1, NotPending DEF Safe
  <2> QED BY <1>5, <1>6, <2>1 DEF Safe, Backed
<1>14. Plays'
  BY <1>1, <1>5 DEF Safe, Plays, Reports, Sounding
<1>15. InQueue' /\ Repeats' /\ RestOK'
  BY <1>5 DEF Safe, InQueue, Repeats, RestOK
<1>16. Tagged'
  <2>1. ~Halts
    BY <1>1 DEF Halts
  <2> QED BY <1>5, <2>1 DEF Safe, Tagged, FadingOut
<1>17. Heard'
  <2>1. Heard /\ Head(Now).op # "finish"
    BY <1>1 DEF Safe
  <2>2. \A x \in Sounds : snd[x].fPlaying => life[x] = "live" /\ strm[x].playing
    BY <2>1, Hearing
  <2> QED BY <1>5, <2>2, HeardThen
<1> QED BY <1>9, <1>10, <1>11, <1>12, <1>13, <1>14, <1>15, <1>16, <1>17 DEF Safe

\* Lemma: what stopping changes of a stream.
LEMMA StopKeeps ==
  ASSUME NEW st \in StreamType
  PROVE  /\ Stop(st).iter = st.iter /\ Stop(st).wanted = st.wanted /\ Stop(st).fading = st.fading
         /\ StopFading(st).iter = st.iter /\ StopFading(st).wanted = st.wanted
         /\ StopFading(st).fading = "out"
<1>1. Stop(st).iter = st.iter /\ Stop(st).wanted = st.wanted /\ Stop(st).fading = st.fading
  BY DEF Stop, StreamType
<1>2. PICK a : a = [st EXCEPT !.fading = "out"]
  OBVIOUS
<1>3. a.iter = st.iter /\ a.wanted = st.wanted /\ a.fading = "out" /\ a \in StreamType
  BY <1>2 DEF StreamType, Fading
<1>4. StopFading(st) = [a EXCEPT !.stop_after = TRUE]
  BY <1>2 DEF StopFading
<1>5. /\ StopFading(st).iter = a.iter /\ StopFading(st).wanted = a.wanted
      /\ StopFading(st).fading = a.fading
  BY <1>3, <1>4 DEF StreamType
<1> QED BY <1>1, <1>3, <1>5

\* Lemma: the end of cancelPlaying and of fDoFadeOut.
LEMMA StopStreamSafe ==
  ASSUME Inv, Inv', Safe, NEW t \in Threads, StopStream(t)
  PROVE  Safe'
<1>1. /\ stack[t] # << >> /\ Top(t) \in CallType /\ Top(t).op = "stop"
      /\ Now = stack[t] /\ Now \in Seq(CallType) /\ Now # << >> /\ Head(Now) = Top(t)
      /\ t # "audio"
  <2>1. In(t, "stop")
    BY DEF StopStream
  <2> QED BY <2>1, CallNow
<1>2. PICK u : u = Tail(Now)
  OBVIOUS
<1>3. PICK c : c = Top(t)
  OBVIOUS
<1>4. PICK s : s = c.s
  OBVIOUS
<1>5. PICK how : how = c.how
  OBVIOUS
<1>6. s \in Sounds /\ s # None
  <2>1. s \in Sounds
    BY <1>1, <1>3, <1>4 DEF CallType, OnSound
  <2> QED BY <2>1, SoundAssumption
<1>7. IF how = "crossfade" THEN AtLeave(c, u) ELSE AtStop(c, u)
  BY <1>1, <1>2, <1>3, <1>5 DEF Safe, Doing
<1>8. /\ life' = life /\ tag' = tag /\ attr' = attr /\ left' = left /\ cancelled' = cancelled
      /\ queue' = queue /\ playing_' = playing_ /\ incb' = incb /\ rest' = rest /\ calls' = calls
  BY DEF StopStream, entries, qvars
<1>9. PICK st : st = IF how \in {"fade", "crossfade"} THEN StopFading(strm[s]) ELSE Stop(strm[s])
  OBVIOUS
<1>10. /\ st.iter = strm[s].iter /\ st.wanted = strm[s].wanted
       /\ FadingOut(s) => st.fading = "out"
       /\ how \in {"fade", "crossfade"} => st.fading = "out" /\ st.playing = strm[s].playing
       /\ how \notin {"fade", "crossfade"} => ~st.playing
  <2>1. strm[s] \in StreamType
    BY <1>6 DEF Inv, StreamTypes
  <2> QED BY <1>9, <2>1, StopFacts, StopKeeps DEF FadingOut
<1>11. strm'[s] = st /\ \A x \in Sounds : x # s => strm'[x] = strm[x]
  <2>1. strm' = [strm EXCEPT ![s] = st]
    BY <1>3, <1>4, <1>5, <1>9 DEF StopStream
  <2> QED BY <1>6, <2>1 DEF Inv, StreamTypes
<1>12. PICK keeps \in BOOLEAN : keeps = (snd[s].done /\ KeepsDone(how))
  BY <1>6 DEF Inv, SoundTypes, SndType
<1>13. /\ \A x \in Sounds : x # s => snd'[x] = snd[x]
       /\ snd'[s].done = keeps /\ snd'[s].fPlaying = snd[s].fPlaying
       /\ snd'[s].fRepeats = snd[s].fRepeats /\ snd'[s].fCrossFade = snd[s].fCrossFade
  <2>1. snd' = [snd EXCEPT ![s].done = keeps]
    BY <1>3, <1>4, <1>5, <1>12 DEF StopStream
  <2>2. snd' = [snd EXCEPT ![s] = [snd[s] EXCEPT !.done = keeps]]
    BY <1>6, <2>1 DEF Inv, SoundTypes
  <2>3. PICK r : r = [snd[s] EXCEPT !.done = keeps]
    OBVIOUS
  <2>4. /\ r.done = keeps /\ r.fPlaying = snd[s].fPlaying
        /\ r.fRepeats = snd[s].fRepeats /\ r.fCrossFade = snd[s].fCrossFade
    <3>1. snd[s] \in SndType
      BY <1>6 DEF Inv, SoundTypes
    <3> QED BY <2>3, <3>1 DEF SndType
  <2>5. snd'[s] = r /\ \A x \in Sounds : x # s => snd'[x] = snd[x]
    BY <1>6, <2>2, <2>3 DEF Inv, SoundTypes
  <2> QED BY <2>4, <2>5
<1>14. Become(t, IF Finishes(how) THEN <<Call("finish", s)>> ELSE << >>)
  BY <1>3, <1>4, <1>5 DEF StopStream
<1>15. \A x \in Sounds : strm'[x].playing => strm[x].playing
  <2>1. strm'[s].playing => strm[s].playing
    BY <1>10, <1>11
  <2> QED BY <1>11, <2>1
<1>16. \A x \in Sounds : FadingOut(x) => FadingOut(x)'
  BY <1>10, <1>11 DEF FadingOut
<1>17. SoundsOK'
  <2> SUFFICES ASSUME NEW x \in Sounds PROVE SoundOK(x)'
    BY <1>8 DEF Safe, SoundsOK
  <2>1. SoundOK(x)
    BY DEF Safe, SoundsOK
  <2>2. CASE x = s
    BY <1>8, <1>10, <1>11, <1>13, <1>15, <2>1, <2>2 DEF SoundOK
  <2>3. CASE x # s
    BY <1>8, <1>11, <1>13, <2>1, <2>3 DEF SoundOK
  <2> QED BY <2>2, <2>3
<1>18. Repeats'
  <2>1. playing_ \in Sounds \/ playing_ = None
    BY RangeFacts DEF Inv, QueueOK
  <2>2. \A x \in Sounds : /\ strm'[x].wanted = strm[x].wanted /\ snd'[x].fPlaying = snd[x].fPlaying
                          /\ snd'[x].fRepeats = snd[x].fRepeats
    BY <1>10, <1>11, <1>13
  <2>3. CASE playing_ = None
    BY <1>8, <2>3 DEF Repeats
  <2>4. CASE playing_ \in Sounds
    BY <1>8, <2>2, <2>4 DEF Safe, Repeats
  <2> QED BY <2>1, <2>3, <2>4
<1>19. InQueue'
  <2>1. Range(queue) \subseteq Sounds
    BY RangeFacts DEF Inv, QueueOK
  <2> QED BY <1>8, <1>15, <2>1 DEF Safe, InQueue
<1>20. RestOK'
  <2>1. rest = << >>
    BY <1>1 DEF Safe, Alone, Inv, CallbackOver, Threads
  <2> QED BY <1>8, <2>1, NoCall DEF Safe, RestOK
<1>21. \A x \in Sounds : snd[x].fPlaying => life[x] = "live" /\ strm[x].playing
  <2>1. Heard /\ Head(Now).op # "finish"
    BY <1>1 DEF Safe
  <2> QED BY <2>1, Hearing
<1>22. CASE how = "crossfade"
  <2>1. u \in Bases /\ queue = << >>
    BY <1>7, <1>22 DEF AtLeave
  <2>2. Return(t)
    BY <1>14, <1>22 DEF Finishes, Return
  <2>3. Alone' /\ Now' = u /\ NoNewAdds
    BY <1>1, <1>2, <1>8, <2>2, Returned DEF Safe
  <2>4. Doing'
    BY <1>8, <2>1, <2>3, BaseDoing
  <2>5. Waiting'
    BY <1>1, <1>15, <2>3, WaitingKept DEF Safe
  <2>6. Range(queue) = {} /\ playing_ = None
    BY <2>1, NoCall DEF Inv, QueueOK
  <2>7. Backed'
    <3>1. \A x \in Sounds : x # s => ~Pending(x)
      BY <1>1, <1>2, <1>3, <1>4, <2>1, BaseLeaves, LeavingFacts DEF Pending, Among
    <3>2. ~snd'[s].done
      BY <1>12, <1>13, <1>22 DEF KeepsDone
    <3> SUFFICES ASSUME NEW x \in Sounds, life'[x] = "live", snd'[x].fPlaying, snd'[x].done
                 PROVE  (strm'[x].playing => playing_' = x) /\ calls'[x] = 0
      BY DEF Backed
    <3>3. x # s
      BY <3>2
    <3> QED BY <1>8, <1>11, <1>13, <3>1, <3>3 DEF Safe, Backed
  <2>8. Plays' /\ Tagged'
    BY <1>8, <2>6 DEF Plays, Tagged
  <2>9. Heard'
    <3>1. \A x \in Sounds : strm'[x].playing = strm[x].playing /\ snd'[x].fPlaying = snd[x].fPlaying
      BY <1>10, <1>11, <1>13, <1>22
    <3> QED BY <1>8, <1>21, <3>1, HeardThen
  <2> QED BY <1>17, <1>18, <1>19, <1>20, <2>3, <2>4, <2>5, <2>7, <2>8, <2>9 DEF Safe
<1>23. ASSUME how = "fade" \/ how = "halt" PROVE \A x \in Sounds : ~Pending(x) /\ snd'[x].done = snd[x].done
  <2>1. \A x \in Sounds : ~Pending(x)
    BY <1>1, <1>3, <1>5, <1>23, NotPending DEF Safe
  <2>2. keeps = snd[s].done
    <3>1. snd[s].done \in BOOLEAN
      BY <1>6 DEF Inv, SoundTypes, SndType
    <3> QED BY <1>12, <1>23, <3>1 DEF KeepsDone
  <2> QED BY <1>13, <2>1, <2>2
<1>24. ASSUME how = "fade" \/ how = "halt" PROVE Backed'
  <2> SUFFICES ASSUME NEW x \in Sounds, life'[x] = "live", snd'[x].fPlaying, snd'[x].done
               PROVE  (strm'[x].playing => playing_' = x) /\ calls'[x] = 0
    BY DEF Backed
  <2>1. snd[x].fPlaying /\ snd[x].done /\ ~Pending(x)
    BY <1>13, <1>23, <1>24
  <2> QED BY <1>8, <1>15, <2>1 DEF Safe, Backed
<1>25. CASE how = "fade"
  <2>1. Return(t)
    BY <1>14, <1>25 DEF Finishes, Return
  <2>2. Alone' /\ Now' = u /\ NoNewAdds
    BY <1>1, <1>2, <1>8, <2>1, Returned DEF Safe
  <2>3. Doing'
    <3>1. CASE u = << >>
      BY <2>2, <3>1 DEF Doing
    <3>2. CASE AtCancel(c, u)
      <4>1. u \in Bases /\ ~Adds(u) /\ AllCancelled /\ playing_ = s
        BY <1>4, <1>5, <1>25, <3>2 DEF AtCancel
      <4>2. AllCancelled' /\ playing_' # None
        BY <1>6, <1>8, <4>1 DEF AllCancelled
      <4>3. FadingOut(playing_)'
        BY <1>8, <1>10, <1>11, <1>25, <4>1 DEF FadingOut
      <4> QED BY <2>2, <4>1, <4>2, <4>3, BaseDoing
    <3> QED BY <1>7, <1>25, <3>1, <3>2 DEF AtStop
  <2>4. Waiting'
    BY <1>1, <1>15, <2>2, WaitingKept DEF Safe
  <2>5. \A x \in Sounds : strm'[x].playing = strm[x].playing /\ snd'[x].fPlaying = snd[x].fPlaying
    BY <1>10, <1>11, <1>13, <1>25
  <2>6. Plays'
    <3>1. playing_ # None => playing_ \in Sounds
      BY RangeFacts DEF Inv, QueueOK
    <3> QED BY <1>1, <1>8, <1>23, <1>25, <2>5, <3>1 DEF Safe, Plays, Reports, Sounding
  <2>7. Tagged'
    <3>1. ~Halts
      BY <1>1, <1>3, <1>5, <1>25 DEF Halts
    <3>2. Range(queue) \subseteq Sounds
      BY RangeFacts DEF Inv, QueueOK
    <3> QED BY <1>8, <1>16, <3>1, <3>2 DEF Safe, Tagged
  <2>8. Heard'
    BY <1>8, <1>21, <2>5, HeardThen
  <2> QED BY <1>17, <1>18, <1>19, <1>20, <1>24, <1>25, <2>2, <2>3, <2>4, <2>6, <2>7, <2>8 DEF Safe
<1>26. CASE how = "halt"
  <2>1. AtCancel(c, u)
    BY <1>5, <1>7, <1>26 DEF AtStop
  <2>2. u \in Bases /\ playing_ = s /\ Sounding(s) /\ AllCancelled
    BY <1>4, <2>1 DEF AtCancel
  <2>3. PICK d : d = Call("finish", s)
    OBVIOUS
  <2>4. d \in CallType /\ d.op = "finish" /\ d.s = s /\ d.how = "halt"
    <3>1. d \in CallType
      BY <1>6, <2>3, CallFacts DEF OnSound
    <3>2. d = [op |-> "finish", s |-> s, how |-> "halt", n |-> 0]
      BY <2>3 DEF Call
    <3> QED BY <3>1, <3>2
  <2>5. /\ Alone' /\ Now' # << >> /\ Head(Now') = d /\ Tail(Now') = u /\ NoNewAdds
    <3>1. Become(t, <<d>>) /\ d.op # "add" /\ Alone
      BY <1>14, <1>26, <2>3, <2>4 DEF Safe, Finishes
    <3> QED BY <1>1, <1>2, <1>8, <2>4, <3>1, Replaced
  <2>6. AllCancelled'
    BY <1>8, <2>2 DEF AllCancelled
  <2>7. life'[s] = "live" /\ ~strm'[s].playing /\ snd'[s].fPlaying /\ snd'[s].done
    BY <1>6, <1>8, <1>10, <1>11, <1>13, <1>23, <1>26, <2>2 DEF Sounding
  <2>8. Doing'
    <3>1. AtFinish(d, u)'
      BY <1>8, <2>2, <2>4, <2>6, <2>7 DEF AtFinish
    <3> QED BY <2>4, <2>5, <3>1 DEF Doing
  <2>9. Waiting'
    BY <1>1, <1>15, <2>5, WaitingKept DEF Safe
  <2>10. Plays'
    BY <1>8, <2>2, <2>4, <2>5 DEF Plays, Reports
  <2>11. Tagged'
    <3>1. Halts => Halts'
      BY <1>1, <1>2, <1>8, <2>2, <2>4, <2>5, <2>6 DEF Halts
    <3>2. Range(queue) \subseteq Sounds
      BY RangeFacts DEF Inv, QueueOK
    <3> QED BY <1>8, <1>16, <3>1, <3>2 DEF Safe, Tagged
  <2>12. Heard'
    <3>1. Finishing(s)'
      BY <2>4, <2>5 DEF Finishing
    <3>2. \A x \in Sounds : snd'[x].fPlaying => life'[x] = "live" /\ (x = s \/ strm'[x].playing)
      BY <1>8, <1>11, <1>13, <1>21
    <3> QED BY <3>1, <3>2 DEF Heard
  <2> QED BY <1>17, <1>18, <1>19, <1>20, <1>24, <1>26, <2>5, <2>8, <2>9, <2>10, <2>11, <2>12 DEF Safe
<1> QED BY <1>5, <1>7, <1>22, <1>25, <1>26 DEF AtStop

\* Lemma: fFinishCallback.
LEMMA FinishCallbackSafe ==
  ASSUME Inv, Inv', Safe, NEW t \in Threads, FinishCallback(t)
  PROVE  Safe'
<1>1. /\ stack[t] # << >> /\ Top(t) \in CallType /\ Top(t).op = "finish"
      /\ Now = stack[t] /\ Now \in Seq(CallType) /\ Now # << >> /\ Head(Now) = Top(t)
  <2>1. In(t, "finish")
    BY DEF FinishCallback
  <2> QED BY <2>1, CallNow
<1>2. PICK u : u = Tail(Now)
  OBVIOUS
<1>3. PICK c : c = Top(t)
  OBVIOUS
<1>4. PICK s : s = c.s
  OBVIOUS
<1>5. /\ s \in Sounds /\ s # None /\ u \in Bases /\ life[s] = "live" /\ ~strm[s].playing
      /\ snd[s].fPlaying /\ (snd[s].done <=> playing_ = s)
      /\ u # << >> => AllCancelled /\ snd[s].done
  <2>1. AtFinish(c, u)
    BY <1>1, <1>2, <1>3 DEF Safe, Doing
  <2>2. s \in Sounds
    BY <1>1, <1>3, <1>4 DEF CallType, OnSound
  <2> QED BY <1>4, <2>1, <2>2, SoundAssumption DEF AtFinish
<1>6. /\ life' = life /\ tag' = tag /\ attr' = attr /\ left' = left /\ cancelled' = cancelled
      /\ queue' = queue /\ playing_' = playing_ /\ strm' = strm /\ incb' = incb /\ rest' = rest
  BY DEF FinishCallback, entries, qvars, audio
<1>7. /\ \A x \in Sounds : x # s => snd'[x] = snd[x]
      /\ snd'[s].done = snd[s].done /\ snd'[s].fPlaying = FALSE
      /\ snd'[s].fRepeats = snd[s].fRepeats /\ snd'[s].fCrossFade = snd[s].fCrossFade
  <2>1. snd' = [snd EXCEPT ![s].fPlaying = FALSE]
    BY <1>3, <1>4 DEF FinishCallback
  <2>2. PICK r : r = [snd[s] EXCEPT !.fPlaying = FALSE]
    OBVIOUS
  <2>3. snd' = [snd EXCEPT ![s] = r]
    BY <1>5, <2>1, <2>2 DEF Inv, SoundTypes
  <2>4. /\ r.done = snd[s].done /\ r.fPlaying = FALSE
        /\ r.fRepeats = snd[s].fRepeats /\ r.fCrossFade = snd[s].fCrossFade
    <3>1. snd[s] \in SndType
      BY <1>5 DEF Inv, SoundTypes
    <3> QED BY <2>2, <3>1 DEF SndType
  <2>5. snd'[s] = r /\ \A x \in Sounds : x # s => snd'[x] = snd[x]
    BY <1>5, <2>3 DEF Inv, SoundTypes
  <2> QED BY <2>4, <2>5
<1>8. CallDone(t, s, << >>)
  BY <1>3, <1>4 DEF FinishCallback
<1>9. \A x \in Sounds : ~Pending(x)
  BY <1>1, NotPending DEF Safe
<1>10. \A x \in Sounds : x # s /\ snd[x].fPlaying => life[x] = "live" /\ strm[x].playing
  BY <1>1, <1>3, <1>4 DEF Safe, Heard, Finishing
<1>11. Heard'
  <2>1. \A x \in Sounds : snd'[x].fPlaying => life'[x] = "live" /\ strm'[x].playing
    BY <1>6, <1>7, <1>10
  <2> QED BY <2>1, HeardThen
<1>12. InQueue' /\ RestOK'
  BY <1>6 DEF Safe, InQueue, RestOK
<1>13. Repeats'
  <2>1. CASE playing_ = s
    BY <1>6, <1>7, <2>1 DEF Repeats
  <2>2. CASE playing_ # s
    <3>1. playing_ = None \/ playing_ \in Sounds
      BY RangeFacts DEF Inv, QueueOK
    <3> QED BY <1>6, <1>7, <2>2, <3>1 DEF Safe, Repeats
  <2> QED BY <2>1, <2>2
<1>14. CASE snd[s].done
  <2>1. PICK n \in Nat : n = snd[s].fRepeats
    BY <1>5 DEF Inv, SoundTypes, SndType
  <2>2. PICK d : d = DoneCall(s, n)
    OBVIOUS
  <2>3. d \in CallType /\ d \in AudioCall /\ d.op = "done" /\ d.s = s /\ d.n = n /\ d.how = "halt"
    BY <1>5, <2>2, DoneIs
  <2>4. Become(t, <<d>>) /\ calls' = [calls EXCEPT ![s] = IF @ < 2 THEN @ + 1 ELSE @]
    <3>1. /\ Become(t, <<DoneCall(s, snd'[s].fRepeats)>> \o << >>) \/ Become(t, <<DoneCall(s, snd[s].fRepeats)>> \o << >>)
          /\ calls' = [calls EXCEPT ![s] = IF @ < 2 THEN @ + 1 ELSE @]
      BY <1>8, <1>14 DEF CallDone
    <3>2. <<d>> \o << >> = <<d>>
      OBVIOUS
    <3> QED BY <1>7, <2>1, <2>2, <3>1, <3>2
  <2>5. /\ Alone' /\ Now' # << >> /\ Head(Now') = d /\ Tail(Now') = u /\ NoNewAdds
    <3>1. d.op # "add" /\ Alone
      BY <2>3 DEF Safe
    <3> QED BY <1>1, <1>2, <1>6, <2>3, <2>4, <3>1, Replaced
  <2>6. calls' \in [Sounds -> Nat] /\ calls'[s] = 1 /\ \A x \in Sounds : x # s => calls'[x] = calls[x]
    <3>1. calls[s] = 0
      BY <1>5, <1>9, <1>14 DEF Safe, Backed
    <3>2. calls' = [calls EXCEPT ![s] = 1]
      BY <2>4, <3>1
    <3> QED BY <1>5, <3>2 DEF Safe, SoundsOK
  <2>7. Doing'
    <3>1. left[s] # 0 => n <= left[s]
      <4>1. left[s] \in Int /\ strm[s].wanted \in Int
        BY <1>5 DEF Inv, EntryTypes, StreamTypes, StreamType
      <4> QED BY <1>5, <1>14, <2>1, <4>1 DEF Safe, Repeats
    <3>2. AtDone(d, u)'
      BY <1>5, <1>6, <1>14, <2>3, <3>1 DEF AtDone, AllCancelled
    <3> QED BY <2>3, <2>5, <3>2 DEF Doing
  <2>8. Waiting'
    BY <1>1, <1>6, <2>5, WaitingKept DEF Safe
  <2>9. SoundsOK'
    <3> SUFFICES ASSUME NEW x \in Sounds PROVE SoundOK(x)'
      BY <2>6 DEF SoundsOK
    <3>1. SoundOK(x)
      BY DEF Safe, SoundsOK
    <3>2. CASE x = s
      BY <1>5, <1>6, <1>7, <2>6, <3>1, <3>2 DEF SoundOK
    <3>3. CASE x # s
      BY <1>6, <1>7, <2>6, <3>1, <3>3 DEF SoundOK
    <3> QED BY <3>2, <3>3
  <2>10. Backed'
    <3> SUFFICES ASSUME NEW x \in Sounds, life'[x] = "live", snd'[x].fPlaying, snd'[x].done
                 PROVE  (strm'[x].playing => playing_' = x) /\ calls'[x] = 0
      BY DEF Backed
    <3>1. x # s
      BY <1>7
    <3> QED BY <1>6, <1>7, <1>9, <2>6, <3>1 DEF Safe, Backed
  <2>11. Plays'
    BY <1>5, <1>6, <1>14, <2>3, <2>5 DEF Plays, Reports
  <2>12. Tagged'
    <3>1. Halts => Halts'
      BY <1>1, <1>2, <1>6, <2>3, <2>5 DEF Halts, AllCancelled
    <3> QED BY <1>6, <3>1 DEF Safe, Tagged, FadingOut
  <2> QED BY <1>11, <1>12, <1>13, <2>5, <2>7, <2>8, <2>9, <2>10, <2>11, <2>12 DEF Safe
<1>15. CASE ~snd[s].done
  <2>1. Return(t) /\ calls' = calls
    BY <1>7, <1>8, <1>15 DEF CallDone, Return
  <2>2. u = << >> /\ playing_ # s
    BY <1>5, <1>15
  <2>3. Alone' /\ Now' = << >>
    BY <1>1, <1>2, <1>6, <2>1, <2>2, Returned DEF Safe
  <2>4. Doing' /\ Waiting'
    BY <2>3, NoCall DEF Doing, Waiting
  <2>5. SoundsOK'
    <3> SUFFICES ASSUME NEW x \in Sounds PROVE SoundOK(x)'
      BY <2>1 DEF Safe, SoundsOK
    <3>1. SoundOK(x)
      BY DEF Safe, SoundsOK
    <3>2. CASE x = s
      BY <1>5, <1>6, <1>7, <2>1, <3>1, <3>2 DEF SoundOK
    <3>3. CASE x # s
      BY <1>6, <1>7, <2>1, <3>1, <3>3 DEF SoundOK
    <3> QED BY <3>2, <3>3
  <2>6. Backed'
    <3> SUFFICES ASSUME NEW x \in Sounds, life'[x] = "live", snd'[x].fPlaying, snd'[x].done
                 PROVE  (strm'[x].playing => playing_' = x) /\ calls'[x] = 0
      BY DEF Backed
    <3>1. x # s
      BY <1>7
    <3> QED BY <1>6, <1>7, <1>9, <2>1, <3>1 DEF Safe, Backed
  <2>7. Plays'
    <3>1. playing_ = None \/ playing_ \in Sounds
      BY RangeFacts DEF Inv, QueueOK
    <3> QED BY <1>1, <1>3, <1>4, <1>6, <1>7, <2>2, <3>1 DEF Safe, Plays, Reports, Sounding
  <2>8. Tagged'
    <3>1. ~Halts
      BY <1>1, <1>3, <1>4, <2>2 DEF Halts
    <3> QED BY <1>6, <3>1 DEF Safe, Tagged, FadingOut
  <2> QED BY <1>11, <1>12, <1>13, <2>3, <2>4, <2>5, <2>6, <2>7, <2>8 DEF Safe
<1> QED BY <1>14, <1>15

\* Lemma: obsolete_prev_sounds.
LEMMA ObsoletePrevSoundsSafe ==
  ASSUME Inv, Inv', Safe, NEW t \in Threads, ObsoletePrevSounds(t)
  PROVE  Safe'
<1>1. /\ stack[t] # << >> /\ Top(t) \in CallType /\ Top(t).op = "obsolete"
      /\ Now = stack[t] /\ Now \in Seq(CallType) /\ Now # << >> /\ Head(Now) = Top(t)
      /\ t # "audio"
  <2>1. In(t, "obsolete")
    BY DEF ObsoletePrevSounds
  <2> QED BY <2>1, CallNow
<1>2. PICK u : u = Tail(Now)
  OBVIOUS
<1>3. PICK c : c = Top(t)
  OBVIOUS
<1>4. AtObsolete(c, u)
  BY <1>1, <1>2, <1>3 DEF Safe, Doing
<1>5. PICK gone : gone = {s \in Sounds : tag[s] /\ s # c.s} \ Range(queue)
  OBVIOUS
<1>6. /\ \A x \in Sounds : /\ life'[x] = IF x \in gone THEN "dead" ELSE life[x]
                           /\ snd'[x] = IF x \in gone THEN Silent ELSE snd[x]
      /\ Return(t)
      /\ attr' = attr /\ left' = left /\ cancelled' = cancelled /\ queue' = queue
      /\ playing_' = playing_ /\ strm' = strm /\ incb' = incb /\ rest' = rest /\ calls' = calls
  BY <1>3, <1>5 DEF ObsoletePrevSounds, entries, qvars, audio
<1>7. Silent.fPlaying = FALSE /\ Silent.fCrossFade = FALSE /\ Silent.fRepeats = 0
  BY DEF Silent
<1>8. Alone' /\ Now' = u /\ NoNewAdds
  BY <1>1, <1>2, <1>6, Returned DEF Safe
<1>9. Doing'
  <2>1. CASE u = << >>
    BY <1>8, <2>1 DEF Doing
  <2>2. CASE u = <<Call("add", c.s)>> /\ c.s \in Sounds /\ queue = << >>
    <3>1. PICK d : d = Call("add", c.s)
      OBVIOUS
    <3>2. d.op = "add"
      BY <3>1 DEF Call
    <3>3. u # << >> /\ Head(u) = d /\ Tail(u) = << >>
      BY <2>2, <3>1
    <3>4. AtAdd(d, << >>)'
      BY <1>6, <2>2 DEF AtAdd
    <3> QED BY <1>8, <3>2, <3>3, <3>4 DEF Doing
  <2>3. CASE u = <<Call("stopcur", None)>>
    <3>1. PICK d : d = Call("stopcur", None)
      OBVIOUS
    <3>2. d.op = "stopcur" /\ d.how = "halt"
      BY <3>1 DEF Call
    <3>3. u # << >> /\ Head(u) = d /\ Tail(u) = << >>
      BY <2>3, <3>1
    <3>4. "halt" \in Hows
      BY DEF Hows
    <3> QED BY <1>8, <3>2, <3>3, <3>4, NoneLeft DEF Doing
  <2> QED BY <1>4, <2>1, <2>2, <2>3 DEF AtObsolete
<1>10. Waiting'
  BY <1>1, <1>6, <1>8, WaitingKept DEF Safe
<1>11. SoundsOK'
  <2> SUFFICES ASSUME NEW x \in Sounds PROVE SoundOK(x)'
    BY <1>6 DEF Safe, SoundsOK
  <2>1. SoundOK(x) /\ strm[x].iter \in Int
    BY DEF Safe, SoundsOK, Inv, StreamTypes, StreamType
  <2>2. CASE x \in gone
    BY <1>6, <1>7, <2>1, <2>2 DEF SoundOK
  <2>3. CASE x \notin gone
    BY <1>6, <2>1, <2>3 DEF SoundOK
  <2> QED BY <2>2, <2>3
<1>12. Backed'
  <2>1. \A x \in Sounds : ~Pending(x)
    BY <1>1, NotPending DEF Safe
  <2> SUFFICES ASSUME NEW x \in Sounds, life'[x] = "live", snd'[x].fPlaying, snd'[x].done
               PROVE  (strm'[x].playing => playing_' = x) /\ calls'[x] = 0
    BY DEF Backed
  <2>2. life[x] = "live" /\ snd'[x] = snd[x]
    BY <1>6
  <2> QED BY <1>6, <2>1, <2>2 DEF Safe, Backed
<1>13. \A x \in Range(queue) : x \in Sounds /\ x \notin gone /\ life'[x] = life[x] /\ snd'[x] = snd[x]
  <2>1. Range(queue) \subseteq Sounds
    BY RangeFacts DEF Inv, QueueOK
  <2> QED BY <1>5, <1>6, <2>1
<1>14. playing_ \in Range(queue) \union {None}
  BY DEF Inv, QueueOK
<1>15. Plays'
  BY <1>1, <1>6, <1>13, <1>14 DEF Safe, Plays, Reports, Sounding
<1>16. Repeats'
  BY <1>6, <1>13, <1>14 DEF Safe, Repeats
<1>17. InQueue' /\ RestOK'
  BY <1>6 DEF Safe, InQueue, RestOK
<1>18. Tagged'
  <2>1. CASE u = << >> /\ (queue # << >> => AllCancelled /\ playing_ # None /\ FadingOut(playing_))
    <3>1. queue # << >> \/ Range(queue) = {}
      BY NoCall
    <3> QED BY <1>6, <2>1, <3>1 DEF Tagged, AllCancelled, FadingOut
  <2>2. CASE queue = << >>
    <3>1. Range(queue) = {}
      BY <2>2, NoCall
    <3> QED BY <1>6, <3>1 DEF Tagged
  <2>3. CASE u = <<Call("stopcur", None)>>
    <3>1. PICK d : d = Call("stopcur", None)
      OBVIOUS
    <3>2. d.op = "stopcur" /\ d.how = "halt"
      BY <3>1 DEF Call
    <3>3. u # << >> /\ Head(u) = d /\ Tail(u) = << >>
      BY <2>3, <3>1
    <3>4. Halts'
      BY <1>8, <3>2, <3>3 DEF Halts
    <3> QED BY <3>4 DEF Tagged
  <2> QED BY <1>4, <2>1, <2>2, <2>3 DEF AtObsolete
<1>19. Heard'
  <2>1. Heard /\ Head(Now).op # "finish"
    BY <1>1 DEF Safe
  <2>2. \A x \in Sounds : snd[x].fPlaying => life[x] = "live" /\ strm[x].playing
    BY <2>1, Hearing
  <2>3. \A x \in Sounds : snd'[x].fPlaying => life'[x] = "live" /\ strm'[x].playing
    BY <1>6, <1>7, <2>2
  <2> QED BY <2>3, HeardThen
<1> QED BY <1>8, <1>9, <1>10, <1>11, <1>12, <1>15, <1>16, <1>17, <1>18, <1>19 DEF Safe

-----------------------------------------------------------------------------
\* What begins while no call is under way.

\* Lemma: what is known then.
LEMMA Idle ==
  ASSUME Safe, Now = << >>
  PROVE  /\ \A s \in Sounds : ~Pending(s)
         /\ \A s \in Sounds : snd[s].fPlaying => life[s] = "live" /\ strm[s].playing
         /\ playing_ # None => Sounding(playing_)
         /\ \A s \in Range(queue) :
              tag[s] \/ (cancelled[s] /\ playing_ # None /\ (playing_ = s => FadingOut(s)))
<1>1. \A s \in Sounds : ~Pending(s)
  BY DEF Pending, Among
<1>2. \A s \in Sounds : snd[s].fPlaying => life[s] = "live" /\ strm[s].playing
  BY Hearing DEF Safe
<1>3. playing_ # None => Sounding(playing_)
  BY DEF Safe, Plays, Reports
<1>4. ~Halts
  BY DEF Halts
<1> QED BY <1>1, <1>2, <1>3, <1>4 DEF Safe, Tagged

\* Lemma: an operation begins.
LEMMA BeginNow ==
  ASSUME Inv, Safe, ~Overlap, NEW k \in Seq(CallType), Begin(k), incb' = incb
  PROVE  Now = << >> /\ Now' = k /\ Alone' /\ rest = << >> /\ ~incb
<1>1. /\ stack["gui"] = << >> /\ ~incb /\ stack'["gui"] = k /\ stack'["audio"] = stack["audio"]
  BY BeginFacts DEF Inv
<1>2. stack["audio"] = << >> /\ rest = << >>
  BY <1>1 DEF Inv, CallbackOver
<1> QED BY <1>1, <1>2 DEF Now, Alone

\* Lemma: an operation that begins with calls that add no sound.
LEMMA BeginSafe ==
  ASSUME Inv, Inv', Safe, ~Overlap, NEW k \in Seq(CallType), Begin(k),
         \A c \in Range(k) : c.op # "add",
         UNCHANGED <<life, tag, entries, qvars, audio, calls>>,
         \A x \in Sounds : /\ snd'[x].fPlaying = snd[x].fPlaying /\ snd'[x].done = snd[x].done
                           /\ snd'[x].fRepeats = snd[x].fRepeats
                           /\ snd'[x].fCrossFade = snd[x].fCrossFade,
         Now' = k /\ Now = << >> => Doing'
  PROVE  Safe'
<1>1. /\ life' = life /\ tag' = tag /\ attr' = attr /\ left' = left /\ cancelled' = cancelled
      /\ queue' = queue /\ playing_' = playing_ /\ strm' = strm /\ incb' = incb
      /\ rest' = rest /\ calls' = calls
  BY DEF entries, qvars, audio
<1>2. Now = << >> /\ Now' = k /\ Alone'
  BY <1>1, BeginNow
<1>3. /\ \A s \in Sounds : ~Pending(s)
      /\ \A s \in Sounds : snd[s].fPlaying => life[s] = "live" /\ strm[s].playing
      /\ playing_ # None => Sounding(playing_)
      /\ \A s \in Range(queue) :
           tag[s] \/ (cancelled[s] /\ playing_ # None /\ (playing_ = s => FadingOut(s)))
  BY <1>2, Idle
<1>4. Range(queue) \subseteq Sounds /\ playing_ \in Sounds \union {None}
  BY RangeFacts DEF Inv, QueueOK
<1>5. Waiting'
  BY <1>2 DEF Waiting
<1>6. SoundsOK'
  BY <1>1 DEF Safe, SoundsOK, SoundOK
<1>7. Backed'
  BY <1>1, <1>3 DEF Safe, Backed
<1>8. Plays'
  BY <1>1, <1>3, <1>4 DEF Plays, Sounding
<1>9. Repeats'
  BY <1>1, <1>4 DEF Safe, Repeats
<1>10. InQueue' /\ RestOK'
  BY <1>1 DEF Safe, InQueue, RestOK
<1>11. Tagged'
  BY <1>1, <1>3 DEF Tagged, FadingOut
<1>12. Heard'
  BY <1>1, <1>3, HeardThen
<1> QED BY <1>2, <1>5, <1>6, <1>7, <1>8, <1>9, <1>10, <1>11, <1>12 DEF Safe

\* Lemma: an operation that begins with one call.
LEMMA BeginOneSafe ==
  ASSUME Inv, Inv', Safe, ~Overlap, NEW c \in CallType, c.op # "add", Begin(<<c>>),
         UNCHANGED <<life, tag, entries, qvars, audio, calls>>,
         \A x \in Sounds : /\ snd'[x].fPlaying = snd[x].fPlaying /\ snd'[x].done = snd[x].done
                           /\ snd'[x].fRepeats = snd[x].fRepeats
                           /\ snd'[x].fCrossFade = snd[x].fCrossFade,
         \/ c.op = "stopcur" /\ c.how \in Hows
         \/ c.op = "maybe" /\ playing_ = None
         \/ c.op = "fadeout" /\ life[c.s] = "live"
  PROVE  Safe'
<1>1. PICK k : k = <<c>>
  OBVIOUS
<1>2. k \in Seq(CallType) /\ Range(k) = {c} /\ k # << >> /\ Head(k) = c /\ Tail(k) = << >>
  BY <1>1, OneCall, HeadOne
<1>3. life' = life /\ playing_' = playing_ /\ queue' = queue
  BY DEF qvars
<1>4. ASSUME Now' = k PROVE Doing'
  <2>1. CASE c.op = "stopcur" /\ c.how \in Hows
    BY <1>2, <1>4, <2>1, NoneLeft DEF Doing
  <2>2. CASE c.op = "maybe" /\ playing_ = None
    <3>1. AtMaybe(c, << >>)'
      BY <1>3, <2>2, NoneLeft DEF AtMaybe
    <3> QED BY <1>2, <1>4, <2>2, <3>1 DEF Doing
  <2>3. CASE c.op = "fadeout" /\ life[c.s] = "live"
    BY <1>2, <1>3, <1>4, <2>3 DEF Doing
  <2> QED BY <2>1, <2>2, <2>3
<1>5. Begin(k) /\ \A d \in Range(k) : d.op # "add"
  BY <1>1, <1>2
<1> QED BY <1>2, <1>4, <1>5, BeginSafe

\* Lemma: an operation that begins with two calls.
LEMMA BeginTwoSafe ==
  ASSUME Inv, Inv', Safe, ~Overlap, NEW c \in CallType, NEW d \in CallType, Begin(<<c, d>>),
         UNCHANGED <<life, tag, entries, qvars, snd, audio, calls>>,
         \/ c.op = "stopcur" /\ c.how \in Hows /\ d = Call("obsolete", None)
         \/ c.op = "obsolete" /\ c.s = None /\ d = Call("stopcur", None)
  PROVE  Safe'
<1>1. PICK k : k = <<c, d>>
  OBVIOUS
<1>2. /\ k \in Seq(CallType) /\ k # << >> /\ Head(k) = c /\ Tail(k) = <<d>>
  BY <1>1
<1>3. c.op # "add" /\ d.op # "add"
  BY DEF Call
<1>4. \A x \in Range(k) : x.op # "add"
  <2>1. Len(k) = 2 /\ k[1] = c /\ k[2] = d
    BY <1>1, TwoCalls
  <2>2. \A i \in 1 .. 2 : i = 1 \/ i = 2
    OBVIOUS
  <2>3. \A x : x \in Range(k) <=> \E i \in 1 .. Len(k) : k[i] = x
    BY <1>2, RangeFacts
  <2> QED BY <1>3, <2>1, <2>2, <2>3
<1>5. ASSUME Now' = k PROVE Doing'
  <2>1. CASE c.op = "stopcur" /\ c.how \in Hows /\ d = Call("obsolete", None)
    <3>1. Tail(k) \in Bases
      BY <1>2, <2>1 DEF Bases
    <3>2. ~Adds(Tail(k))
      <4>1. PICK v : v = Tail(k)
        OBVIOUS
      <4>2. Len(v) = 1
        BY <1>2, <4>1
      <4>3. ASSUME NEW s \in Sounds, v = <<Call("obsolete", s), Call("add", s)>> PROVE FALSE
        <5>1. Len(v) = 2
          BY <4>3
        <5> QED BY <4>2, <5>1
      <4> QED BY <4>1, <4>3 DEF Adds
    <3> QED BY <1>2, <1>5, <2>1, <3>1, <3>2 DEF Doing
  <2>2. CASE c.op = "obsolete" /\ c.s = None /\ d = Call("stopcur", None)
    <3>1. AtObsolete(c, Tail(k))'
      BY <1>2, <2>2 DEF AtObsolete
    <3> QED BY <1>2, <1>5, <2>2, <3>1 DEF Doing
  <2> QED BY <2>1, <2>2
<1>6. Begin(k)
  BY <1>1
<1> QED BY <1>2, <1>4, <1>5, <1>6, BeginSafe

\* Lemma: <SOUND CANCEL>, a new page, the settings and the timers.
LEMMA BeginningsSafe ==
  ASSUME Inv, Inv', Safe, ~Overlap,
         \/ \E how \in Hows : FormatCancel(how)
         \/ StartNewPage \/ NotifyPreferencesChange \/ OnTimer
         \/ \E s \in Sounds : FadeOutTimer(s)
  PROVE  Safe'
<1>1. "halt" \in Hows
  BY DEF Hows
<1>2. /\ Call("stopcur", None) \in CallType /\ Call("stopcur", None).op = "stopcur"
      /\ Call("stopcur", None).how = "halt"
      /\ Call("obsolete", None) \in CallType /\ Call("obsolete", None).op = "obsolete"
      /\ Call("obsolete", None).s = None
      /\ Call("maybe", None) \in CallType /\ Call("maybe", None).op = "maybe"
  <2>1. Call("stopcur", None).how = "halt"
    BY DEF Call
  <2> QED BY <1>1, <2>1, FirstCalls
<1>3. ASSUME NEW how \in Hows, FormatCancel(how) PROVE Safe'
  <2>1. PICK c : c = CallHow("stopcur", None, how)
    OBVIOUS
  <2>2. c \in CallType /\ c.op = "stopcur" /\ c.how = how
    BY <2>1, FirstCalls, CallIs
  <2>3. Begin(<<c, Call("obsolete", None)>>) /\ UNCHANGED <<life, tag, entries, qvars, snd, audio, calls>>
    BY <1>3, <2>1 DEF FormatCancel
  <2> QED BY <1>2, <2>2, <2>3, BeginTwoSafe
<1>4. CASE StartNewPage
  <2>1. /\ Begin(<<Call("obsolete", None), Call("stopcur", None)>>)
        /\ UNCHANGED <<life, tag, entries, qvars, snd, audio, calls>>
    BY <1>4 DEF StartNewPage
  <2> QED BY <1>2, <2>1, BeginTwoSafe
<1>5. CASE NotifyPreferencesChange
  <2>1. UNCHANGED <<life, tag, entries, qvars, snd, audio, calls>>
    BY <1>5 DEF NotifyPreferencesChange
  <2>2. CASE enabled
    <3>1. Begin(<<Call("stopcur", None)>>)
      BY <1>5, <2>2 DEF NotifyPreferencesChange
    <3> QED BY <1>1, <1>2, <2>1, <3>1, BeginOneSafe
  <2>3. CASE ~enabled
    <3>1. PICK k : k = << >>
      OBVIOUS
    <3>2. Begin(k)
      BY <1>5, <2>3, <3>1 DEF NotifyPreferencesChange
    <3>3. k \in Seq(CallType) /\ Range(k) = {}
      BY <3>1, NoCall
    <3>4. ASSUME Now' = k PROVE Doing'
      BY <3>1, <3>4 DEF Doing
    <3> QED BY <2>1, <3>2, <3>3, <3>4, BeginSafe
  <2> QED BY <2>2, <2>3
<1>6. CASE OnTimer
  <2>1. /\ Begin(<<Call("maybe", None)>>) /\ playing_ = None
        /\ UNCHANGED <<life, tag, entries, qvars, snd, audio, calls>>
    BY <1>6 DEF OnTimer
  <2> QED BY <1>2, <2>1, BeginOneSafe
<1>7. ASSUME NEW s \in Sounds, FadeOutTimer(s) PROVE Safe'
  <2>1. PICK c : c = Call("fadeout", s)
    OBVIOUS
  <2>2. c \in CallType /\ c.op = "fadeout" /\ c.s = s
    BY <2>1, CallFacts DEF OnSound
  <2>3. /\ Begin(<<c>>) /\ life[c.s] = "live"
        /\ UNCHANGED <<life, tag, entries, qvars, audio, calls>>
    BY <1>7, <2>1, <2>2 DEF FadeOutTimer
  <2>4. PICK r : r = [snd[s] EXCEPT !.timer = "off"]
    OBVIOUS
  <2>5. snd' = [snd EXCEPT ![s] = r]
    BY <1>7, <2>4 DEF FadeOutTimer, Inv, SoundTypes
  <2>6. /\ r.fPlaying = snd[s].fPlaying /\ r.done = snd[s].done
        /\ r.fRepeats = snd[s].fRepeats /\ r.fCrossFade = snd[s].fCrossFade
    <3>1. snd[s] \in SndType
      BY DEF Inv, SoundTypes
    <3> QED BY <2>4, <3>1 DEF SndType
  <2>7. ASSUME NEW x \in Sounds
        PROVE  /\ snd'[x].fPlaying = snd[x].fPlaying /\ snd'[x].done = snd[x].done
               /\ snd'[x].fRepeats = snd[x].fRepeats /\ snd'[x].fCrossFade = snd[x].fCrossFade
    <3>1. CASE x = s
      BY <2>5, <2>6, <3>1 DEF Inv, SoundTypes
    <3>2. CASE x # s
      BY <2>5, <3>2 DEF Inv, SoundTypes
    <3> QED BY <3>1, <3>2
  <2> QED BY <2>2, <2>3, <2>7, BeginOneSafe
<1> QED BY <1>3, <1>4, <1>5, <1>6, <1>7

\* Lemma: three calls.
LEMMA ThreeCalls ==
  ASSUME NEW S, NEW c \in S, NEW d \in S, NEW e \in S
  PROVE  LET k == <<c, d>> \o <<e>> IN k # << >> /\ Head(k) = c /\ Tail(k) = <<d, e>>
<1>1. /\ <<c, d>> \in Seq(S) /\ Len(<<c, d>>) = 2 /\ <<c, d>>[1] = c /\ <<c, d>>[2] = d
      /\ <<d, e>> \in Seq(S) /\ Len(<<d, e>>) = 2 /\ <<d, e>>[1] = d /\ <<d, e>>[2] = e
      /\ <<e>> \in Seq(S) /\ Len(<<e>>) = 1 /\ <<e>>[1] = e
  OBVIOUS
<1>2. PICK k : k = <<c, d>> \o <<e>>
  OBVIOUS
<1>3. k \in Seq(S) /\ Len(k) = 3 /\ k[1] = c /\ k[2] = d /\ k[3] = e
  BY <1>1, <1>2
<1>4. k # << >> /\ Head(k) = c
  BY <1>3
<1>5. PICK q : q = Tail(k)
  OBVIOUS
<1>6. q \in Seq(S) /\ Len(q) = 2 /\ q[1] = d /\ q[2] = e
  <2>1. q \in Seq(S) /\ Len(q) = 2
    BY <1>3, <1>4, <1>5
  <2>2. \A i \in 1 .. Len(q) : q[i] = k[i + 1]
    BY <1>3, <1>4, <1>5
  <2>3. 1 \in 1 .. Len(q) /\ 2 \in 1 .. Len(q) /\ 1 + 1 = 2 /\ 2 + 1 = 3
    BY <2>1
  <2>4. q[1] = k[2] /\ q[2] = k[3]
    BY <2>2, <2>3
  <2> QED BY <1>3, <2>1, <2>4
<1>7. \A i \in 1 .. 2 : q[i] = <<d, e>>[i]
  <2> TAKE i \in 1 .. 2
  <2>1. i = 1 \/ i = 2
    OBVIOUS
  <2> QED BY <1>1, <1>6, <2>1
<1>8. q = <<d, e>>
  BY <1>1, <1>6, <1>7
<1> QED BY <1>2, <1>4, <1>5, <1>8

\* What a tag calls first.
First(k, s, a) ==
  /\ k \in Seq(CallType) /\ k # << >>
  /\ \A c \in Range(k) : c.op = "add" => c.s = s
  /\ a.interrupt => /\ Head(k).op = "stopcur" /\ Head(k).how \in Hows /\ Head(k).how # "fade"
                    /\ Tail(k) \in Bases
  /\ ~a.interrupt => Head(k).op = "add" /\ Head(k).s = s /\ Tail(k) = << >>

\* Lemma: the calls that CHtmlTagSOUND::format begins with, if it cancels.
LEMMA FormatHead ==
  ASSUME NEW s \in Sounds, NEW a \in Attributes, NEW k, k = FormatFrames(s, a)
  PROVE  First(k, s, a)
<1>1. /\ k \in Seq(CallType)
      /\ \A i \in 1 .. Len(k) : k[i].op \in {"add", "obsolete"} => k[i].s = s
  BY FormatCalls
<1>2. \A c \in Range(k) : c.op = "add" => c.s = s
  <2>1. \A x : x \in Range(k) <=> \E i \in 1 .. Len(k) : k[i] = x
    BY <1>1, RangeFacts
  <2> QED BY <1>1, <2>1
<1>3. PICK how \in Hows : how = IF a.xin THEN "crossfade" ELSE "halt"
  BY DEF Hows
<1>4. PICK c : c = CallHow("stopcur", None, how)
  OBVIOUS
<1>5. PICK d : d = Call("obsolete", s)
  OBVIOUS
<1>6. PICK e : e = Call("add", s)
  OBVIOUS
<1>7. /\ c \in CallType /\ c.op = "stopcur" /\ c.how = how /\ d \in CallType
      /\ e \in CallType /\ e.op = "add" /\ e.s = s
  <2>1. e \in CallType /\ e.op = "add" /\ e.s = s
    BY <1>6, CallFacts DEF OnSound
  <2>2. c \in CallType /\ d \in CallType
    BY <1>4, <1>5, FirstCalls
  <2> QED BY <1>4, <2>1, <2>2, CallIs
<1>8. k = IF a.interrupt THEN <<c, d>> \o <<e>> ELSE << >> \o <<e>>
  BY <1>3, <1>4, <1>5, <1>6 DEF FormatFrames
<1>9. CASE a.interrupt
  <2>1. k = <<c, d>> \o <<e>>
    BY <1>8, <1>9
  <2>2. k # << >> /\ Head(k) = c /\ Tail(k) = <<d, e>>
    BY <1>7, <2>1, ThreeCalls
  <2>3. Tail(k) \in Bases
    BY <1>5, <1>6, <2>2 DEF Bases
  <2> QED BY <1>1, <1>2, <1>3, <1>7, <1>9, <2>2, <2>3 DEF First, Hows
<1>10. CASE ~a.interrupt
  <2>1. k = <<e>>
    BY <1>7, <1>8, <1>10
  <2>2. k # << >> /\ Head(k) = e /\ Tail(k) = << >>
    BY <2>1, HeadOne
  <2> QED BY <1>1, <1>2, <1>7, <1>10, <2>2 DEF First
<1> QED BY <1>9, <1>10

\* Lemma: CHtmlTagSOUND::format.
LEMMA FormatSoundSafe ==
  ASSUME Inv, Inv', Safe, PlainTags, NEW s \in Sounds, NEW a \in Attributes, FormatSound(s, a)
  PROVE  Safe'
<1>1. PICK waiting : waiting = {x \in Sounds : life[x] = "dead" /\ ~strm[x].playing}
  OBVIOUS
<1>2. PICK k : k = FormatFrames(s, a)
  OBVIOUS
<1>3. PICK b : b = [a EXCEPT !.interrupt = FALSE]
  OBVIOUS
<1>4. /\ s \in waiting \/ life[s] = "none"
      /\ Begin(k)
      /\ life' = [x \in Sounds |-> IF x = s THEN "live" ELSE IF x \in waiting THEN "none" ELSE life[x]]
      /\ strm' = [x \in Sounds |-> IF x \in {s} \union waiting THEN Stopped ELSE strm[x]]
      /\ snd' = [snd EXCEPT ![s] = Silent]
      /\ attr' = [attr EXCEPT ![s] = b]
      /\ tag' = [tag EXCEPT ![s] = TRUE]
      /\ calls' = [calls EXCEPT ![s] = 0]
      /\ left' = left /\ cancelled' = cancelled /\ queue' = queue /\ playing_' = playing_
      /\ incb' = incb /\ rest' = rest
  BY <1>1, <1>2, <1>3 DEF FormatSound, FormatFrames, qvars
<1>5. /\ k \in Seq(CallType) /\ k # << >>
      /\ \A c \in Range(k) : c.op = "add" => c.s = s
      /\ a.interrupt => /\ Head(k).op = "stopcur" /\ Head(k).how \in Hows /\ Head(k).how # "fade"
                        /\ Tail(k) \in Bases
      /\ ~a.interrupt => Head(k).op = "add" /\ Head(k).s = s /\ Tail(k) = << >>
  <2>1. First(k, s, a)
    BY <1>2, FormatHead
  <2> QED BY <2>1 DEF First
<1>6. ~Overlap /\ ~a.xout /\ (a.xin => a.interrupt)
  BY DEF PlainTags
<1>7. Now = << >> /\ Now' = k /\ Alone' /\ rest = << >>
  BY <1>4, <1>5, <1>6, BeginNow
<1>8. /\ \A x \in Sounds : ~Pending(x)
      /\ \A x \in Sounds : snd[x].fPlaying => life[x] = "live" /\ strm[x].playing
      /\ playing_ # None => Sounding(playing_)
      /\ \A x \in Range(queue) :
           tag[x] \/ (cancelled[x] /\ playing_ # None /\ (playing_ = x => FadingOut(x)))
  BY <1>7, Idle
<1>9. b.xin = a.xin /\ b.xout = a.xout
  <2>1. a \in AttrType
    BY SoundAssumption DEF AttrType
  <2> QED BY <1>3, <2>1 DEF AttrType
<1>10. /\ Silent.fPlaying = FALSE /\ Silent.fCrossFade = FALSE
       /\ Stopped.playing = FALSE /\ Stopped.iter = 0 /\ Stopped.wanted = 0
  BY DEF Silent, Stopped
<1>11. attr'[s] = b /\ snd'[s] = Silent /\ calls'[s] = 0 /\ strm'[s] = Stopped /\ life'[s] = "live"
  BY <1>4 DEF Inv, EntryTypes, SoundTypes, Safe, SoundsOK
<1>12. \A x \in Sounds : x # s => /\ attr'[x] = attr[x] /\ snd'[x] = snd[x] /\ calls'[x] = calls[x]
                                  /\ tag'[x] = tag[x]
                                  /\ strm'[x] = IF x \in waiting THEN Stopped ELSE strm[x]
                                  /\ life'[x] = IF x \in waiting THEN "none" ELSE life[x]
  BY <1>4 DEF Inv, EntryTypes, SoundTypes, Safe, SoundsOK
<1>13. calls' \in [Sounds -> Nat]
  BY <1>4 DEF Safe, SoundsOK
<1>14. \A x \in Range(queue) : x \in Sounds /\ life[x] = "live" /\ x # s /\ x \notin waiting
  <2>1. Range(queue) \subseteq Sounds /\ \A x \in Range(queue) : life[x] = "live"
    BY RangeFacts DEF Inv, QueueOK
  <2> QED BY <1>1, <1>4, <2>1
<1>15. playing_ \in Range(queue) \union {None}
  BY DEF Inv, QueueOK
<1>16. Doing'
  <2>1. CASE a.interrupt
    BY <1>5, <1>7, <2>1 DEF Doing
  <2>2. CASE ~a.interrupt
    <3>1. AtAdd(Head(k), << >>)'
      BY <1>5, <1>6, <1>9, <1>11, <2>2 DEF AtAdd
    <3> QED BY <1>5, <1>7, <2>2, <3>1 DEF Doing
  <2> QED BY <2>1, <2>2
<1>17. Waiting'
  BY <1>5, <1>7, <1>10, <1>11 DEF Waiting
<1>18. SoundsOK'
  <2> SUFFICES ASSUME NEW x \in Sounds PROVE SoundOK(x)'
    BY <1>13 DEF SoundsOK
  <2>1. SoundOK(x)
    BY DEF Safe, SoundsOK
  <2>2. CASE x = s
    BY <1>4, <1>6, <1>9, <1>10, <1>11, <2>1, <2>2 DEF SoundOK
  <2>3. CASE x # s /\ x \in waiting
    BY <1>4, <1>10, <1>12, <2>1, <2>3 DEF SoundOK
  <2>4. CASE x # s /\ x \notin waiting
    BY <1>4, <1>12, <2>1, <2>4 DEF SoundOK
  <2> QED BY <2>2, <2>3, <2>4
<1>19. Backed'
  <2> SUFFICES ASSUME NEW x \in Sounds, life'[x] = "live", snd'[x].fPlaying, snd'[x].done
               PROVE  (strm'[x].playing => playing_' = x) /\ calls'[x] = 0
    BY DEF Backed
  <2>1. x # s
    BY <1>10, <1>11
  <2>2. x \notin waiting
    BY <1>12, <2>1
  <2> QED BY <1>4, <1>8, <1>12, <2>1, <2>2 DEF Safe, Backed
<1>20. Plays'
  BY <1>4, <1>8, <1>12, <1>14, <1>15 DEF Plays, Sounding
<1>21. InQueue'
  BY <1>4, <1>12, <1>14 DEF Safe, InQueue
<1>22. Repeats'
  <2>1. CASE playing_ = None
    BY <1>4, <2>1 DEF Repeats
  <2>2. CASE playing_ # None
    BY <1>4, <1>12, <1>14, <1>15, <2>2 DEF Safe, Repeats
  <2> QED BY <2>1, <2>2
<1>23. Tagged'
  BY <1>4, <1>8, <1>12, <1>14 DEF Tagged, FadingOut
<1>24. RestOK'
  BY <1>4, <1>7, NoCall DEF Safe, RestOK
<1>25. Heard'
  <2>1. ASSUME NEW x \in Sounds, snd'[x].fPlaying PROVE life'[x] = "live" /\ strm'[x].playing
    <3>1. x # s
      BY <1>10, <1>11, <2>1
    <3>2. snd[x].fPlaying /\ life[x] = "live" /\ strm[x].playing
      BY <1>8, <1>12, <2>1, <3>1
    <3>3. x \notin waiting
      BY <1>1, <3>2
    <3> QED BY <1>12, <3>1, <3>2, <3>3
  <2> QED BY <2>1, HeardThen
<1> QED BY <1>7, <1>16, <1>17, <1>18, <1>19, <1>20, <1>21, <1>22, <1>23, <1>24, <1>25 DEF Safe

-----------------------------------------------------------------------------
\* The audio callback.

\* Lemma: the callback begins and ends.
LEMMA CallbackSafe ==
  ASSUME Inv, Inv', Safe, ~Overlap, BeginCallback \/ EndCallback
  PROVE  Safe'
<1>1. /\ life' = life /\ tag' = tag /\ attr' = attr /\ left' = left /\ cancelled' = cancelled
      /\ queue' = queue /\ playing_' = playing_ /\ snd' = snd /\ strm' = strm
      /\ stack' = stack /\ calls' = calls
      /\ \/ stack["gui"] = << >> /\ rest' = list
         \/ rest' = rest /\ incb
  BY DEF BeginCallback, EndCallback, CallbackIdle, entries, qvars
<1>2. stack["gui"] = << >> /\ Alone'
  BY <1>1 DEF Safe, Alone
<1>3. Now' = Now
  BY <1>1 DEF Now
<1>4. RestOK'
  <2>1. IsInjective(list) /\ \A x \in Range(list) : strm[x].playing
    BY DEF Inv, ListExact
  <2> QED BY <1>1, <2>1 DEF Safe, RestOK
<1>5. Doing'
  BY <1>1, <1>3 DEF Safe, Doing, AtCancel, AtStop, AtLeave, AtFinish, AtDone, AtMaybe, AtStart, AtAdd,
                    AtObsolete, Sounding, AllCancelled, FadingOut
<1>6. Waiting' /\ SoundsOK'
  BY <1>1, <1>3 DEF Safe, Waiting, SoundsOK, SoundOK
<1>7. Backed' /\ Plays'
  BY <1>1, <1>3 DEF Safe, Backed, Pending, Plays, Sounding, Reports
<1>8. InQueue' /\ Repeats'
  BY <1>1 DEF Safe, InQueue, Repeats
<1>9. Tagged'
  BY <1>1, <1>3 DEF Safe, Tagged, Halts, AllCancelled, FadingOut
<1>10. Heard'
  BY <1>1, <1>3 DEF Safe, Heard, Finishing
<1> QED BY <1>2, <1>4, <1>5, <1>6, <1>7, <1>8, <1>9, <1>10 DEF Safe

\* Lemma: what a buffer changes of a stream.
LEMMA BufferKeeps ==
  ASSUME NEW st \in StreamType, NEW n \in Int, NEW over \in BOOLEAN
  PROVE  /\ Buffer(st, n, over).wanted = st.wanted
         /\ Buffer(st, n, over).iter =
              IF st.wanted = 0 THEN st.iter ELSE IF PlayedOut(st, n) THEN st.wanted ELSE st.iter + n
         /\ st.fading = "out" => Buffer(st, n, over).fading = "out"
<1> DEFINE iter == IF st.wanted = 0 THEN st.iter
                   ELSE IF PlayedOut(st, n) THEN st.wanted ELSE st.iter + n
           playing == st.playing /\ ~PlayedOut(st, n) /\ ~FadedOut(st, over)
           fading == IF over /\ st.fading = "in" THEN "no" ELSE st.fading
           after == st.stop_after /\ ~FadedOut(st, over)
           paused == st.paused \/ (over /\ st.fading = "out" /\ ~st.stop_after)
           r == [st EXCEPT !.iter = iter, !.playing = playing, !.fading = fading,
                           !.stop_after = after, !.paused = paused]
           a == [st EXCEPT !.iter = iter]
           b == [a EXCEPT !.playing = playing]
           c == [b EXCEPT !.fading = fading]
           d == [c EXCEPT !.stop_after = after]
<1>1. iter \in Int /\ fading \in Fading /\ (st.fading = "out" => fading = "out")
  BY DEF StreamType, Fading
<1>2. playing \in BOOLEAN /\ after \in BOOLEAN /\ paused \in BOOLEAN
  OBVIOUS
<1>3. Buffer(st, n, over) = r
  BY DEF Buffer
<1> HIDE DEF iter, playing, fading, after, paused
<1>4. r = [d EXCEPT !.paused = paused]
  OBVIOUS
<1> HIDE DEF r
<1>5. a \in StreamType /\ a.iter = iter /\ a.wanted = st.wanted
  BY <1>1 DEF StreamType
<1> HIDE DEF a
<1>6. b \in StreamType /\ b.iter = iter /\ b.wanted = st.wanted
  BY <1>2, <1>5 DEF StreamType
<1> HIDE DEF b
<1>7. c \in StreamType /\ c.iter = iter /\ c.wanted = st.wanted /\ c.fading = fading
  BY <1>1, <1>6 DEF StreamType
<1> HIDE DEF c
<1>8. d \in StreamType /\ d.iter = iter /\ d.wanted = st.wanted /\ d.fading = fading
  BY <1>2, <1>7 DEF StreamType
<1> HIDE DEF d
<1>9. r.iter = iter /\ r.wanted = st.wanted /\ r.fading = fading
  BY <1>2, <1>4, <1>8 DEF StreamType
<1> QED BY <1>1, <1>3, <1>9 DEF iter

\* Lemma: what a sound that has been mixed is like.
LEMMA LoopFacts ==
  ASSUME NEW sound \in SndType
  PROVE  LET r == LoopCallback(sound)
         IN  /\ r.fPlaying = sound.fPlaying /\ r.done = sound.done
             /\ r.fCrossFade = sound.fCrossFade /\ r.fRepeats = sound.fRepeats + 1
<1> DEFINE a == [sound EXCEPT !.fRepeats = @ + 1]
<1>1. LoopCallback(sound) = [a EXCEPT !.timer = "off"]
  BY DEF LoopCallback
<1>2. /\ a \in SndType /\ a.fPlaying = sound.fPlaying /\ a.done = sound.done
      /\ a.fCrossFade = sound.fCrossFade /\ a.fRepeats = sound.fRepeats + 1
  BY DEF SndType
<1> HIDE DEF a
<1> QED BY <1>1, <1>2 DEF SndType

\* Lemma: the first of the streams has been mixed.
LEMMA RestNext ==
  ASSUME rest \in Seq(Sounds), IsInjective(rest), rest # << >>
  PROVE  /\ Head(rest) \in Range(rest) /\ IsInjective(Tail(rest))
         /\ Range(Tail(rest)) \subseteq Range(rest) \ {Head(rest)}
<1>1. PICK q : q = Tail(rest)
  OBVIOUS
<1>2. Len(rest) \in Nat /\ Len(rest) >= 1 /\ Head(rest) = rest[1]
  OBVIOUS
<1>3. q \in Seq(Sounds) /\ Len(q) = Len(rest) - 1
  BY <1>1
<1>4. \A i \in 1 .. Len(q) : i + 1 \in 1 .. Len(rest) /\ q[i] = rest[i + 1]
  BY <1>1, <1>2, <1>3
<1>5. \A i, j \in 1 .. Len(rest) : rest[i] = rest[j] => i = j
  BY DEF IsInjective
<1>6. \A x : x \in Range(q) <=> \E i \in 1 .. Len(q) : q[i] = x
  BY <1>3, RangeFacts
<1>7. \A x : x \in Range(rest) <=> \E i \in 1 .. Len(rest) : rest[i] = x
  BY RangeFacts
<1>8. 1 \in 1 .. Len(rest)
  BY <1>2
<1>9. IsInjective(q)
  <2>1. ASSUME NEW i \in 1 .. Len(q), NEW j \in 1 .. Len(q), q[i] = q[j] PROVE i = j
    <3>1. i + 1 = j + 1
      BY <1>4, <1>5, <2>1
    <3> QED BY <3>1
  <2>2. DOMAIN q = 1 .. Len(q)
    BY <1>3
  <2> QED BY <2>1, <2>2 DEF IsInjective
<1>10. ASSUME NEW x \in Range(q) PROVE x \in Range(rest) \ {rest[1]}
  <2>1. PICK i \in 1 .. Len(q) : q[i] = x
    BY <1>6
  <2>2. i + 1 \in 1 .. Len(rest) /\ rest[i + 1] = x /\ i + 1 # 1
    BY <1>4, <2>1
  <2> QED BY <1>5, <1>7, <1>8, <2>2
<1> QED BY <1>1, <1>2, <1>7, <1>8, <1>9, <1>10

\* Lemma: what a buffer makes of a stream that is playing.
LEMMA Mixed ==
  ASSUME NEW st \in StreamType, NEW n \in Int, n >= 0, NEW over \in BOOLEAN, NEW new,
         new = IF Skipped(st) THEN st ELSE Buffer(st, n, over),
         st.playing, st.iter >= 0, st.wanted >= 0,
         st.wanted # 0 => st.iter < st.wanted
  PROVE  /\ new.wanted = st.wanted /\ new.iter \in Int /\ new.iter >= st.iter
         /\ new.playing => (st.wanted # 0 => new.iter < st.wanted)
         /\ new.playing <=> ~(~Skipped(st) /\ Finished(st, n, over))
         /\ st.fading = "out" => new.fading = "out"
         /\ ~Skipped(st) /\ ~Finished(st, n, over) /\ Looped(st, n) =>
              st.wanted # 0 /\ new.iter >= st.iter + 1
<1>1. st.iter \in Int /\ st.wanted \in Int
  BY DEF StreamType
<1>2. CASE Skipped(st)
  BY <1>1, <1>2
<1>3. CASE ~Skipped(st)
  <2>1. new = Buffer(st, n, over)
    BY <1>3
  <2>2. new.playing <=> ~Finished(st, n, over)
    BY <2>1, BufferFacts
  <2>3. new.wanted = st.wanted /\ (st.fading = "out" => new.fading = "out")
    BY <2>1, BufferKeeps
  <2>4. new.iter = IF st.wanted = 0 THEN st.iter ELSE IF PlayedOut(st, n) THEN st.wanted ELSE st.iter + n
    BY <2>1, BufferKeeps
  <2>5. new.iter \in Int /\ new.iter >= st.iter
    BY <1>1, <2>4 DEF PlayedOut
  <2>6. ~Finished(st, n, over) => ~PlayedOut(st, n)
    BY DEF Finished
  <2>7. new.playing => (st.wanted # 0 => new.iter < st.wanted)
    BY <1>1, <2>2, <2>4, <2>6 DEF PlayedOut
  <2>8. Looped(st, n) => st.wanted # 0 /\ n >= 1 /\ ~PlayedOut(st, n)
    BY DEF Looped
  <2>9. Looped(st, n) => st.wanted # 0 /\ new.iter >= st.iter + 1
    BY <1>1, <2>4, <2>8
  <2> QED BY <1>3, <2>2, <2>3, <2>5, <2>7, <2>9
<1> QED BY <1>2, <1>3

\* Lemma: a stream is mixed.
LEMMA MixSafe ==
  ASSUME Inv, Inv', Safe, ~Overlap,
         NEW s \in Sounds, NEW n \in 0 .. LoopsPerBuffer, NEW over \in BOOLEAN, Mix(s, n, over)
  PROVE  Safe'
<1> DEFINE st == strm[s]
           ended == ~Skipped(st) /\ Finished(st, n, over)
           looped == ~Skipped(st) /\ ~ended /\ Looped(st, n)
           heard == looped /\ life[s] = "live"
           tells == ended /\ life[s] = "live"
           new == IF Skipped(st) THEN st ELSE Buffer(st, n, over)
<1>1. /\ incb /\ stack["audio"] = << >> /\ rest # << >> /\ Head(rest) = s
      /\ rest' = Tail(rest)
      /\ strm' = [strm EXCEPT ![s] = new]
      /\ snd' = [snd EXCEPT ![s] = IF heard THEN LoopCallback(snd[s]) ELSE snd[s]]
      /\ stack' = [stack EXCEPT !["audio"] = IF tells THEN <<Call("finish", s)>> ELSE << >>]
      /\ life' = life /\ tag' = tag /\ attr' = attr /\ left' = left /\ cancelled' = cancelled
      /\ queue' = queue /\ playing_' = playing_ /\ incb' = incb /\ calls' = calls
  BY DEF Mix, CallbackIdle, entries, qvars
<1>2. st \in StreamType /\ n \in Int /\ n >= 0 /\ snd[s] \in SndType
  BY SoundAssumption DEF Inv, StreamTypes, SoundTypes
<1>3. rest \in Seq(Sounds) /\ IsInjective(rest)
  BY DEF Inv, StreamTypes, Safe, RestOK
<1>4. s \in Range(rest) /\ IsInjective(rest') /\ Range(rest') \subseteq Range(rest) \ {s}
  BY <1>1, <1>3, RestNext
<1>5. st.playing
  BY <1>4 DEF Safe, RestOK
<1>6. SoundOK(s)
  BY DEF Safe, SoundsOK
<1>7. /\ new.wanted = st.wanted /\ new.iter \in Int /\ new.iter >= st.iter
      /\ new.playing => (st.wanted # 0 => new.iter < st.wanted)
      /\ new.playing <=> ~ended
      /\ st.fading = "out" => new.fading = "out"
      /\ looped => st.wanted # 0 /\ new.iter >= st.iter + 1
  BY <1>2, <1>5, <1>6, Mixed DEF SoundOK
<1>8. /\ strm'[s] = new /\ \A x \in Sounds : x # s => strm'[x] = strm[x]
      /\ snd'[s] = IF heard THEN LoopCallback(snd[s]) ELSE snd[s]
      /\ \A x \in Sounds : x # s => snd'[x] = snd[x]
  BY <1>1 DEF Inv, StreamTypes, SoundTypes
<1>9. /\ snd'[s].fPlaying = snd[s].fPlaying /\ snd'[s].done = snd[s].done
      /\ snd'[s].fCrossFade = snd[s].fCrossFade
      /\ snd'[s].fRepeats = IF heard THEN snd[s].fRepeats + 1 ELSE snd[s].fRepeats
  <2>1. CASE heard
    <3>1. snd'[s] = LoopCallback(snd[s])
      BY <1>8, <2>1
    <3> QED BY <1>2, <2>1, <3>1, LoopFacts
  <2>2. CASE ~heard
    BY <1>8, <2>2
  <2> QED BY <2>1, <2>2
<1>10. stack["gui"] = << >> /\ Now = << >>
  BY <1>1 DEF Safe, Alone, Now
<1>11. /\ Alone' /\ Now' = IF tells THEN <<Call("finish", s)>> ELSE << >>
  <2>1. stack'["gui"] = << >>
    BY <1>1, <1>10 DEF Inv, StackTypes, Threads
  <2>2. stack'["audio"] = IF tells THEN <<Call("finish", s)>> ELSE << >>
    BY <1>1 DEF Inv, StackTypes, Threads
  <2> QED BY <2>1, <2>2 DEF Alone, Now
<1>12. /\ \A x \in Sounds : ~Pending(x)
       /\ \A x \in Sounds : snd[x].fPlaying => life[x] = "live" /\ strm[x].playing
       /\ playing_ # None => Sounding(playing_)
       /\ \A x \in Range(queue) :
            tag[x] \/ (cancelled[x] /\ playing_ # None /\ (playing_ = x => FadingOut(x)))
  BY <1>10, Idle
<1>13. playing_ \in Sounds \union {None} /\ Range(queue) \subseteq Sounds
  BY RangeFacts DEF Inv, QueueOK
<1>14. st.iter \in Int /\ st.wanted \in Int /\ snd[s].fRepeats \in Int
  BY <1>2 DEF StreamType, SndType
<1> HIDE DEF new, ended
<1>15. heard => looped
  OBVIOUS
<1>16. heard => new.playing
  BY <1>7
<1>17. tells => ended /\ life[s] = "live"
  OBVIOUS
<1>18. ~tells => (life[s] = "live" => new.playing)
  BY <1>7
<1> HIDE DEF looped, heard, tells
<1>19. tells => /\ Now' # << >> /\ Head(Now').op = "finish" /\ Head(Now').s = s /\ Tail(Now') = << >>
                /\ Range(Now') = {Call("finish", s)}
  <2>1. PICK c : c = Call("finish", s)
    OBVIOUS
  <2>2. c.op = "finish" /\ c.s = s
    BY <2>1, HowFacts
  <2>3. Range(<<c>>) = {c}
    BY OneCall
  <2> QED BY <1>11, <2>1, <2>2, <2>3, HeadOne
<1>20. ~tells => Now' = << >>
  BY <1>11
<1>21. Doing'
  <2>1. CASE tells
    <3>1. life[s] = "live" /\ ~new.playing
      BY <1>7, <1>17, <2>1
    <3>2. snd[s].fPlaying
      BY <1>5, <1>6, <3>1 DEF SoundOK
    <3>3. snd[s].done <=> playing_ = s
      <4>1. snd[s].done => playing_ = s
        BY <1>5, <1>12, <3>1, <3>2 DEF Safe, Backed
      <4>2. playing_ = s => snd[s].done
        BY <1>12, SoundAssumption DEF Sounding
      <4> QED BY <4>1, <4>2
    <3>4. << >> \in Bases
      BY DEF Bases
    <3>5. AtFinish(Head(Now), Tail(Now))'
      BY <1>1, <1>8, <1>9, <1>19, <2>1, <3>1, <3>2, <3>3, <3>4 DEF AtFinish
    <3> QED BY <1>19, <2>1, <3>5 DEF Doing
  <2>2. CASE ~tells
    BY <1>20, <2>2 DEF Doing
  <2> QED BY <2>1, <2>2
<1>22. Waiting'
  <2>1. CASE tells
    <3>1. Call("finish", s).op = "finish"
      BY HowFacts
    <3> QED BY <1>19, <2>1, <3>1 DEF Waiting
  <2>2. CASE ~tells
    BY <1>20, <2>2, NoCall DEF Waiting
  <2> QED BY <2>1, <2>2
<1>23. SoundsOK'
  <2> SUFFICES ASSUME NEW x \in Sounds PROVE SoundOK(x)'
    BY <1>1 DEF Safe, SoundsOK
  <2>1. CASE x = s
    <3>1. snd[s].fPlaying = snd'[s].fPlaying /\ (life'[s] = "live" => snd'[s].fPlaying)
      BY <1>1, <1>5, <1>6, <1>9 DEF SoundOK
    <3>2. ~attr'[s].xout /\ ~snd'[s].fCrossFade /\ calls'[s] <= 1 /\ left'[s] >= 0
      BY <1>1, <1>6, <1>9 DEF SoundOK
    <3>3. strm'[s].iter >= 0 /\ strm'[s].wanted >= 0
      BY <1>6, <1>7, <1>8, <1>14 DEF SoundOK
    <3>4. strm'[s].playing /\ strm'[s].wanted # 0 => strm'[s].iter < strm'[s].wanted
      BY <1>7, <1>8
    <3>5. strm'[s].playing /\ strm'[s].wanted # 0 => snd'[s].fRepeats <= strm'[s].iter + 1
      <4> SUFFICES ASSUME st.wanted # 0 PROVE snd'[s].fRepeats <= new.iter + 1
        BY <1>7, <1>8
      <4>1. snd[s].fRepeats <= st.iter + 1
        BY <1>5, <1>6 DEF SoundOK
      <4>2. CASE heard
        BY <1>7, <1>9, <1>14, <1>15, <4>1, <4>2
      <4>3. CASE ~heard
        BY <1>7, <1>9, <1>14, <4>1, <4>3
      <4> QED BY <4>2, <4>3
    <3> QED BY <2>1, <3>1, <3>2, <3>3, <3>4, <3>5 DEF SoundOK
  <2>2. CASE x # s
    <3>1. SoundOK(x)
      BY DEF Safe, SoundsOK
    <3> QED BY <1>1, <1>8, <2>2, <3>1 DEF SoundOK
  <2> QED BY <2>1, <2>2
<1>24. \A x \in Sounds : strm'[x].playing => strm[x].playing
  BY <1>5, <1>8
<1>25. \A x \in Sounds : snd'[x].fPlaying = snd[x].fPlaying /\ snd'[x].done = snd[x].done
  BY <1>8, <1>9
<1>26. Backed'
  <2> SUFFICES ASSUME NEW x \in Sounds, life'[x] = "live", snd'[x].fPlaying, snd'[x].done
               PROVE  (strm'[x].playing => playing_' = x) /\ calls'[x] = 0
    BY DEF Backed
  <2>1. (strm[x].playing => playing_ = x) /\ calls[x] = 0
    BY <1>1, <1>12, <1>25 DEF Safe, Backed
  <2> QED BY <1>1, <1>24, <2>1
<1>27. Plays'
  <2> SUFFICES ASSUME playing_ # None
               PROVE  Sounding(playing_)' \/ (Reports' /\ Head(Now').s = playing_)
    BY <1>1 DEF Plays
  <2>1. Sounding(playing_) /\ playing_ \in Sounds
    BY <1>12, <1>13
  <2>2. CASE playing_ = s /\ tells
    BY <1>19, <2>2 DEF Reports
  <2>3. CASE playing_ = s /\ ~tells
    <3>1. strm'[s].playing
      BY <1>8, <1>18, <2>1, <2>3 DEF Sounding
    <3> QED BY <1>1, <1>25, <2>1, <2>3, <3>1 DEF Sounding
  <2>4. CASE playing_ # s
    BY <1>1, <1>8, <2>1, <2>4 DEF Sounding
  <2> QED BY <2>2, <2>3, <2>4
<1>28. InQueue'
  BY <1>1, <1>13, <1>24 DEF Safe, InQueue
<1>29. Repeats'
  <2> SUFFICES ASSUME playing_ # None, left[playing_] # 0, snd[playing_].fPlaying
               PROVE  /\ strm'[playing_].wanted # 0 /\ strm'[playing_].wanted <= left[playing_]
                      /\ snd'[playing_].fRepeats <= strm'[playing_].wanted
    BY <1>1, <1>13, <1>25 DEF Repeats
  <2>1. /\ strm[playing_].wanted # 0 /\ strm[playing_].wanted <= left[playing_]
        /\ snd[playing_].fRepeats <= strm[playing_].wanted
    BY DEF Safe, Repeats
  <2>2. CASE playing_ = s
    <3>1. strm'[s].wanted = st.wanted /\ st.wanted # 0 /\ st.wanted <= left[s]
          /\ snd[s].fRepeats <= st.wanted
      BY <1>7, <1>8, <2>1, <2>2
    <3>2. snd[s].fRepeats <= st.iter + 1
      BY <1>5, <1>6, <3>1 DEF SoundOK
    <3>3. CASE heard
      <4>1. new.iter < st.wanted /\ new.iter >= st.iter + 1
        BY <1>7, <1>15, <1>16, <3>1, <3>3
      <4>2. snd'[s].fRepeats = snd[s].fRepeats + 1
        BY <1>9, <3>3
      <4> QED BY <1>7, <1>14, <2>2, <3>1, <3>2, <4>1, <4>2
    <3>4. CASE ~heard
      BY <1>9, <2>2, <3>1, <3>4
    <3> QED BY <3>3, <3>4
  <2>3. CASE playing_ # s
    BY <1>8, <1>13, <2>1, <2>3
  <2> QED BY <2>2, <2>3
<1>30. Tagged'
  <2>1. \A x \in Sounds : FadingOut(x) => FadingOut(x)'
    BY <1>7, <1>8 DEF FadingOut
  <2> QED BY <1>1, <1>12, <1>13, <2>1 DEF Tagged
<1>31. RestOK'
  <2> SUFFICES ASSUME NEW x \in Range(rest') PROVE strm'[x].playing
    BY <1>4 DEF RestOK
  <2>1. x \in Range(rest) /\ x # s
    BY <1>4
  <2>2. x \in Sounds
    BY <1>3, <2>1, RangeFacts
  <2> QED BY <1>8, <2>1, <2>2 DEF Safe, RestOK
<1>32. Heard'
  <2> SUFFICES ASSUME NEW x \in Sounds, snd'[x].fPlaying
               PROVE  life'[x] = "live" /\ (strm'[x].playing \/ Finishing(x)')
    BY DEF Heard
  <2>1. life[x] = "live" /\ strm[x].playing
    BY <1>12, <1>25
  <2>2. CASE x = s /\ tells
    BY <1>1, <1>19, <2>1, <2>2 DEF Finishing
  <2>3. CASE x = s /\ ~tells
    BY <1>1, <1>8, <1>18, <2>1, <2>3
  <2>4. CASE x # s
    BY <1>1, <1>8, <2>1, <2>4
  <2> QED BY <2>2, <2>3, <2>4
<1> QED BY <1>11, <1>21, <1>22, <1>23, <1>26, <1>27, <1>28, <1>29, <1>30, <1>31, <1>32 DEF Safe

\* Lemma: nothing is known that does not hold at the start.
LEMMA InitSafe == Init => Safe
<1> SUFFICES ASSUME Init PROVE Safe
  OBVIOUS
<1>1. /\ Now = << >> /\ Alone /\ rest = << >> /\ queue = << >> /\ playing_ = None
  BY DEF Init, Now, Alone
<1>2. Range(<< >>) = {} /\ IsInjective(<< >>)
  BY DEF Range, IsInjective
<1>3. \A s \in Sounds : /\ attr[s] = NoAttr /\ snd[s] = Silent /\ strm[s] = Stopped
                        /\ calls[s] = 0 /\ left[s] = 0
  BY DEF Init
<1>4. /\ ~NoAttr.xout /\ ~Silent.fPlaying /\ ~Silent.fCrossFade
      /\ ~Stopped.playing /\ Stopped.iter = 0 /\ Stopped.wanted = 0
  BY DEF NoAttr, Silent, Stopped
<1>5. Doing /\ Waiting
  BY <1>1, <1>2 DEF Doing, Waiting
<1>6. SoundsOK
  <2>1. calls \in [Sounds -> Nat]
    BY DEF Init
  <2> QED BY <1>3, <1>4, <2>1 DEF SoundsOK, SoundOK
<1>7. Backed /\ Heard
  BY <1>3, <1>4 DEF Backed, Heard
<1>8. Plays /\ InQueue /\ Repeats /\ Tagged
  BY <1>1, <1>2 DEF Plays, InQueue, Repeats, Tagged
<1>9. RestOK
  BY <1>1, <1>2 DEF RestOK
<1> QED BY <1>1, <1>5, <1>6, <1>7, <1>8, <1>9 DEF Safe

\* Lemma: a step of a call.
LEMMA CallStepSafe ==
  ASSUME Inv, Inv', Safe, NEW t \in Threads, CallStep(t)
  PROVE  Safe'
<1>1. CASE AddSound(t) \/ StopCurrentSound(t) \/ OnSoundDone(t)
  BY <1>1, AddSoundSafe, StopCurrentSoundSafe, OnSoundDoneSafe
<1>2. CASE MaybeStartSound(t) \/ StartPlaying(t)
  BY <1>2, MaybeStartSoundSafe, StartPlayingSafe
<1>3. CASE CancelPlaying(t) \/ DoFadeOut(t) \/ StopStream(t)
  BY <1>3, CancelPlayingSafe, DoFadeOutSafe, StopStreamSafe
<1>4. CASE FinishCallback(t) \/ ObsoletePrevSounds(t)
  BY <1>4, FinishCallbackSafe, ObsoletePrevSoundsSafe
<1> QED BY <1>1, <1>2, <1>3, <1>4 DEF CallStep

\* Lemma: a step that changes nothing.
LEMMA StutterSafe ==
  ASSUME Safe, UNCHANGED vars
  PROVE  Safe'
<1>1. /\ life' = life /\ tag' = tag /\ attr' = attr /\ left' = left /\ cancelled' = cancelled
      /\ queue' = queue /\ playing_' = playing_ /\ snd' = snd /\ strm' = strm
      /\ stack' = stack /\ calls' = calls /\ rest' = rest /\ incb' = incb
  BY DEF vars, entries, qvars, audio
<1>2. Now' = Now /\ Alone'
  BY <1>1 DEF Safe, Now, Alone
<1>3. Doing'
  BY <1>1, <1>2 DEF Safe, Doing, AtCancel, AtStop, AtLeave, AtFinish, AtDone, AtMaybe, AtStart, AtAdd,
                    AtObsolete, Sounding, AllCancelled, FadingOut
<1>4. Waiting' /\ SoundsOK'
  BY <1>1, <1>2 DEF Safe, Waiting, SoundsOK, SoundOK
<1>5. Backed' /\ Plays'
  BY <1>1, <1>2 DEF Safe, Backed, Pending, Plays, Sounding, Reports
<1>6. InQueue' /\ Repeats' /\ RestOK'
  BY <1>1 DEF Safe, InQueue, Repeats, RestOK
<1>7. Tagged'
  BY <1>1, <1>2 DEF Safe, Tagged, Halts, AllCancelled, FadingOut
<1>8. Heard'
  BY <1>1, <1>2 DEF Safe, Heard, Finishing
<1> QED BY <1>2, <1>3, <1>4, <1>5, <1>6, <1>7, <1>8 DEF Safe

\* Lemma: every step keeps what is known.
LEMMA NextSafe ==
  ASSUME PlainTags
  PROVE  Inv /\ Safe /\ [Next]_vars => Safe'
<1> SUFFICES ASSUME Inv, Safe, [Next]_vars PROVE Safe'
  OBVIOUS
<1>1. Inv' /\ ~Overlap
  BY NextInv DEF PlainTags
<1>2. CASE UNCHANGED vars
  BY <1>2, StutterSafe
<1>3. ASSUME NEW t \in {"gui", "audio"}, CallStep(t) PROVE Safe'
  BY <1>1, <1>3, CallStepSafe DEF Threads
<1>4. ASSUME NEW s \in Sounds, NEW a \in Attributes, FormatSound(s, a) PROVE Safe'
  BY <1>1, <1>4, FormatSoundSafe
<1>5. CASE BeginCallback \/ EndCallback
  BY <1>1, <1>5, CallbackSafe
<1>6. ASSUME NEW s \in Sounds, Buffers(s) PROVE Safe'
  <2>1. PICK n \in 0 .. LoopsPerBuffer, over \in BOOLEAN : Mix(s, n, over)
    BY <1>6 DEF Buffers
  <2> QED BY <1>1, <2>1, MixSafe
<1>7. CASE \/ \E how \in Hows : FormatCancel(how)
           \/ StartNewPage \/ NotifyPreferencesChange \/ OnTimer
           \/ \E s \in Sounds : FadeOutTimer(s)
  BY <1>1, <1>7, BeginningsSafe
<1> QED BY <1>2, <1>3, <1>4, <1>5, <1>6, <1>7 DEF Next

\* Lemma: both invariants hold always.
LEMMA AlwaysSafe ==
  ASSUME PlainTags
  PROVE  Spec => [](Inv /\ Safe)
<1>1. Init => Inv /\ Safe
  BY InitInv, InitSafe
<1>2. Inv /\ Safe /\ [Next]_vars => (Inv /\ Safe)'
  BY NextInv, NextSafe
<1> QED BY <1>1, <1>2, PTL DEF Spec

-----------------------------------------------------------------------------
\* What follows.

\* Lemma: the first call, and the others.
LEMMA FirstAndOthers ==
  ASSUME NEW S, NEW q \in Seq(S), q # << >>
  PROVE  Range(q) \subseteq {Head(q)} \union Range(Tail(q))
<1>1. PICK r : r = Tail(q)
  OBVIOUS
<1>2. r \in Seq(S) /\ Len(r) = Len(q) - 1 /\ Len(q) \in Nat /\ Len(q) >= 1
  BY <1>1
<1>3. \A i \in 1 .. Len(r) : r[i] = q[i + 1]
  BY <1>1, <1>2
<1>4. \A x : x \in Range(q) <=> \E i \in 1 .. Len(q) : q[i] = x
  BY RangeFacts
<1>5. \A x : x \in Range(r) <=> \E i \in 1 .. Len(r) : r[i] = x
  BY <1>2, RangeFacts
<1> SUFFICES ASSUME NEW x \in Range(q) PROVE x = Head(q) \/ x \in Range(r)
  BY <1>1
<1>6. PICK i \in 1 .. Len(q) : q[i] = x
  BY <1>4
<1>7. CASE i = 1
  BY <1>6, <1>7
<1>8. CASE i # 1
  <2>1. i - 1 \in 1 .. Len(r) /\ (i - 1) + 1 = i
    BY <1>2, <1>8
  <2> QED BY <1>3, <1>5, <1>6, <2>1
<1> QED BY <1>7, <1>8

\* What is used by the call x is not deleted.
Spared(x) ==
  \/ x.op \in {"obsolete", "stopcur", "add"}
  \/ \E s \in Sounds : x = Leaving(s) /\ (life[s] = "live" \/ FadingOut(s))

\* Lemma: of what is left to do.
LEMMA BaseSpared ==
  ASSUME NEW u \in Bases, NEW x \in Range(u)
  PROVE  Spared(x)
<1>1. \A y : Call("obsolete", y).op = "obsolete" /\ Call("add", y).op = "add"
  BY HowFacts
<1>2. u \in Seq(CallType) /\ u # << >>
  BY BaseFacts, NoCall
<1>3. x \in {Head(u)} \union Range(Tail(u))
  BY <1>2, FirstAndOthers
<1>4. CASE Head(u) = Call("obsolete", None) /\ Tail(u) = << >>
  BY <1>1, <1>3, <1>4, NoCall DEF Spared
<1>5. ASSUME NEW s \in Sounds, Head(u) = Call("obsolete", s), Tail(u) = <<Call("add", s)>>
      PROVE  Spared(x)
  <2>1. PICK d : d = Call("add", s)
    OBVIOUS
  <2>2. Range(<<d>>) = {d}
    BY OneCall
  <2> QED BY <1>1, <1>3, <1>5, <2>1, <2>2 DEF Spared
<1> QED BY <1>2, <1>4, <1>5, BaseFacts

\* Lemma: of that and the sound that is left to its fade.
LEMMA RemainingSpared ==
  ASSUME NEW s \in Sounds, NEW e \in Bases, life[s] = "live" \/ FadingOut(s),
         NEW x \in Range(Remaining(s, e))
  PROVE  Spared(x)
<1>1. PICK r : r = Remaining(s, e)
  OBVIOUS
<1>2. r \in Seq(CallType) /\ r # << >> /\ Head(r) = Leaving(s) /\ Tail(r) = e
  BY <1>1, RemainingFacts
<1>3. x = Leaving(s) \/ x \in Range(e)
  BY <1>1, <1>2, FirstAndOthers
<1> QED BY <1>3, BaseSpared DEF Spared

\* Lemma: of all calls but the innermost.
LEMMA OthersSpared ==
  ASSUME Inv, Safe, Now # << >>, NEW x \in Range(Tail(Now))
  PROVE  Spared(x)
<1>1. Now \in Seq(CallType)
  BY NowFacts DEF Inv, Safe
<1>2. PICK c : c = Head(Now)
  OBVIOUS
<1>3. PICK u : u = Tail(Now)
  OBVIOUS
<1>4. c \in CallType /\ Doing /\ x \in Range(u)
  BY <1>1, <1>2, <1>3 DEF Safe
<1>5. CASE u \in Bases
  BY <1>4, <1>5, BaseSpared
<1>6. CASE u = << >>
  BY <1>6, <1>5 DEF Bases
<1>7. CASE c.op \in {"stopcur", "cancel", "stop", "finish", "start", "add", "fadeout"}
  BY <1>2, <1>3, <1>4, <1>5, <1>6, <1>7 DEF Doing, AtCancel, AtStop, AtLeave, AtFinish, AtStart, AtAdd
<1>8. CASE c.op = "done"
  <2>1. AtDone(c, u)
    BY <1>2, <1>3, <1>4, <1>8 DEF Doing
  <2>2. c.s \in Sounds /\ life[c.s] = "live"
    BY <2>1, SoundAssumption DEF AtDone, Inv, QueueOK
  <2>3. ASSUME NEW e \in Bases, u = Remaining(c.s, e) PROVE Spared(x)
    BY <1>4, <2>2, <2>3, RemainingSpared
  <2> QED BY <1>5, <2>1, <2>3 DEF AtDone
<1>9. CASE c.op = "maybe"
  <2>1. AtMaybe(c, u)
    BY <1>2, <1>3, <1>4, <1>9 DEF Doing
  <2>2. ASSUME NEW s \in Sounds, NEW e \in Bases, u = Remaining(s, e), life[s] = "live" \/ FadingOut(s)
        PROVE  Spared(x)
    BY <1>4, <2>2, RemainingSpared
  <2> QED BY <1>5, <2>1, <2>2 DEF AtMaybe
<1>10. CASE c.op = "obsolete"
  <2>1. AtObsolete(c, u)
    BY <1>2, <1>3, <1>4, <1>10 DEF Doing
  <2>2. ASSUME NEW op \in {"add", "stopcur"}, NEW y, u = <<Call(op, y)>> PROVE Spared(x)
    <3>1. PICK d : d = Call(op, y)
      OBVIOUS
    <3>2. d.op = op
      BY <3>1, HowFacts
    <3>3. Range(<<d>>) = {d}
      BY OneCall
    <3> QED BY <1>4, <2>2, <3>1, <3>2, <3>3 DEF Spared
  <2> QED BY <1>6, <2>1, <2>2 DEF AtObsolete
<1> QED BY <1>4, <1>7, <1>8, <1>9, <1>10 DEF CallType, OnSound

\* Lemma: of the innermost.
LEMMA InnermostSpared ==
  ASSUME Inv, Safe, Now # << >>
  PROVE  LET c == Head(Now)
         IN  c.op \in OnSound \ {"add"} =>
               \/ life[c.s] = "live"
               \/ c.op = "stop" /\ c.how = "crossfade" /\ strm[c.s].fading = "out"
<1>1. Now \in Seq(CallType)
  BY NowFacts DEF Inv, Safe
<1>2. PICK c : c = Head(Now)
  OBVIOUS
<1>3. c \in CallType /\ Doing
  BY <1>1, <1>2 DEF Safe
<1>4. CASE c.op \in {"cancel", "finish", "fadeout"}
  BY <1>2, <1>3, <1>4 DEF Doing, AtCancel, AtFinish, Sounding
<1>5. CASE c.op = "stop"
  BY <1>2, <1>3, <1>5 DEF Doing, AtCancel, AtStop, AtLeave, Sounding, FadingOut
<1>6. CASE c.op = "start"
  <2>1. c.s \in Sounds /\ playing_ = c.s
    BY <1>2, <1>3, <1>6 DEF Doing, AtStart, CallType, OnSound
  <2> QED BY <1>2, <2>1, SoundAssumption DEF Inv, QueueOK
<1> QED BY <1>2, <1>4, <1>5, <1>6 DEF OnSound

\* Lemma: with plain tags, no operation goes on with a sound that has been deleted
\* under it.
LEMMA AliveWhenUsedHolds ==
  ASSUME PlainTags
  PROVE  Spec => []AliveWhenUsed
<1>1. Inv /\ Safe => AliveWhenUsed
  <2> SUFFICES ASSUME Inv, Safe, NEW t \in {"gui", "audio"}, NEW i \in DOMAIN stack[t],
                      stack[t][i].op \in OnSound
               PROVE  \/ life[stack[t][i].s] = "live"
                      \/ /\ stack[t][i].op = "stop" /\ stack[t][i].how = "crossfade"
                         /\ strm[stack[t][i].s].fading = "out"
    BY DEF AliveWhenUsed, OnSound
  <2>1. PICK x : x = stack[t][i]
    OBVIOUS
  <2>2. stack[t] \in Seq(CallType) /\ stack[t] # << >>
    BY DEF Inv, StackTypes, Threads
  <2>3. Now = stack[t]
    BY <2>2, NowFacts DEF Inv, Safe, Threads
  <2>4. x \in Range(Now)
    BY <2>1, <2>2, <2>3, RangeFacts
  <2>5. x = Head(Now) \/ x \in Range(Tail(Now))
    BY <2>2, <2>3, <2>4, FirstAndOthers
  <2>6. CASE x.op = "add"
    BY <2>1, <2>3, <2>4, <2>6 DEF Inv, CallsOK, CallOK, Threads
  <2>7. CASE x = Head(Now) /\ x.op # "add"
    BY <2>1, <2>2, <2>3, <2>7, InnermostSpared
  <2>8. CASE x \in Range(Tail(Now)) /\ x.op # "add"
    <3>1. Spared(x)
      BY <2>2, <2>3, <2>8, OthersSpared
    <3>2. x.op \notin {"obsolete", "stopcur"}
      BY <2>1 DEF OnSound
    <3>3. PICK s \in Sounds : x = Leaving(s) /\ (life[s] = "live" \/ FadingOut(s))
      BY <2>8, <3>1, <3>2 DEF Spared
    <3>4. x.op = "stop" /\ x.s = s /\ x.how = "crossfade"
      BY <3>3, LeavingFacts
    <3> QED BY <2>1, <3>3, <3>4 DEF FadingOut
  <2> QED BY <2>5, <2>6, <2>7, <2>8
<1> QED BY <1>1, AlwaysSafe, PTL

\* Lemma: with plain tags, while no operation is under way, the sound that the queue
\* waits for is being played and will report its end; no other sound will.
LEMMA QueueBackedHolds ==
  ASSUME PlainTags
  PROVE  Spec => []QueueBacked
<1>1. Inv /\ Safe => QueueBacked
  <2> SUFFICES ASSUME Inv, Safe, Quiet, NEW s \in Sounds
               PROVE  playing_ = s <=> Sounding(s)
    BY DEF QueueBacked, Sounding
  <2>1. Now = << >>
    BY DEF Quiet, Now
  <2>2. ~Pending(s) /\ (playing_ # None => Sounding(playing_))
    BY <2>1, Idle
  <2>3. playing_ = s => Sounding(s)
    BY <2>2, SoundAssumption
  <2>4. Sounding(s) => playing_ = s
    BY <2>2 DEF Safe, Backed, Sounding
  <2> QED BY <2>3, <2>4
<1> QED BY <1>1, AlwaysSafe, PTL

\* Lemma: with plain tags, the queue is told of the end of a sound once.
LEMMA DoneOnceHolds ==
  ASSUME PlainTags
  PROVE  Spec => []DoneOnce
<1>1. Inv /\ Safe => DoneOnce
  BY DEF Safe, SoundsOK, SoundOK, DoneOnce
<1> QED BY <1>1, AlwaysSafe, PTL

\* Lemma: with plain tags, type correctness; no entry is played more often than its
\* tag asks for.
LEMMA TypeCorrect ==
  ASSUME PlainTags
  PROVE  Spec => []TypeOK
<1>1. Inv /\ Safe => TypeOK
  <2> SUFFICES ASSUME Inv, Safe PROVE TypeOK
    OBVIOUS
  <2>1. ASSUME NEW s \in Sounds PROVE StreamOK(strm[s])
    <3>1. strm[s] \in StreamType
      BY DEF Inv, StreamTypes
    <3>2. strm[s].iter >= 0 /\ strm[s].wanted >= 0
      BY DEF Safe, SoundsOK, SoundOK
    <3>3. DOMAIN strm[s] = DOMAIN Stopped
      BY <3>1 DEF StreamType, Stopped
    <3>4. /\ strm[s].playing \in BOOLEAN /\ strm[s].stop_after \in BOOLEAN /\ strm[s].paused \in BOOLEAN
          /\ strm[s].iter \in Nat /\ strm[s].wanted \in Nat /\ strm[s].fading \in Fading
      BY <3>1, <3>2 DEF StreamType
    <3> QED BY <3>3, <3>4 DEF StreamOK
  <2>2. left \in [Sounds -> Nat]
    <3>1. left \in [Sounds -> Int] /\ \A s \in Sounds : left[s] >= 0
      BY DEF Inv, EntryTypes, Safe, SoundsOK, SoundOK
    <3> QED BY <3>1
  <2>3. cancelled \in [Sounds -> BOOLEAN] /\ {queue, list, rest} \subseteq Seq(Sounds)
    BY DEF Inv, EntryTypes, QueueOK, StreamTypes
  <2>4. {playing_, last_played_} \subseteq Range(queue) \union {None}
    BY DEF Inv, QueueOK
  <2>5. /\ life \in [Sounds -> {"none", "live", "dead"}] /\ tag \in [Sounds -> BOOLEAN]
        /\ snd \in [Sounds -> [fPlaying : BOOLEAN, fRepeats : Nat, fCrossFade : BOOLEAN,
                               timer : {"on", "off"}, done : BOOLEAN]]
    BY DEF Inv, SoundTypes, SndType
  <2> QED BY <2>1, <2>2, <2>3, <2>4, <2>5 DEF TypeOK
<1> QED BY <1>1, AlwaysSafe, PTL
=============================================================================
