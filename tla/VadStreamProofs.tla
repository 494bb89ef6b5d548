------------------------- MODULE VadStreamProofs -------------------------
(***************************************************************************)
(* Theorems about VadStream, for every setting of the detector and for     *)
(* recordings of any length.                                               *)
(***************************************************************************)
EXTENDS VadStream, VadProofs, SequenceTheorems, WellFoundedInduction, TLAPS

--------------------------------------------------------------------------
(* Induction over a recording.                                             *)

\* A nonempty set of natural numbers has a least element: what replaces
\* the induction rule in the proofs below.
LEMMA LeastElement ==
  ASSUME NEW T \in SUBSET Nat, T # {}
  PROVE  \E n \in T : \A m \in T : n <= m
<1> DEFINE R == OpToRel(<, Nat)
<1>1. IsWellFoundedOn(R, Nat)
  BY NatLessThanWellFounded
<1>2. \A x, y \in Nat : x < y => <<x, y>> \in R
  BY DEF OpToRel
<1> HIDE DEF R
<1>3. PICK n \in T : \A y \in T : ~ (<<y, n>> \in R)
  BY <1>1, WFMin
<1>4. ASSUME NEW m \in T PROVE n <= m
  <2>1. n \in Nat /\ m \in Nat
    OBVIOUS
  <2>2. ~(m < n)
    BY <2>1, <1>2, <1>3
  <2> QED BY <2>1, <2>2
<1> QED BY <1>3, <1>4

\* g runs the steps one after another, from base.
Folds(g, base, n, step) ==
  /\ g[0] = base
  /\ \A i \in 1 .. n : g[i] = step[i][g[i - 1]]

\* There is such a run, however many steps there are.
LEMMA FoldExists ==
  ASSUME NEW D, NEW base \in D, NEW n \in Nat,
         NEW step \in [1 .. n -> [D -> D]]
  PROVE  \E g \in [0 .. n -> D] : Folds(g, base, n, step)
<1> DEFINE Runs(m) == \E g \in [0 .. m -> D] : Folds(g, base, m, step)
           Bad == {m \in 0 .. n : ~Runs(m)}
<1>1. Runs(0)
  <2>1. [i \in 0 .. 0 |-> base] \in [0 .. 0 -> D]
    OBVIOUS
  <2>2. Folds([i \in 0 .. 0 |-> base], base, 0, step)
    BY DEF Folds
  <2> QED BY <2>1, <2>2
<1>2. ASSUME NEW m \in 1 .. n, Runs(m - 1)
      PROVE  Runs(m)
  <2>1. PICK g \in [0 .. (m - 1) -> D] : Folds(g, base, m - 1, step)
    BY <1>2
  <2> DEFINE h == [i \in 0 .. m |->
                     IF i = m THEN step[m][g[m - 1]] ELSE g[i]]
  <2>2. g[m - 1] \in D /\ step[m] \in [D -> D]
    OBVIOUS
  <2>3. h \in [0 .. m -> D]
    BY <2>2
  <2>4. h[0] = base
    BY <2>1 DEF Folds
  <2>5. ASSUME NEW i \in 1 .. m PROVE h[i] = step[i][h[i - 1]]
    <3>1. CASE i = m
      BY <3>1
    <3>2. CASE i # m
      BY <3>2, <2>1 DEF Folds
    <3> QED BY <3>1, <3>2
  <2>6. Folds(h, base, m, step)
    BY <2>4, <2>5 DEF Folds
  <2> QED BY <2>3, <2>6
<1> HIDE DEF Runs
<1>3. Bad = {}
  <2> SUFFICES ASSUME Bad # {} PROVE FALSE
    OBVIOUS
  <2>1. PICK m \in Bad : \A k \in Bad : m <= k
    BY LeastElement, Bad \in SUBSET Nat
  <2>2. m # 0
    BY <1>1
  <2>3. m - 1 \in 0 .. n /\ m - 1 \notin Bad
    BY <2>1, <2>2
  <2> QED BY <2>2, <2>3, <1>2
<1>4. Runs(n)
  BY <1>3
<1> QED BY <1>4 DEF Runs

\* Two runs that start together and step together stay together.
LEMMA StepTogether ==
  ASSUME NEW n \in Nat, NEW a, NEW b, a[0] = b[0],
         \A i \in 1 .. n : a[i - 1] = b[i - 1] => a[i] = b[i]
  PROVE  \A m \in 0 .. n : a[m] = b[m]
<1> DEFINE Bad == {m \in 0 .. n : a[m] # b[m]}
<1>1. Bad = {}
  <2> SUFFICES ASSUME Bad # {} PROVE FALSE
    OBVIOUS
  <2>1. PICK m \in Bad : \A k \in Bad : m <= k
    BY LeastElement, Bad \in SUBSET Nat
  <2>2. m # 0
    OBVIOUS
  <2>3. m - 1 \in 0 .. n /\ m - 1 \notin Bad /\ m \in 1 .. n
    BY <2>1, <2>2
  <2> QED BY <2>3
<1> QED BY <1>1

--------------------------------------------------------------------------
(* The frames that carry audio.                                            *)

Sounds == {"speech", "silence"}

\* One step of Samples(s): the frame i, if it is not empty.
Take(s) ==
  [i \in 1 .. Len(s) |->
     [q \in Seq(Sounds) |->
        IF s[i] = "empty" THEN q ELSE Append(q, s[i])]]

\* Samples(s) is what its steps lead to.
LEMMA SamplesFold ==
  ASSUME NEW s \in Seq(Frames)
  PROVE  \E k \in [0 .. Len(s) -> Seq(Sounds)] :
           /\ k[0] = <<>>
           /\ \A i \in 1 .. Len(s) :
                k[i] = IF s[i] = "empty" THEN k[i - 1]
                       ELSE Append(k[i - 1], s[i])
           /\ Samples(s) = k[Len(s)]
<1>1. <<>> \in Seq(Sounds) /\ Len(s) \in Nat
  BY EmptySeq
<1>2. \A i \in 1 .. Len(s) : s[i] # "empty" => s[i] \in Sounds
  BY ElementOfSeq DEF Frames, Sounds
<1>3. Take(s) \in [1 .. Len(s) -> [Seq(Sounds) -> Seq(Sounds)]]
  BY <1>2 DEF Take
<1>4. PICK k \in [0 .. Len(s) -> Seq(Sounds)] :
        Folds(k, <<>>, Len(s), Take(s))
  BY <1>1, <1>3, FoldExists
<1>5. \A i \in 1 .. Len(s) :
        k[i] = IF s[i] = "empty" THEN k[i - 1] ELSE Append(k[i - 1], s[i])
  <2> SUFFICES ASSUME NEW i \in 1 .. Len(s)
               PROVE  k[i] = IF s[i] = "empty" THEN k[i - 1]
                             ELSE Append(k[i - 1], s[i])
    OBVIOUS
  <2>1. k[i - 1] \in Seq(Sounds)
    BY <1>1
  <2>2. k[i] = Take(s)[i][k[i - 1]]
    BY <1>4 DEF Folds
  <2> QED BY <2>1, <2>2 DEF Take
<1> DEFINE F(g) == [i \in 0 .. Len(s) |->
                      IF i = 0 THEN <<>>
                      ELSE IF s[i] = "empty" THEN g[i - 1]
                      ELSE Append(g[i - 1], s[i])]
           G == CHOOSE g : g = F(g)
<1>6. k[0] = <<>>
  BY <1>4 DEF Folds
<1>7. k = F(k)
  <2>1. \A i \in 0 .. Len(s) : i = 0 \/ i \in 1 .. Len(s)
    BY <1>1
  <2>2. \A i \in 0 .. Len(s) : k[i] = F(k)[i]
    BY <2>1, <1>5, <1>6
  <2> QED BY <2>2
<1>8. G = F(G)
  BY <1>7
<1>9. Samples(s) = G[Len(s)]
  BY DEF Samples
<1> HIDE DEF G
<1>10. G[0] = <<>>
  BY <1>1, <1>8
<1>11. ASSUME NEW i \in 1 .. Len(s)
       PROVE  G[i] = IF s[i] = "empty" THEN G[i - 1]
                     ELSE Append(G[i - 1], s[i])
  <2>1. i \in 0 .. Len(s) /\ i # 0
    BY <1>1
  <2> QED BY <2>1, <1>8
<1>12. \A i \in 1 .. Len(s) : G[i - 1] = k[i - 1] => G[i] = k[i]
  BY <1>5, <1>11
<1>13. \A i \in 0 .. Len(s) : G[i] = k[i]
  <2>1. Len(s) \in Nat /\ G[0] = k[0]
    BY <1>1, <1>6, <1>10
  <2> QED BY ONLY <2>1, <1>12, StepTogether, Zenon
<1>14. G[Len(s)] = k[Len(s)]
  BY <1>1, <1>13
<1> QED BY <1>5, <1>6, <1>9, <1>14

\* Nothing was heard, so nothing is kept.
LEMMA SamplesEmpty == Samples(<<>>) = <<>>
<1>1. <<>> \in Seq(Frames) /\ Len(<<>>) = 0
  BY EmptySeq
<1>2. PICK k \in [0 .. 0 -> Seq(Sounds)] :
        k[0] = <<>> /\ Samples(<<>>) = k[0]
  BY <1>1, SamplesFold
<1> QED BY <1>2

\* A frame more is a sample more, unless it is empty; and samples are loud
\* or silent.
LEMMA SamplesAppend ==
  ASSUME NEW s \in Seq(Frames), NEW f \in Frames
  PROVE  /\ Samples(s) \in Seq(Sounds)
         /\ Samples(Append(s, f)) =
              IF f = "empty" THEN Samples(s) ELSE Append(Samples(s), f)
<1> DEFINE t == Append(s, f)
<1>1. /\ t \in Seq(Frames)
      /\ Len(s) \in Nat /\ Len(t) = Len(s) + 1
      /\ t[Len(s) + 1] = f
      /\ \A i \in 1 .. Len(s) : t[i] = s[i]
  OBVIOUS
<1> HIDE DEF t
<1>2. PICK k :
        /\ k \in [0 .. Len(s) -> Seq(Sounds)]
        /\ k[0] = <<>>
        /\ \A i \in 1 .. Len(s) :
             k[i] = IF s[i] = "empty" THEN k[i - 1]
                    ELSE Append(k[i - 1], s[i])
        /\ Samples(s) = k[Len(s)]
  BY SamplesFold
<1>3. PICK h :
        /\ h \in [0 .. Len(t) -> Seq(Sounds)]
        /\ h[0] = <<>>
        /\ \A i \in 1 .. Len(t) :
             h[i] = IF t[i] = "empty" THEN h[i - 1]
                    ELSE Append(h[i - 1], t[i])
        /\ Samples(t) = h[Len(t)]
  BY <1>1, SamplesFold
<1>4. \A i \in 1 .. Len(s) : k[i - 1] = h[i - 1] => k[i] = h[i]
  <2> SUFFICES ASSUME NEW i \in 1 .. Len(s), k[i - 1] = h[i - 1]
               PROVE  k[i] = h[i]
    OBVIOUS
  <2>1. i \in 1 .. Len(t) /\ t[i] = s[i]
    BY <1>1
  <2> QED BY <2>1, <1>2, <1>3
<1>5. \A i \in 0 .. Len(s) : k[i] = h[i]
  <2>1. Len(s) \in Nat /\ k[0] = h[0]
    BY <1>1, <1>2, <1>3
  <2> QED BY ONLY <2>1, <1>4, StepTogether, Zenon
<1>6. h[Len(s)] = Samples(s)
  BY <1>1, <1>2, <1>5
<1>7. Samples(t) = IF f = "empty" THEN h[Len(s)] ELSE Append(h[Len(s)], f)
  <2>1. Len(t) \in 1 .. Len(t) /\ Len(t) - 1 = Len(s) /\ t[Len(t)] = f
    BY <1>1
  <2> QED BY <2>1, <1>3
<1>8. Samples(s) \in Seq(Sounds)
  BY <1>1, <1>2
<1> QED BY <1>6, <1>7, <1>8 DEF t

--------------------------------------------------------------------------
(* What the detector knows of the recording.                               *)

\* The last n samples are f, and the one before them is not.
LastRun(s, n, f) ==
  /\ n \in 0 .. Len(s)
  /\ \A j \in (Len(s) - n + 1) .. Len(s) : s[j] = f
  /\ n < Len(s) => s[Len(s) - n] # f

\* The fields of the detector, read off the samples since the last boundary:
\* what is counted is the run they end with.
Detects(v, s) ==
  /\ v.inSpeech <=> HasOnset(s)
  /\ v.inSpeech => LastRun(s, v.silence, "silence")
  /\ ~v.inSpeech => /\ v.speech < MinSpeechFrames
                    /\ LastRun(s, v.speech, "speech")

\* The inductive invariant: between boundaries the fields tell the samples;
\* at one, the detector is quiet and the recording is an utterance.
DetectorInv ==
  /\ ended => /\ vad = Quiet
              /\ heard # <<>>
              /\ heard[Len(heard)] # "empty"
              /\ IsUtterance(Samples(heard))
  /\ ~ended => Detects(vad, Samples(heard))

\* Before the first sample.
LEMMA QuietDetects == Detects(Quiet, <<>>)
<1>1. Len(<<>>) = 0
  BY EmptySeq
<1>2. ~HasOnset(<<>>)
  BY <1>1, ThresholdsPositive DEF HasOnset
<1>3. LastRun(<<>>, 0, "speech")
  BY <1>1 DEF LastRun
<1> QED BY <1>2, <1>3, ThresholdsPositive DEF Detects, Quiet

\* The run at the end after one more sample.
LEMMA LastRunAppend ==
  ASSUME NEW s \in Seq(Sounds), NEW f \in Sounds, NEW g \in Sounds,
         NEW n, LastRun(s, n, g)
  PROVE  LastRun(Append(s, f), IF f = g THEN n + 1 ELSE 0, g)
<1> DEFINE t == Append(s, f)
<1>1. /\ Len(s) \in Nat /\ Len(t) = Len(s) + 1
      /\ t[Len(s) + 1] = f
      /\ \A i \in 1 .. Len(s) : t[i] = s[i]
  OBVIOUS
<1> HIDE DEF t
<1>2. CASE f = g
  <2>1. \A j \in (Len(t) - (n + 1) + 1) .. Len(t) : t[j] = g
    BY <1>1, <1>2 DEF LastRun
  <2>2. n + 1 < Len(t) => t[Len(t) - (n + 1)] # g
    BY <1>1 DEF LastRun
  <2> QED BY <1>1, <1>2, <2>1, <2>2 DEF LastRun, t
<1>3. CASE f # g
  BY <1>1, <1>3 DEF LastRun, t
<1> QED BY <1>2, <1>3

\* An onset is the work of the last run, or was there before.
LEMMA OnsetAppend ==
  ASSUME NEW s \in Seq(Sounds), NEW f \in Sounds
  PROVE  /\ HasOnset(s) => HasOnset(Append(s, f))
         /\ \A n : /\ LastRun(Append(s, f), n, "speech")
                   /\ n >= MinSpeechFrames
                   => HasOnset(Append(s, f))
         /\ \A n : /\ LastRun(Append(s, f), n, "speech")
                   /\ n < MinSpeechFrames
                   /\ HasOnset(Append(s, f))
                   => HasOnset(s)
<1> DEFINE t == Append(s, f)
           M == MinSpeechFrames
<1>1. /\ Len(s) \in Nat /\ Len(t) = Len(s) + 1
      /\ \A i \in 1 .. Len(s) : t[i] = s[i]
  OBVIOUS
<1>2. M \in Nat \ {0}
  BY ThresholdsPositive
<1> HIDE DEF t, M
<1>3. HasOnset(s) => HasOnset(t)
  <2> SUFFICES ASSUME HasOnset(s) PROVE HasOnset(t)
    OBVIOUS
  <2>1. PICK i \in 1 .. (Len(s) - M + 1) :
          \A j \in i .. (i + M - 1) : s[j] = "speech"
    BY DEF HasOnset, M
  <2>2. i \in 1 .. (Len(t) - M + 1)
    BY <1>1, <1>2
  <2>3. \A j \in i .. (i + M - 1) : t[j] = "speech"
    BY <2>1, <1>1, <1>2
  <2> QED BY <2>2, <2>3 DEF HasOnset, M
<1>4. ASSUME NEW n, LastRun(t, n, "speech"), n >= M
      PROVE  HasOnset(t)
  <2>1. n \in 0 .. Len(t)
    BY <1>4 DEF LastRun
  <2>2. Len(t) - M + 1 \in 1 .. (Len(t) - M + 1)
    BY <2>1, <1>1, <1>2, <1>4
  <2>3. \A j \in (Len(t) - M + 1) .. (Len(t) - M + 1 + M - 1) :
          t[j] = "speech"
    BY <2>1, <1>1, <1>2, <1>4 DEF LastRun
  <2> QED BY <2>2, <2>3 DEF HasOnset, M
<1>5. ASSUME NEW n, LastRun(t, n, "speech"), n < M, HasOnset(t)
      PROVE  HasOnset(s)
  <2>1. PICK i \in 1 .. (Len(t) - M + 1) :
          \A j \in i .. (i + M - 1) : t[j] = "speech"
    BY <1>5 DEF HasOnset, M
  <2>2. n \in 0 .. Len(t)
    BY <1>5 DEF LastRun
  <2>3. i # Len(t) - M + 1
    <3> SUFFICES ASSUME i = Len(t) - M + 1 PROVE FALSE
      OBVIOUS
    <3>1. Len(t) - n \in i .. (i + M - 1) \/ n = 0
      BY <1>1, <1>2, <1>5, <2>2
    <3>2. n < Len(t)
      BY <1>1, <1>2, <1>5, <2>2
    <3>3. Len(t) - n \in i .. (i + M - 1)
      BY <1>1, <1>2, <1>5, <2>2
    <3> QED BY <2>1, <3>2, <3>3, <1>5 DEF LastRun
  <2>4. i \in 1 .. (Len(s) - M + 1)
    BY <2>3, <1>1, <1>2
  <2>5. \A j \in i .. (i + M - 1) : s[j] = "speech"
    BY <2>1, <2>4, <1>1, <1>2
  <2> QED BY <2>4, <2>5 DEF HasOnset, M
<1> QED BY <1>3, <1>4, <1>5 DEF t, M

\* A recording ends in a pause when its last silent run is long enough.
LEMMA PauseLastRun ==
  ASSUME NEW s \in Seq(Sounds), NEW n, LastRun(s, n, "silence")
  PROVE  EndsInPause(s) <=> n >= SilenceFramesNeeded
<1>1. Len(s) \in Nat /\ n \in 0 .. Len(s)
  BY DEF LastRun
<1> QED BY <1>1, ThresholdsPositive DEF LastRun, EndsInPause

\* While the detector streams, nothing heard so far is an utterance.
LEMMA StreamingMeansNoUtterance ==
  ASSUME NEW v \in VadState, NEW s \in Seq(Sounds), Detects(v, s)
  PROVE  ~IsUtterance(s)
<1>1. v.inSpeech \in BOOLEAN /\ v.silence \in 0 .. (SilenceFramesNeeded - 1)
  BY DEF VadState
<1>2. CASE v.inSpeech
  <2>1. LastRun(s, v.silence, "silence") /\ ~(v.silence >= SilenceFramesNeeded)
    BY <1>1, <1>2, ThresholdsPositive DEF Detects
  <2> QED BY <2>1, PauseLastRun DEF IsUtterance
<1>3. CASE ~v.inSpeech
  BY <1>3 DEF Detects, IsUtterance
<1> QED BY <1>1, <1>2, <1>3

\* One sample more: process() answers end_of_speech exactly when it
\* completes an utterance, and otherwise its fields tell the new recording.
LEMMA ProcessDetects ==
  ASSUME NEW v \in VadState, NEW s \in Seq(Sounds), NEW f \in Sounds,
         Detects(v, s)
  PROVE  /\ EndOfSpeech(v, f) <=> IsUtterance(Append(s, f))
         /\ EndOfSpeech(v, f) => Process(v, f) = Quiet
         /\ ~EndOfSpeech(v, f) => Detects(Process(v, f), Append(s, f))
<1> DEFINE t == Append(s, f)
           M == MinSpeechFrames
           N == SilenceFramesNeeded
           w == Process(v, f)
<1>1. M \in Nat \ {0} /\ N \in Nat \ {0}
  BY ThresholdsPositive
<1>2. v = [inSpeech |-> v.inSpeech, speech |-> v.speech,
           silence |-> v.silence]
      /\ v.inSpeech \in BOOLEAN /\ v.speech \in 0 .. M
      /\ v.silence \in 0 .. (N - 1)
  BY DEF VadState
<1>3. t \in Seq(Sounds) /\ Len(t) # 0
  OBVIOUS
<1>4. HasOnset(s) => HasOnset(t)
  BY OnsetAppend
<1> HIDE DEF t, M, N, w
<1>5. CASE f = "speech" /\ ~v.inSpeech
  <2>1. LastRun(t, v.speech + 1, "speech")
    BY <1>5, LastRunAppend DEF Detects, Sounds, t
  <2>2. w = [inSpeech |-> v.speech + 1 >= M, speech |-> v.speech + 1,
             silence |-> 0]
    BY <1>1, <1>2, <1>5 DEF w, Process, SpeechFrame, Detects, M
  <2>3. LastRun(t, 0, "silence")
    BY <2>1, <1>3, <1>1, <1>2 DEF LastRun
  <2>4. w.inSpeech <=> HasOnset(t)
    <3>1. v.speech + 1 >= M => HasOnset(t)
      BY <2>1, OnsetAppend DEF t, M
    <3>2. ~(v.speech + 1 >= M) => v.speech + 1 < M
      BY <1>1, <1>2
    <3>3. v.speech + 1 < M /\ HasOnset(t) => HasOnset(s)
      BY <2>1, OnsetAppend DEF t, M
    <3>4. ~HasOnset(s)
      BY <1>5 DEF Detects
    <3> QED BY <2>2, <3>1, <3>2, <3>3, <3>4
  <2>5. ~w.inSpeech => w.speech < M /\ LastRun(t, w.speech, "speech")
    <3>1. w.speech = v.speech + 1 /\ w.inSpeech = (v.speech + 1 >= M)
      BY <2>2
    <3>2. ~(v.speech + 1 >= M) => v.speech + 1 < M
      BY <1>1, <1>2
    <3> QED BY <2>1, <3>1, <3>2
  <2>6. Detects(w, t)
    BY <2>2, <2>3, <2>4, <2>5 DEF Detects, M
  <2>7. ~EndsInPause(t)
    BY <2>3, <1>1, <1>3, PauseLastRun DEF N
  <2> QED BY <1>5, <2>6, <2>7 DEF EndOfSpeech, IsUtterance, t, w
<1>6. CASE f = "speech" /\ v.inSpeech
  <2>1. LastRun(t, 0, "silence")
    <3>1. LastRun(s, v.silence, "silence")
      BY <1>6 DEF Detects
    <3> QED BY <3>1, <1>6, LastRunAppend DEF Sounds, t
  <2>2. w.inSpeech /\ w.silence = 0
    BY <1>2, <1>6 DEF w, Process, SpeechFrame
  <2>3. HasOnset(t)
    BY <1>4, <1>6 DEF Detects
  <2>4. Detects(w, t)
    BY <2>1, <2>2, <2>3 DEF Detects
  <2>5. ~EndsInPause(t)
    BY <2>1, <1>1, <1>3, PauseLastRun DEF N
  <2> QED BY <1>6, <2>4, <2>5 DEF EndOfSpeech, IsUtterance, t, w
<1>7. CASE f = "silence" /\ ~v.inSpeech
  <2>1. LastRun(t, 0, "speech")
    <3>1. LastRun(s, v.speech, "speech")
      BY <1>7 DEF Detects
    <3> QED BY <3>1, <1>7, LastRunAppend DEF Sounds, t
  <2>2. ~HasOnset(t)
    BY <2>1, <1>1, <1>7, OnsetAppend DEF Detects, t, M
  <2>3. ~w.inSpeech /\ w.speech = 0
    BY <1>2, <1>7 DEF w, Process, SilentFrame
  <2>4. Detects(w, t)
    BY <2>1, <2>2, <2>3, <1>1 DEF Detects, M
  <2> QED BY <1>7, <2>2, <2>4 DEF EndOfSpeech, IsUtterance, t, w
<1>8. CASE f = "silence" /\ v.inSpeech
  <2>1. LastRun(t, v.silence + 1, "silence")
    BY <1>8, LastRunAppend DEF Detects, Sounds, t
  <2>2. HasOnset(t)
    BY <1>4, <1>8 DEF Detects
  <2>3. EndsInPause(t) <=> v.silence + 1 >= N
    BY <2>1, <1>3, PauseLastRun DEF N
  <2>4. EndOfSpeech(v, f) <=> v.silence + 1 >= N
    BY <1>8 DEF EndOfSpeech, N
  <2>5. v.silence + 1 >= N => w = Quiet
    BY <1>8 DEF w, Process, SilentFrame, N
  <2>6. ASSUME ~(v.silence + 1 >= N) PROVE Detects(w, t)
    <3>1. w.inSpeech /\ w.silence = v.silence + 1
      BY <1>2, <1>8, <2>6 DEF w, Process, SilentFrame, N
    <3> QED BY <3>1, <2>1, <2>2 DEF Detects
  <2> QED BY <2>2, <2>3, <2>4, <2>5, <2>6 DEF IsUtterance, t, w
<1> QED BY <1>2, <1>5, <1>6, <1>7, <1>8 DEF Sounds

--------------------------------------------------------------------------
(* The theorems about the streaming interface.                             *)

\* Every variable keeps its type: the counters never pass their thresholds.
LEMMA TypeInit == Init => TypeOK
BY VadTyped, EmptySeq DEF Init, TypeOK

LEMMA TypeStep == TypeOK /\ [Next]_vars => TypeOK'
<1> SUFFICES ASSUME TypeOK, [Next]_vars PROVE TypeOK'
  OBVIOUS
<1> USE DEF TypeOK
<1>1. CASE Reset
  BY <1>1, VadTyped, EmptySeq DEF Reset
<1>2. ASSUME NEW f \in Frames, Hear(f) PROVE TypeOK'
  <2>1. vad' \in VadState
    BY <1>2, VadTyped DEF Hear
  <2>2. ended' \in BOOLEAN
    BY <1>2 DEF Hear, EndOfSpeech
  <2>3. heard' \in Seq(Frames)
    BY <1>2 DEF Hear
  <2> QED BY <2>1, <2>2, <2>3
<1>3. CASE UNCHANGED vars
  BY <1>3 DEF vars
<1> QED BY <1>1, <1>2, <1>3 DEF Next

\* The detector's fields stay in their ranges, in every stream of frames.
THEOREM TypeCorrect == Spec => []TypeOK
<1> QED BY TypeInit, TypeStep, PTL DEF Spec

\* One frame more on the recording since the last boundary: what the fields
\* tell, and what end_of_speech says.
LEMMA HearDetects ==
  ASSUME NEW v \in VadState, NEW r \in Seq(Frames), NEW f \in Frames,
         Detects(v, Samples(r))
  PROVE  /\ EndOfSpeech(v, f) =>
              /\ Process(v, f) = Quiet
              /\ f # "empty"
              /\ IsUtterance(Samples(Append(r, f)))
         /\ ~EndOfSpeech(v, f) =>
              Detects(Process(v, f), Samples(Append(r, f)))
<1>1. Samples(r) \in Seq(Sounds)
  BY SamplesAppend
<1>2. CASE f = "empty"
  <2>1. Samples(Append(r, f)) = Samples(r)
    BY <1>2, SamplesAppend
  <2> QED BY <1>2, <2>1 DEF Process, EndOfSpeech
<1>3. CASE f # "empty"
  <2>1. f \in Sounds
    BY <1>3 DEF Frames, Sounds
  <2>2. Samples(Append(r, f)) = Append(Samples(r), f)
    BY <1>3, SamplesAppend
  <2> QED BY <1>1, <1>3, <2>1, <2>2, ProcessDetects
<1> QED BY <1>2, <1>3

LEMMA DetectorInit == Init => DetectorInv
BY QuietDetects, SamplesEmpty DEF Init, DetectorInv

LEMMA DetectorStep == TypeOK /\ DetectorInv /\ [Next]_vars => DetectorInv'
<1> SUFFICES ASSUME TypeOK, DetectorInv, [Next]_vars PROVE DetectorInv'
  OBVIOUS
<1>1. CASE Reset
  BY <1>1, QuietDetects, SamplesEmpty DEF Reset, DetectorInv
<1>2. ASSUME NEW f \in Frames, Hear(f) PROVE DetectorInv'
  <2> DEFINE r == IF ended THEN <<>> ELSE heard
  <2>1. r \in Seq(Frames) /\ heard' = Append(r, f)
    <3>1. Append(<<>>, f) = <<f>>
      OBVIOUS
    <3>2. CASE ended
      BY <1>2, <3>1, <3>2, EmptySeq DEF Hear
    <3>3. CASE ~ended
      BY <1>2, <3>3 DEF TypeOK, Hear
    <3> QED BY <3>2, <3>3
  <2>2. vad \in VadState /\ Detects(vad, Samples(r))
    BY QuietDetects, SamplesEmpty DEF TypeOK, DetectorInv
  <2>3. heard' # <<>> /\ heard'[Len(heard')] = f
    BY <2>1
  <2> HIDE DEF r
  <2>4. vad' = Process(vad, f) /\ ended' = EndOfSpeech(vad, f)
    BY <1>2 DEF Hear
  <2> QED BY <2>1, <2>2, <2>3, <2>4, HearDetects DEF DetectorInv
<1>3. CASE UNCHANGED vars
  BY <1>3 DEF vars, DetectorInv
<1> QED BY <1>1, <1>2, <1>3 DEF Next

LEMMA DetectorCorrect == Spec => [](TypeOK /\ DetectorInv)
<1> QED BY TypeInit, TypeStep, DetectorInit, DetectorStep, PTL DEF Spec

\* The detector believes someone is talking exactly when the recording since
\* the last boundary has an onset: however long the recording, clicks never
\* add up to one.
THEOREM InSpeechMeansOnsetCorrect == Spec => []InSpeechMeansOnset
<1>1. TypeOK /\ DetectorInv => InSpeechMeansOnset
  <2> SUFFICES ASSUME TypeOK, DetectorInv PROVE InSpeechMeansOnset
    OBVIOUS
  <2>1. CASE ended
    BY <2>1 DEF DetectorInv, Quiet, InSpeechMeansOnset
  <2>2. CASE ~ended
    BY <2>2 DEF DetectorInv, Detects, InSpeechMeansOnset
  <2> QED BY <2>1, <2>2
<1> QED BY <1>1, DetectorCorrect, PTL

\* end_of_speech is raised on the frame that completes an utterance, and on
\* no other: pauses inside a sentence never add up to the one that ends it.
THEOREM BoundaryMeansUtteranceCorrect == Spec => []BoundaryMeansUtterance
<1>1. TypeOK /\ DetectorInv => BoundaryMeansUtterance
  <2> SUFFICES ASSUME TypeOK, DetectorInv PROVE BoundaryMeansUtterance
    OBVIOUS
  <2>1. CASE ended
    BY <2>1 DEF DetectorInv, BoundaryMeansUtterance
  <2>2. CASE ~ended
    <3>1. Samples(heard) \in Seq(Sounds)
      BY SamplesAppend DEF TypeOK, Frames
    <3>2. ~IsUtterance(Samples(heard))
      BY <2>2, <3>1, StreamingMeansNoUtterance DEF TypeOK, DetectorInv
    <3> QED BY <2>2, <3>2 DEF BoundaryMeansUtterance
  <2> QED BY <2>1, <2>2 DEF TypeOK
<1> QED BY <1>1, DetectorCorrect, PTL

--------------------------------------------------------------------------
(* The batch interface.                                                    *)

ScanState == [start : Nat, segments : SUBSET (Nat \X Nat)]

\* One step of the loop in get_speech_segments: frame i of s.
Scanned(s, i, q) ==
  CASE s[i] = "speech" /\ q.start = NoSegment -> [q EXCEPT !.start = i]
    [] s[i] # "speech" /\ q.start # NoSegment ->
         [start    |-> NoSegment,
          segments |-> q.segments \cup
            Kept(q.start, i - 1, (i - q.start) * FrameDurationMs)]
    [] OTHER -> q

\* Scan(s) is what these steps lead to.
LEMMA ScanFold ==
  ASSUME NEW s \in Seq(Sounds)
  PROVE  \E c \in [0 .. Len(s) -> ScanState] :
           /\ c[0] = [start |-> NoSegment, segments |-> {}]
           /\ \A i \in 1 .. Len(s) : c[i] = Scanned(s, i, c[i - 1])
           /\ Scan(s) = c[Len(s)]
<1> DEFINE none == [start |-> NoSegment, segments |-> {}]
           step == [i \in 1 .. Len(s) |->
                      [q \in ScanState |-> Scanned(s, i, q)]]
<1>1. none \in ScanState /\ Len(s) \in Nat
  BY DEF ScanState, NoSegment
<1>2. ASSUME NEW i \in 1 .. Len(s), NEW q \in ScanState
      PROVE  Scanned(s, i, q) \in ScanState
  <2>1. i \in Nat /\ i - 1 \in Nat
    BY <1>1
  <2>2. q = [start |-> q.start, segments |-> q.segments]
        /\ q.start \in Nat /\ q.segments \in SUBSET (Nat \X Nat)
    BY DEF ScanState
  <2>3. \A ms : Kept(q.start, i - 1, ms) \in SUBSET (Nat \X Nat)
    BY <2>1, <2>2 DEF Kept
  <2>4. CASE s[i] = "speech" /\ q.start = NoSegment
    BY <2>1, <2>2, <2>4 DEF Scanned, ScanState
  <2>5. CASE s[i] # "speech" /\ q.start # NoSegment
    <3>1. Scanned(s, i, q) =
            [start    |-> NoSegment,
             segments |-> q.segments \cup
               Kept(q.start, i - 1, (i - q.start) * FrameDurationMs)]
      BY <2>5 DEF Scanned
    <3> DEFINE new == Kept(q.start, i - 1, (i - q.start) * FrameDurationMs)
    <3>2. new \in SUBSET (Nat \X Nat)
      BY <2>3
    <3> HIDE DEF new
    <3>3. [start |-> NoSegment, segments |-> q.segments \cup new]
            \in ScanState
      BY <2>2, <3>2 DEF ScanState, NoSegment
    <3> QED BY <3>1, <3>3 DEF new
  <2>6. CASE ~(s[i] = "speech" /\ q.start = NoSegment)
             /\ ~(s[i] # "speech" /\ q.start # NoSegment)
    BY <2>6 DEF Scanned
  <2> QED BY <2>4, <2>5, <2>6
<1>3. step \in [1 .. Len(s) -> [ScanState -> ScanState]]
  BY <1>2
<1> HIDE DEF none
<1>4. PICK c \in [0 .. Len(s) -> ScanState] : Folds(c, none, Len(s), step)
  <2> HIDE DEF step
  <2> QED BY <1>1, <1>3, FoldExists
<1>5. ASSUME NEW i \in 1 .. Len(s)
      PROVE  c[i] = Scanned(s, i, c[i - 1])
  <2>1. c[i - 1] \in ScanState
    BY <1>1
  <2>2. c[i] = step[i][c[i - 1]]
    BY <1>4 DEF Folds
  <2> QED BY <2>1, <2>2
<1>6. c[0] = none
  BY <1>4 DEF Folds
<1> HIDE DEF step
<1> DEFINE F(g) == [i \in 0 .. Len(s) |->
                      IF i = 0 THEN none ELSE Scanned(s, i, g[i - 1])]
           G == CHOOSE g : g = F(g)
<1>7. c = F(c)
  <2>1. \A i \in 0 .. Len(s) : i = 0 \/ i \in 1 .. Len(s)
    BY <1>1
  <2>2. \A i \in 0 .. Len(s) : c[i] = F(c)[i]
    BY <2>1, <1>5, <1>6
  <2> QED BY <2>2
<1>8. G = F(G)
  BY <1>7
<1>9. Scan(s) = G[Len(s)]
  BY DEF Scan, Scanned, none
<1> HIDE DEF G
<1>10. G[0] = none
  BY <1>1, <1>8
<1>11. ASSUME NEW i \in 1 .. Len(s)
       PROVE  G[i] = Scanned(s, i, G[i - 1])
  <2>1. i \in 0 .. Len(s) /\ i # 0
    BY <1>1
  <2> QED BY <2>1, <1>8
<1>12. \A i \in 1 .. Len(s) : G[i - 1] = c[i - 1] => G[i] = c[i]
  BY <1>5, <1>11
<1>13. \A i \in 0 .. Len(s) : G[i] = c[i]
  <2>1. Len(s) \in Nat /\ G[0] = c[0]
    BY <1>1, <1>6, <1>10
  <2> QED BY ONLY <2>1, <1>12, StepTogether, Zenon
<1>14. G[Len(s)] = c[Len(s)]
  BY <1>1, <1>13
<1> QED BY <1>5, <1>6, <1>9, <1>14 DEF none

\* The loud runs of s that end before frame i and last long enough.
LongRuns(s, i) ==
  {r \in LoudRuns(s) :
     r[2] < i /\ (r[2] + 1 - r[1]) * FrameDurationMs >= MinDurationMs}

\* The invariant of the loop: after frame i the open segment is the loud
\* run that reaches i, and the closed ones are the long runs before it.
ScanInv(s, i, q) ==
  /\ q.start \in 0 .. i
  /\ q.start = NoSegment => i = 0 \/ s[i] # "speech"
  /\ q.start # NoSegment => /\ \A j \in q.start .. i : s[j] = "speech"
                            /\ q.start > 1 => s[q.start - 1] # "speech"
  /\ q.segments = LongRuns(s, i)

\* The run that frame i ends is the open segment.
LEMMA RunClosed ==
  ASSUME NEW s \in Seq(Sounds), NEW i \in 2 .. Len(s), NEW a \in 1 .. (i - 1),
         \A j \in a .. (i - 1) : s[j] = "speech",
         a > 1 => s[a - 1] # "speech",
         s[i] # "speech"
  PROVE  /\ <<a, i - 1>> \in LoudRuns(s)
         /\ \A r \in LoudRuns(s) : r[2] = i - 1 => r = <<a, i - 1>>
<1>1. Len(s) \in Nat /\ i \in Nat /\ a \in Nat
  OBVIOUS
<1>2. IsLoudRun(s, a, i - 1)
  BY <1>1 DEF IsLoudRun
<1>3. <<a, i - 1>> \in LoudRuns(s)
  BY <1>1, <1>2 DEF LoudRuns
<1>4. ASSUME NEW r \in LoudRuns(s), r[2] = i - 1
      PROVE  r = <<a, i - 1>>
  <2>1. /\ r = <<r[1], r[2]>> /\ r[1] \in 1 .. Len(s)
        /\ IsLoudRun(s, r[1], i - 1)
    BY <1>4 DEF LoudRuns
  <2>2. ~(r[1] < a)
    <3> SUFFICES ASSUME r[1] < a PROVE FALSE
      OBVIOUS
    <3>1. a > 1 /\ a - 1 \in r[1] .. (i - 1)
      BY <1>1, <2>1
    <3> QED BY <3>1, <2>1 DEF IsLoudRun
  <2>3. ~(r[1] > a)
    <3> SUFFICES ASSUME r[1] > a PROVE FALSE
      OBVIOUS
    <3>1. r[1] > 1 /\ r[1] - 1 \in a .. (i - 1)
      BY <1>1, <2>1 DEF IsLoudRun
    <3> QED BY <3>1, <2>1 DEF IsLoudRun
  <2>4. r[1] = a
    BY <1>1, <2>1, <2>2, <2>3
  <2> QED BY <1>4, <2>1, <2>4
<1> QED BY <1>3, <1>4

\* One frame more keeps the invariant.
LEMMA ScanStep ==
  ASSUME NEW s \in Seq(Sounds), NEW i \in 1 .. Len(s),
         NEW q \in ScanState, ScanInv(s, i - 1, q)
  PROVE  ScanInv(s, i, Scanned(s, i, q))
<1>1. /\ Len(s) \in Nat /\ i \in Nat /\ i - 1 \in Nat
      /\ FrameDurationMs \in Nat
  BY VadAssumption
<1>2. /\ q = [start |-> q.start, segments |-> q.segments]
      /\ q.start \in 0 .. (i - 1)
      /\ q.segments = LongRuns(s, i - 1)
  BY DEF ScanState, ScanInv
<1>3. \A r \in LoudRuns(s) : r[2] < i => r[2] < i - 1 \/ r[2] = i - 1
  BY <1>1 DEF LoudRuns
<1>4. \A r \in LoudRuns(s) : r[2] < i - 1 => r[2] < i
  BY <1>1 DEF LoudRuns
<1>5. \A r \in LoudRuns(s) : r[2] = i - 1 => s[i - 1] = "speech"
                                             /\ s[i] # "speech" /\ i - 1 # 0
  <2> SUFFICES ASSUME NEW r \in LoudRuns(s), r[2] = i - 1
               PROVE  s[i - 1] = "speech" /\ s[i] # "speech" /\ i - 1 # 0
    OBVIOUS
  <2>1. /\ r[1] \in 1 .. Len(s) /\ i - 1 \in 1 .. Len(s)
        /\ IsLoudRun(s, r[1], i - 1)
    BY DEF LoudRuns
  <2> QED BY <1>1, <2>1 DEF IsLoudRun
<1>6. ASSUME \A r \in LoudRuns(s) : r[2] # i - 1
      PROVE  LongRuns(s, i) = LongRuns(s, i - 1)
  BY <1>3, <1>4, <1>6 DEF LongRuns
<1>7. CASE s[i] = "speech" /\ q.start = NoSegment
  <2>1. Scanned(s, i, q) = [start |-> i, segments |-> q.segments]
    BY <1>2, <1>7 DEF Scanned
  <2>2. LongRuns(s, i) = LongRuns(s, i - 1)
    BY <1>5, <1>6, <1>7
  <2>3. i > 1 => s[i - 1] # "speech"
    BY <1>1, <1>7 DEF ScanInv
  <2> QED BY <1>1, <1>2, <1>7, <2>1, <2>2, <2>3 DEF ScanInv, NoSegment
<1>8. CASE s[i] # "speech" /\ q.start # NoSegment
  <2> DEFINE a == q.start
             ms == (i - a) * FrameDurationMs
  <2>1. Scanned(s, i, q) =
          [start    |-> NoSegment,
           segments |-> q.segments \cup Kept(a, i - 1, ms)]
    BY <1>8 DEF Scanned
  <2>2. /\ i \in 2 .. Len(s) /\ a \in 1 .. (i - 1)
        /\ \A j \in a .. (i - 1) : s[j] = "speech"
        /\ a > 1 => s[a - 1] # "speech"
        /\ s[i] # "speech"
    BY <1>1, <1>2, <1>8 DEF ScanInv, NoSegment
  <2>3. /\ <<a, i - 1>> \in LoudRuns(s)
        /\ \A r \in LoudRuns(s) : r[2] = i - 1 => r = <<a, i - 1>>
    BY <2>2, RunClosed
  <2>4. ms = (<<a, i - 1>>[2] + 1 - <<a, i - 1>>[1]) * FrameDurationMs
    <3>1. i - a = (i - 1) + 1 - a
      BY <1>1, <2>2
    <3> QED BY <3>1
  <2>5. <<a, i - 1>>[2] = i - 1 /\ i - 1 < i
    BY <1>1
  <2> HIDE DEF ms
  <2>6. LongRuns(s, i) = q.segments \cup Kept(a, i - 1, ms)
    <3> DEFINE run == <<a, i - 1>>
               Long(r) == (r[2] + 1 - r[1]) * FrameDurationMs
                            >= MinDurationMs
    <3>1. /\ run \in LoudRuns(s) /\ run[2] = i - 1
          /\ \A r \in LoudRuns(s) : r[2] = i - 1 => r = run
          /\ Kept(a, i - 1, ms) = IF Long(run) THEN {run} ELSE {}
      BY <2>3, <2>4, <2>5 DEF Kept
    <3>2. /\ LongRuns(s, i) = {r \in LoudRuns(s) : r[2] < i /\ Long(r)}
          /\ q.segments = {r \in LoudRuns(s) : r[2] < i - 1 /\ Long(r)}
      BY <1>2 DEF LongRuns
    <3>3. i - 1 < i
      BY <1>1
    <3> HIDE DEF Long, run
    <3> QED BY <3>1, <3>2, <3>3, <1>3, <1>4
  <2> QED BY <1>1, <1>8, <2>1, <2>6 DEF ScanInv, NoSegment
<1>9. CASE s[i] = "speech" /\ q.start # NoSegment
  <2>1. Scanned(s, i, q) = q
    BY <1>9 DEF Scanned
  <2>2. LongRuns(s, i) = LongRuns(s, i - 1)
    BY <1>5, <1>6, <1>9
  <2>3. \A j \in q.start .. i : s[j] = "speech"
    BY <1>1, <1>2, <1>9 DEF ScanInv
  <2> QED BY <1>1, <1>2, <1>9, <2>1, <2>2, <2>3 DEF ScanInv
<1>10. CASE s[i] # "speech" /\ q.start = NoSegment
  <2>1. Scanned(s, i, q) = q
    BY <1>10 DEF Scanned
  <2>2. LongRuns(s, i) = LongRuns(s, i - 1)
    BY <1>5, <1>6, <1>10 DEF ScanInv
  <2> QED BY <1>1, <1>2, <1>10, <2>1, <2>2 DEF ScanInv
<1> QED BY <1>7, <1>8, <1>9, <1>10

\* The loop: after the last frame the invariant holds of what Scan returns.
LEMMA ScanLoop ==
  ASSUME NEW s \in Seq(Sounds)
  PROVE  Scan(s) \in ScanState /\ ScanInv(s, Len(s), Scan(s))
<1>1. Len(s) \in Nat
  OBVIOUS
<1>2. PICK c \in [0 .. Len(s) -> ScanState] :
        /\ c[0] = [start |-> NoSegment, segments |-> {}]
        /\ \A i \in 1 .. Len(s) : c[i] = Scanned(s, i, c[i - 1])
        /\ Scan(s) = c[Len(s)]
  BY ScanFold
<1>3. ScanInv(s, 0, c[0])
  <2>1. LongRuns(s, 0) = {}
    BY <1>1 DEF LongRuns, LoudRuns
  <2> QED BY <1>2, <2>1 DEF ScanInv, NoSegment
<1>4. ASSUME NEW i \in 1 .. Len(s), ScanInv(s, i - 1, c[i - 1])
      PROVE  ScanInv(s, i, c[i])
  <2>1. c[i - 1] \in ScanState
    BY <1>1
  <2> QED BY <1>2, <1>4, <2>1, ScanStep
<1> DEFINE Bad == {i \in 0 .. Len(s) : ~ScanInv(s, i, c[i])}
<1>5. Bad = {}
  <2> SUFFICES ASSUME Bad # {} PROVE FALSE
    OBVIOUS
  <2>1. PICK m \in Bad : \A k \in Bad : m <= k
    BY LeastElement, Bad \in SUBSET Nat
  <2>2. m # 0
    BY <1>3
  <2>3. m - 1 \in 0 .. Len(s) /\ m - 1 \notin Bad /\ m \in 1 .. Len(s)
    BY <2>1, <2>2
  <2> QED BY <2>3, <1>4
<1>6. Len(s) \in 0 .. Len(s)
  BY <1>1
<1> QED BY <1>2, <1>5, <1>6

\* get_speech_segments returns the loud runs that last long enough, the one
\* at the end with what follows the last whole frame.
LEMMA SegmentsAreLongRuns ==
  ASSUME NEW s \in Seq(Sounds), NEW tail \in Int
  PROVE  Segments(s, tail) =
           {r \in LoudRuns(s) :
              (r[2] + 1 - r[1]) * FrameDurationMs
                + (IF r[2] = Len(s) THEN tail ELSE 0) >= MinDurationMs}
<1> DEFINE L == Len(s)
           end == Scan(s)
           a == end.start
           len(r) == (r[2] + 1 - r[1]) * FrameDurationMs
           Long(r) == len(r) >= MinDurationMs
           LongTail(r) == len(r) + tail >= MinDurationMs
           last == Kept(a, L, (L + 1 - a) * FrameDurationMs + tail)
<1>1. L \in Nat /\ FrameDurationMs \in Nat
  BY VadAssumption
<1>2. /\ a \in 0 .. L
      /\ a = NoSegment => L = 0 \/ s[L] # "speech"
      /\ a # NoSegment => /\ \A j \in a .. L : s[j] = "speech"
                          /\ a > 1 => s[a - 1] # "speech"
      /\ end.segments = LongRuns(s, L)
  BY ScanLoop DEF ScanInv
<1>3. \A r \in LoudRuns(s) : len(r) \in Int /\ len(r) + 0 = len(r)
  BY <1>1 DEF LoudRuns
<1>4. \A r \in LoudRuns(s) : r[2] < L <=> r[2] # L
  BY <1>1 DEF LoudRuns
<1>5. end.segments = {r \in LoudRuns(s) : r[2] # L /\ Long(r)}
  BY <1>2, <1>4 DEF LongRuns
<1> DEFINE Closed == {r \in LoudRuns(s) : r[2] # L /\ Long(r)}
           Open == {r \in LoudRuns(s) : r[2] = L /\ LongTail(r)}
<1>6. {r \in LoudRuns(s) :
         len(r) + (IF r[2] = L THEN tail ELSE 0) >= MinDurationMs}
      = Closed \cup Open
  <2> HIDE DEF L, len
  <2> QED BY <1>3
<1>7. ASSUME a = NoSegment PROVE Segments(s, tail) = Closed \cup Open
  <2>1. \A r \in LoudRuns(s) : r[2] # L
    <3> SUFFICES ASSUME NEW r \in LoudRuns(s), r[2] = L PROVE FALSE
      OBVIOUS
    <3>1. L \in 1 .. L /\ r[1] \in 1 .. L /\ IsLoudRun(s, r[1], L)
      BY DEF LoudRuns
    <3>2. s[L] = "speech" /\ L # 0
      BY <1>1, <3>1 DEF IsLoudRun
    <3> QED BY <1>2, <1>7, <3>2
  <2>2. Segments(s, tail) = end.segments
    BY <1>7 DEF Segments
  <2> HIDE DEF Long, LongTail, L, end
  <2> QED BY <1>5, <2>1, <2>2
<1>8. ASSUME a # NoSegment PROVE Segments(s, tail) = Closed \cup Open
  <2> DEFINE run == <<a, L>>
  <2>1. a \in 1 .. L /\ L \in 1 .. L
    BY <1>1, <1>2, <1>8 DEF NoSegment
  <2>2. run \in LoudRuns(s)
    BY <1>1, <1>2, <1>8, <2>1 DEF LoudRuns, IsLoudRun
  <2>3. \A r \in LoudRuns(s) : r[2] = L => r = run
    <3> SUFFICES ASSUME NEW r \in LoudRuns(s), r[2] = L PROVE r = run
      OBVIOUS
    <3>1. r = <<r[1], r[2]>> /\ r[1] \in 1 .. L /\ IsLoudRun(s, r[1], L)
      BY DEF LoudRuns
    <3>2. IsLoudRun(s, a, L)
      BY <1>1, <1>2, <1>8, <2>1 DEF IsLoudRun
    <3>3. ~(r[1] < a)
      <4> SUFFICES ASSUME r[1] < a PROVE FALSE
        OBVIOUS
      <4>1. a > 1 /\ a - 1 \in r[1] .. L
        BY <1>1, <2>1, <3>1
      <4> QED BY <4>1, <3>1, <3>2 DEF IsLoudRun
    <3>4. ~(r[1] > a)
      <4> SUFFICES ASSUME r[1] > a PROVE FALSE
        OBVIOUS
      <4>1. r[1] > 1 /\ r[1] - 1 \in a .. L
        BY <1>1, <2>1, <3>1
      <4> QED BY <4>1, <3>1, <3>2 DEF IsLoudRun
    <3>5. r[1] = a
      BY <1>1, <2>1, <3>1, <3>3, <3>4
    <3> QED BY <3>1, <3>5
  <2>4. run[1] = a /\ run[2] = L
    OBVIOUS
  <2>5. len(run) = (L + 1 - a) * FrameDurationMs
    BY <2>4
  <2>6. last = IF LongTail(run) THEN {run} ELSE {}
    BY <2>5 DEF Kept
  <2>7. Segments(s, tail) = end.segments \cup last
    BY <1>8 DEF Segments
  <2> HIDE DEF Long, LongTail, L, end, last, run
  <2>8. last = {r \in LoudRuns(s) : r[2] = L /\ LongTail(r)}
    BY <2>2, <2>3, <2>4, <2>6
  <2> QED BY <1>5, <2>7, <2>8
<1> QED BY <1>6, <1>7, <1>8

\* Whole frames: a stretch of n frames of d ms that reaches m ms has at least
\* as many frames as m rounded down.
LEMMA DivBound ==
  ASSUME NEW n \in Int, NEW m \in Int, NEW d \in Nat \ {0}, n * d >= m
  PROVE  m \div d <= n
<1> DEFINE k == m \div d
<1>1. k \in Int /\ m = d * k + (m % d) /\ m % d >= 0
  OBVIOUS
<1> HIDE DEF k
<1>2. ASSUME k >= n + 1 PROVE FALSE
  <2>1. d * k >= d * (n + 1)
    BY <1>1, <1>2
  <2>2. d * (n + 1) = n * d + d
    OBVIOUS
  <2> QED BY <1>1, <2>1, <2>2
<1> QED BY <1>1, <1>2 DEF k

\* A segment is long enough for process() to open on it.
LEMMA SegmentHasOnset ==
  ASSUME NEW s \in Seq(Sounds), Segments(s, 0) # {}
  PROVE  HasOnset(s)
<1>1. PICK r \in LoudRuns(s) :
        (r[2] + 1 - r[1]) * FrameDurationMs
          + (IF r[2] = Len(s) THEN 0 ELSE 0) >= MinDurationMs
  BY SegmentsAreLongRuns
<1> DEFINE a == r[1]
           b == r[2]
           n == b + 1 - a
<1>2. /\ Len(s) \in Nat /\ a \in 1 .. Len(s) /\ b \in 1 .. Len(s)
      /\ a <= b /\ \A j \in a .. b : s[j] = "speech"
  BY DEF LoudRuns, IsLoudRun
<1>3. n \in Int /\ n >= 1
  BY <1>2
<1>4. n * FrameDurationMs >= MinDurationMs
  <2>1. n * FrameDurationMs \in Int
    BY <1>3, VadAssumption
  <2> QED BY <1>1, <2>1
<1>5. MinSpeechFrames <= n
  <2> HIDE DEF n
  <2>1. MinDurationMs \div FrameDurationMs <= n
    BY <1>3, <1>4, VadAssumption, DivBound
  <2> QED BY <1>3, <2>1 DEF MinSpeechFrames, FramesFor
<1>6. a \in 1 .. (Len(s) - MinSpeechFrames + 1)
  BY <1>2, <1>5, ThresholdsPositive
<1>7. \A j \in a .. (a + MinSpeechFrames - 1) : s[j] = "speech"
  BY <1>2, <1>5, ThresholdsPositive
<1> QED BY <1>6, <1>7 DEF HasOnset

\* Both interfaces tell speech from clicks, on a recording of any length:
\* get_speech_segments returns exactly the loud runs that last long enough,
\* and process() opens an utterance on a recording with such a run.
THEOREM SegmentsAreSpeechCorrect == Spec => []SegmentsAreSpeech
<1>1. TypeOK => SegmentsAreSpeech
  <2> SUFFICES ASSUME TypeOK PROVE SegmentsAreSpeech
    OBVIOUS
  <2>1. Samples(heard) \in Seq(Sounds)
    BY SamplesAppend DEF TypeOK, Frames
  <2>2. FrameDurationMs - 1 \in Int
    BY VadAssumption
  <2>3. \A tail \in {0, FrameDurationMs - 1} : tail \in Int
    BY <2>2
  <2> QED BY <2>1, <2>3, SegmentsAreLongRuns, SegmentHasOnset
           DEF SegmentsAreSpeech
<1> QED BY <1>1, TypeCorrect, PTL
==========================================================================
