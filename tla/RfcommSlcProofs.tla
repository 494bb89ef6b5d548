-------------------------- MODULE RfcommSlcProofs --------------------------
(***************************************************************************)
(* Theorems about RfcommSlc, for every number of channels and phones, any  *)
(* indicators and any bound on what is in flight.                          *)
(***************************************************************************)
EXTENDS RfcommSlc, SequenceTheorems, TLAPS

--------------------------------------------------------------------------
(* Typing.                                                                 *)

\* Writing a command keeps the queues of commands typed.
LEMMA SendTyped ==
  ASSUME TypeOK, NEW c \in Commands, sendAT(c)
  PROVE  asked' \in [Links -> Seq(Commands)]
<1>1. CASE Writable
  <2>1. rfcommChannel \in Links
    BY <1>1 DEF Writable, TypeOK
  <2>2. Append(asked[rfcommChannel], c) \in Seq(Commands)
    BY <2>1, AppendProperties DEF TypeOK
  <2> QED BY <1>1, <2>1, <2>2 DEF sendAT, TypeOK
<1>2. CASE ~Writable
  BY <1>2 DEF sendAT, TypeOK
<1> QED BY <1>1, <1>2

\* What handling a line may change, with the types it changes to.
CtrlTyped ==
  /\ rfcommChannel \in Links \cup {NoLink}
  /\ slcState \in SLCStates
  /\ threeWay \in BOOLEAN
  /\ indicatorNames \in Seq(Indicators)
  /\ indicatorValues \in Seq(Nat)
  /\ keepAlive \in BOOLEAN
  /\ up \in BOOLEAN
  /\ told \in {"none", "ringing", "active", "ended"}
  /\ asked \in [Links -> Seq(Commands)]

\* Handling any line in any state keeps the controller typed.
LEMMA ProcessTyped ==
  ASSUME TypeOK, NEW m \in Lines, processATResponse(m)
  PROVE  CtrlTyped'
<1> USE DEF CtrlTyped
<1>0. CtrlTyped /\ rfcommChannel' = rfcommChannel
  BY DEF TypeOK, processATResponse
<1>1. ASSUME NEW s \in SLCStates, NEW c \in Commands, Advance(s, c)
      PROVE  CtrlTyped'
  BY <1>0, <1>1, SendTyped DEF Advance
<1>2. ASSUME slcCompleted PROVE CtrlTyped'
  <2>1. "XAPL" \in Commands /\ "appleExtensions" \in SLCStates
    BY DEF Commands, SLCStates
  <2> QED BY <1>0, <1>2, <2>1, SendTyped DEF slcCompleted
<1>3. /\ {"CIND=?", "CIND?", "CMER", "CHLD=?"} \subseteq Commands
      /\ {"waitingCINDTest", "waitingCINDRead", "waitingCMER",
          "waitingCHLD", "slcEstablished"} \subseteq SLCStates
  BY DEF Commands, SLCStates, Waiting
<1>4. m.names \in Seq(Indicators) /\ m.values \in Seq(Nat)
  BY DEF Lines
<1>5. CASE m.kind = "CIEV" /\ handleCIEV(m)
  <2>1. m.values[1] \in Nat /\ m.values[2] \in {0, 1}
    BY <1>5 DEF Lines
  <2>2. indicatorValues' \in Seq(Nat)
    <3>1. ASSUME NEW i \in 1 .. Len(indicatorValues)
          PROVE  [indicatorValues EXCEPT ![i] = m.values[2]] \in Seq(Nat)
      BY <1>0, <2>1, ExceptSeq
    <3> QED BY <1>0, <1>5, <3>1 DEF handleCIEV
  <2>3. told' \in {"none", "ringing", "active", "ended"}
    BY <1>0, <1>5 DEF handleCIEV
  <2> QED BY <1>0, <1>5, <2>2, <2>3 DEF handleCIEV
<1>6. CASE handleIncomingCall
  BY <1>0, <1>6 DEF handleIncomingCall
<1>7. CASE OnBRSF(m)
  BY <1>0, <1>1, <1>3, <1>7 DEF OnBRSF
<1>8. CASE OnCINDTest(m)
  BY <1>0, <1>1, <1>3, <1>4, <1>8 DEF OnCINDTest
<1>9. CASE OnCINDRead(m)
  BY <1>0, <1>1, <1>3, <1>4, <1>9 DEF OnCINDRead
<1>10. CASE OnCMER(m)
  BY <1>1, <1>2, <1>3, <1>10 DEF OnCMER
<1>11. CASE OnCHLD(m)
  BY <1>2, <1>11 DEF OnCHLD
<1>12. CASE OnXAPL(m)
  BY <1>0, <1>3, <1>12 DEF OnXAPL
<1>13. CASE UNCHANGED <<slcState, threeWay, indicatorNames, indicatorValues,
                        keepAlive, up, told, asked>>
  BY <1>0, <1>13
<1> QED
  BY <1>5, <1>6, <1>7, <1>8, <1>9, <1>10, <1>11, <1>12, <1>13
  DEF processATResponse

\* Every line a phone sends is a line.
LEMMA ResultTyped ==
  ASSUME NEW kind \in Kinds \ {"CIEV"}, NEW to \in Commands \cup {"none"},
         NEW names \in Seq(Indicators), NEW values \in Seq(Nat)
  PROVE  Result(kind, to, names, values) \in Lines
BY DEF Result, Lines

\* The answers to a command: at most one line, then the OK.
LEMMA AnswersShape ==
  ASSUME TypeOK, NEW l \in Links, NEW c \in Commands, NEW a \in Answers(l, c)
  PROVE  \/ a = <<>> /\ c \in {"CMER", "call"}
         \/ \E m \in Lines :
              /\ a = <<m>>
              /\ m.to = c
              /\ m.kind \in {"BRSF", "names", "values", "CHLD", "XAPL"}
              /\ m.kind = "names" <=> c = "CIND=?"
              /\ m.kind = "values" <=> c = "CIND?"
              /\ m.kind = "names" => m.names = Layout[l]
<1>e. <<>> \in Seq(Nat) /\ <<>> \in Seq(Indicators)
  BY EmptySeq
<1>1. CASE c = "BRSF"
  <2>1. PICK b \in {0, 1} : a = <<Result("BRSF", c, <<>>, <<b>>)>>
    BY <1>1 DEF Answers
  <2>2. Result("BRSF", c, <<>>, <<b>>) \in Lines
    <3>1. b \in Nat /\ <<b>> \in Seq(Nat)
      OBVIOUS
    <3> QED BY <1>e, <3>1, ResultTyped DEF Kinds
  <2> QED BY <1>1, <2>1, <2>2 DEF Result
<1>2. CASE c = "CIND=?"
  <2>1. a = <<Result("names", c, Layout[l], <<>>)>>
    BY <1>2 DEF Answers
  <2>2. Result("names", c, Layout[l], <<>>) \in Lines
    BY <1>e, ResultTyped, RfcommAssumption DEF Kinds
  <2> QED BY <1>2, <2>1, <2>2 DEF Result
<1>3. CASE c = "CIND?"
  <2> DEFINE vs == [i \in 1 .. Len(Layout[l]) |-> phone[l][Layout[l][i]]]
  <2>1. a = <<Result("values", c, <<>>, vs)>>
    BY <1>3 DEF Answers
  <2>2. vs \in Seq(Nat)
    <3>1. Layout[l] \in Seq(Indicators)
      BY RfcommAssumption
    <3>2. Len(Layout[l]) \in Nat
          /\ \A i \in 1 .. Len(Layout[l]) : Layout[l][i] \in Indicators
      BY <3>1, LenProperties, ElementOfSeq
    <3>3. \A i \in 1 .. Len(Layout[l]) : phone[l][Layout[l][i]] \in Nat
      <4>1. \A n \in Indicators : phone[l][n] \in {0, 1}
        BY DEF TypeOK
      <4> QED BY <3>2, <4>1
    <3> QED BY <3>2, <3>3, IsASeq
  <2>3. Result("values", c, <<>>, vs) \in Lines
    BY <1>e, <2>2, ResultTyped DEF Kinds
  <2> QED BY <1>3, <2>1, <2>3 DEF Result
<1>4. CASE c = "CHLD=?"
  <2>1. a = <<Result("CHLD", c, <<>>, <<>>)>>
    BY <1>4 DEF Answers
  <2>2. Result("CHLD", c, <<>>, <<>>) \in Lines
    BY <1>e, ResultTyped DEF Kinds
  <2> QED BY <1>4, <2>1, <2>2 DEF Result
<1>5. CASE c = "XAPL"
  <2>1. a = <<Result("XAPL", c, <<>>, <<>>)>>
    BY <1>5 DEF Answers
  <2>2. Result("XAPL", c, <<>>, <<>>) \in Lines
    BY <1>e, ResultTyped DEF Kinds
  <2> QED BY <1>5, <2>1, <2>2 DEF Result
<1>6. CASE c \in {"CMER", "call"}
  BY <1>6 DEF Answers
<1> QED BY <1>1, <1>2, <1>3, <1>4, <1>5, <1>6 DEF Commands

\* The report of an indicator that changes, and the ring of a call.
Report(l, n) ==
  Result("CIEV", "none", <<>>, <<Index(l, n), 1 - phone[l][n]>>)

LEMMA ReportTyped ==
  ASSUME TypeOK, NEW l \in Links, NEW n \in Indicators
  PROVE  Report(l, n) \in Lines /\ 1 - phone[l][n] \in {0, 1}
<1>1. 1 - phone[l][n] \in {0, 1}
  <2>1. phone[l] \in [Indicators -> {0, 1}]
    BY DEF TypeOK
  <2> QED BY <2>1
<1>2. Index(l, n) \in Nat
  <2>1. \E i \in 1 .. Len(Layout[l]) : Layout[l][i] = n
    BY RfcommAssumption
  <2>2. Index(l, n) \in 1 .. Len(Layout[l])
    BY <2>1 DEF Index
  <2> QED BY <2>2
<1>3. <<Index(l, n), 1 - phone[l][n]>> \in Nat \X {0, 1}
  BY <1>1, <1>2
<1>4. <<Index(l, n), 1 - phone[l][n]>> \in Seq(Nat)
  <2>1. 1 - phone[l][n] \in Nat
    BY <1>1
  <2> QED BY <1>2, <2>1
<1> QED BY <1>1, <1>3, <1>4, EmptySeq DEF Report, Result, Lines, Kinds

LEMMA RingTyped == Result("CLIP", "none", <<>>, <<>>) \in Lines
<1>1. <<>> \in Seq(Nat) /\ <<>> \in Seq(Indicators)
  BY EmptySeq
<1> QED BY <1>1, ResultTyped DEF Kinds

\* The text of the buffer is handled as a line, also when lines are glued.
\* It is no OK and no report then.
LEMMA GluedTyped ==
  \A m \in Lines : Glued(m) \in Lines /\ Glued(m).kind \notin {"OK", "CIEV"}
<1> SUFFICES ASSUME NEW m \in Lines
             PROVE  Glued(m) \in Lines /\ Glued(m).kind \notin {"OK", "CIEV"}
  OBVIOUS
<1>1. <<>> \in Seq(Nat)
  BY EmptySeq
<1>2. CASE m.kind \in {"OK", "CIEV"}
  BY <1>2 DEF Glued, Lines, Kinds
<1>3. CASE m.kind = "BRSF"
  BY <1>1, <1>3 DEF Glued, Lines, Kinds
<1>4. CASE m.kind \notin {"OK", "CIEV", "BRSF"}
  BY <1>4 DEF Glued
<1> QED BY <1>2, <1>3, <1>4

\* Data received is a line that is handled, or changes the buffer only.
LEMMA ReceiveShape ==
  ASSUME TypeOK, NEW l \in Links, Receive(l)
  PROVE  \/ \E m \in Lines : processATResponse(m)
         \/ UNCHANGED <<ctrlVars, asked>>
<1>1. wire[l] \in Seq(Lines) /\ wire[l] # <<>>
  BY DEF Receive, ReceiveLine, ReceiveText, ReceiveEnd, ReceiveCRLF, TypeOK
<1>2. Head(wire[l]) \in Lines
  BY <1>1, HeadTailProperties
<1>3. atBuffer # <<>> => Buffered \in Lines
  <2> SUFFICES ASSUME atBuffer # <<>> PROVE Buffered \in Lines
    OBVIOUS
  <2>1. atBuffer[1] \in Lines
    BY DEF TypeOK
  <2> QED BY <2>1, GluedTyped DEF Buffered
<1>4. BreakFound => \/ \E m \in Lines : processATResponse(m)
                    \/ UNCHANGED <<ctrlVars, asked>>
  BY <1>3 DEF BreakFound
<1> QED
  BY <1>2, <1>4
  DEF Receive, ReceiveLine, ReceiveText, ReceiveEnd, ReceiveCRLF

\* A step keeps every variable in its type, whatever the order of events.
LEMMA TypeStep == TypeOK /\ [Next]_vars => TypeOK'
<1> SUFFICES ASSUME TypeOK, [Next]_vars PROVE TypeOK'
  OBVIOUS
<1> USE DEF ctrlVars, phoneVars
<1>0. CtrlTyped
  BY DEF TypeOK, CtrlTyped
<1>s. {"idle", "waitingBRSFResponse"} \subseteq SLCStates
  BY DEF SLCStates, Waiting
<1>e. <<>> \in Seq(Commands) /\ <<>> \in Seq(Lines)
  BY EmptySeq
<1>a. ASSUME NEW l \in Links, Adopt(l) PROVE TypeOK'
  <2>1. Append(asked[l], "BRSF") \in Seq(Commands)
    BY AppendProperties DEF TypeOK, Commands
  <2>2. asked' \in [Links -> Seq(Commands)]
    BY <1>a, <2>1 DEF Adopt, TypeOK
  <2> QED BY <1>a, <1>s, <2>2 DEF Adopt, TypeOK
<1>h. ASSUME NEW l \in Links, HangUp(l)
      PROVE  /\ asked' \in [Links -> Seq(Commands)]
             /\ wire' \in [Links -> Seq(Lines)]
             /\ reporting' \in [Links -> BOOLEAN]
  BY <1>e, <1>h DEF HangUp, TypeOK
<1>1. ASSUME NEW l \in Links, connect(l) PROVE TypeOK'
  BY <1>1 DEF connect, TypeOK
<1>2. ASSUME NEW l \in Links, rfcommChannelOpenComplete(l) PROVE TypeOK'
  BY <1>a, <1>2 DEF rfcommChannelOpenComplete, TypeOK
<1>3. ASSUME NEW l \in Links, rfcommChannelClosed(l) PROVE TypeOK'
  BY <1>s, <1>3 DEF rfcommChannelClosed, TypeOK
<1>4. ASSUME NEW l \in Links, Receive(l) PROVE TypeOK'
  <2>0. /\ link' = link /\ phone' = phone /\ reporting' = reporting
        /\ wire[l] \in Seq(Lines) /\ wire[l] # <<>>
    BY <1>4 DEF Receive, ReceiveLine, ReceiveText, ReceiveEnd, ReceiveCRLF,
                TypeOK
  <2>1. Head(wire[l]) \in Lines /\ Tail(wire[l]) \in Seq(Lines)
    BY <2>0, HeadTailProperties
  <2>2. EndOfLine \in Lines
    BY EmptySeq DEF EndOfLine, Lines, Kinds
  <2>3. wire' \in [Links -> Seq(Lines)]
    <3>1. CASE ReceiveText(l)
      <4>1. <<EndOfLine>> \o Tail(wire[l]) \in Seq(Lines)
        BY <2>1, <2>2, ConcatProperties
      <4> QED BY <3>1, <4>1 DEF ReceiveText, TypeOK
    <3>2. CASE ReceiveLine(l) \/ ReceiveEnd(l) \/ ReceiveCRLF(l)
      BY <2>1, <3>2
      DEF ReceiveLine, ReceiveEnd, ReceiveCRLF, Delivered, TypeOK
    <3> QED BY <1>4, <3>1, <3>2 DEF Receive
  <2>4. atBuffer' \in Seq(Lines)
    <3>1. /\ <<Head(wire[l])>> \in Seq(Lines)
          /\ Append(atBuffer, Head(wire[l])) \in Seq(Lines)
      BY <2>1, AppendProperties DEF TypeOK
    <3> QED
      BY <1>e, <1>4, <3>1
      DEF Receive, ReceiveLine, ReceiveText, ReceiveEnd, ReceiveCRLF, TypeOK
  <2>5. CtrlTyped'
    <3>1. CASE \E m \in Lines : processATResponse(m)
      BY <3>1, ProcessTyped
    <3>2. CASE UNCHANGED <<ctrlVars, asked>>
      BY <1>0, <3>2 DEF CtrlTyped
    <3> QED BY <1>4, <3>1, <3>2, ReceiveShape
  <2> QED BY <2>0, <2>3, <2>4, <2>5 DEF CtrlTyped, TypeOK
<1>5. ASSUME NEW l \in Links, PhoneAnswers(l) PROVE TypeOK'
  <2>1. /\ asked[l] \in Seq(Commands) /\ asked[l] # <<>>
        /\ wire[l] \in Seq(Lines)
    BY <1>5 DEF PhoneAnswers, TypeOK
  <2>2. Head(asked[l]) \in Commands /\ Tail(asked[l]) \in Seq(Commands)
    BY <2>1, HeadTailProperties
  <2> DEFINE c == Head(asked[l])
  <2>3. /\ OK(c) \in Lines
        /\ Result("ERROR", c, <<>>, <<>>) \in Lines
    BY <2>2, EmptySeq, ResultTyped DEF OK, Kinds
  <2>4. ASSUME NEW a \in Answers(l, c)
        PROVE  wire[l] \o a \o <<OK(c)>> \in Seq(Lines)
    <3>1. a \in Seq(Lines)
      <4>1. a = <<>> \/ \E m \in Lines : a = <<m>>
        BY <2>2, AnswersShape
      <4>2. \A m \in Lines : <<m>> \in Seq(Lines)
        OBVIOUS
      <4> QED BY <1>e, <4>1, <4>2
    <3>2. <<OK(c)>> \in Seq(Lines)
      BY <2>3
    <3>3. wire[l] \o a \in Seq(Lines)
      BY <2>1, <3>1, ConcatProperties
    <3> QED BY <3>2, <3>3, ConcatProperties
  <2>5. Append(wire[l], Result("ERROR", c, <<>>, <<>>)) \in Seq(Lines)
    BY <2>1, <2>3, AppendProperties
  <2>6. wire' \in [Links -> Seq(Lines)] /\ reporting' \in [Links -> BOOLEAN]
    BY <1>5, <2>4, <2>5 DEF PhoneAnswers, TypeOK
  <2>7. asked' \in [Links -> Seq(Commands)]
    BY <1>5, <2>2 DEF PhoneAnswers, TypeOK
  <2> QED BY <1>5, <2>6, <2>7 DEF PhoneAnswers, TypeOK
<1>6. ASSUME NEW l \in Links, NEW n \in Indicators, PhoneChanges(l, n)
      PROVE  TypeOK'
  <2>1. phone' \in [Links -> [Indicators -> {0, 1}]]
    <3>1. 1 - phone[l][n] \in {0, 1}
      BY ReportTyped
    <3>2. [phone[l] EXCEPT ![n] = 1 - @] \in [Indicators -> {0, 1}]
      BY <3>1 DEF TypeOK
    <3> QED BY <1>6, <3>2 DEF PhoneChanges, TypeOK
  <2>2. Append(wire[l], Report(l, n)) \in Seq(Lines)
    BY ReportTyped, AppendProperties DEF TypeOK
  <2>3. wire' \in [Links -> Seq(Lines)]
    BY <1>6, <2>2 DEF PhoneChanges, Report, TypeOK
  <2> QED BY <1>6, <2>1, <2>3 DEF PhoneChanges, TypeOK
<1>7. ASSUME NEW l \in Links, PhoneRings(l) PROVE TypeOK'
  <2>1. Result("CLIP", "none", <<>>, <<>>) \in Lines
    BY RingTyped
  <2>2. Append(wire[l], Result("CLIP", "none", <<>>, <<>>)) \in Seq(Lines)
    BY <2>1, AppendProperties DEF TypeOK
  <2> QED BY <1>7, <2>2 DEF PhoneRings, TypeOK
<1>8. ASSUME NEW l \in Links, LinkLost(l) PROVE TypeOK'
  BY <1>h, <1>8 DEF LinkLost, TypeOK
<1>9. CASE disconnect
  <2>1. rfcommChannel \in Links
    BY <1>9 DEF disconnect, TypeOK
  <2> QED BY <1>h, <1>s, <1>9, <2>1 DEF disconnect, TypeOK
<1>10. CASE callCommand
  BY <1>10, SendTyped DEF callCommand, TypeOK, Commands
<1>11. CASE keepAliveFires
  BY <1>11, SendTyped DEF keepAliveFires, TypeOK, Commands
<1>12. CASE UNCHANGED vars
  BY <1>12 DEF vars, TypeOK
<1> QED
  BY <1>a, <1>1, <1>2, <1>3, <1>4, <1>5, <1>6, <1>7, <1>8, <1>9, <1>10,
     <1>11, <1>12
  DEF Next, Callback, Environment, rfcommChannelOpened

LEMMA TypeInit == Init => TypeOK
BY EmptySeq DEF Init, TypeOK, SLCStates

\* Every variable keeps its type, however channels, callbacks, packets and
\* commands interleave.
THEOREM TypeCorrect == Spec => []TypeOK
BY TypeInit, TypeStep, PTL DEF Spec
--------------------------------------------------------------------------
(* What holds whatever the order of callbacks, commands and channels.      *)

\* A line that completes the negotiation starts the keep-alive timer.
LEMMA ProcessSession ==
  ASSUME TypeOK, NEW m, processATResponse(m)
  PROVE  /\ rfcommChannel' = rfcommChannel
         /\ slcState' # slcState => slcState # "idle"
         /\ isConnected' => isConnected \/ keepAlive'
         /\ keepAlive => keepAlive'
<1> USE DEF isConnected
<1>0. rfcommChannel' = rfcommChannel
  BY DEF processATResponse
<1>1. CASE UNCHANGED <<slcState, keepAlive>>
  BY <1>0, <1>1
<1>2. CASE OnBRSF(m)
  BY <1>0, <1>2 DEF OnBRSF, Advance
<1>3. CASE OnCINDTest(m)
  BY <1>0, <1>3 DEF OnCINDTest, Advance
<1>4. CASE OnCINDRead(m)
  BY <1>0, <1>4 DEF OnCINDRead, Advance
<1>5. CASE OnCMER(m)
  BY <1>0, <1>5 DEF OnCMER, Advance, slcCompleted
<1>6. CASE OnCHLD(m)
  BY <1>0, <1>6 DEF OnCHLD, slcCompleted
<1>7. CASE OnXAPL(m)
  BY <1>0, <1>7 DEF OnXAPL
<1> QED
  BY <1>1, <1>2, <1>3, <1>4, <1>5, <1>6, <1>7
  DEF processATResponse, handleCIEV, handleIncomingCall

\* A packet that is received either is only buffered or has one line handled.
LEMMA SessionStep ==
  TypeOK /\ SessionInv /\ [Next]_vars => SessionInv'
<1> SUFFICES ASSUME TypeOK, SessionInv, [Next]_vars
             PROVE  SessionInv'
  OBVIOUS
<1> USE DEF SessionInv, isConnected
<1>a. ASSUME NEW l \in Links, Adopt(l) PROVE SessionInv'
  BY <1>a, RfcommAssumption DEF Adopt
<1>1. ASSUME NEW l \in Links, connect(l) PROVE SessionInv'
  BY <1>1, RfcommAssumption DEF connect
<1>2. ASSUME NEW l \in Links, rfcommChannelOpenComplete(l)
      PROVE  SessionInv'
  BY <1>a, <1>2 DEF rfcommChannelOpenComplete, ctrlVars
<1>3. ASSUME NEW l \in Links, rfcommChannelClosed(l)
      PROVE  SessionInv'
  BY <1>3 DEF rfcommChannelClosed
<1>4. ASSUME NEW l \in Links, Receive(l) PROVE SessionInv'
  <2>1. CASE UNCHANGED <<ctrlVars, asked>>
    BY <2>1 DEF ctrlVars
  <2>2. CASE \E m \in Lines : processATResponse(m)
    <3>1. PICK m \in Lines : processATResponse(m)
      BY <2>2
    <3> QED BY <3>1, ProcessSession DEF TypeOK
  <2> QED BY <1>4, <2>1, <2>2, ReceiveShape
<1>5. CASE disconnect
  BY <1>5 DEF disconnect
<1>6. CASE UNCHANGED ctrlVars
  BY <1>6 DEF ctrlVars
<1> QED
  BY <1>a, <1>1, <1>2, <1>3, <1>4, <1>5, <1>6
  DEF Next, Callback, Environment, rfcommChannelOpened, PhoneAnswers,
      PhoneChanges, PhoneRings, LinkLost, callCommand, keepAliveFires, vars

\* A negotiation or a connection has a channel, and a connection its timer,
\* whatever the order of events, overlapping channels and packets included.
THEOREM SessionCorrect == Spec => []SessionInv
<1>1. Init => SessionInv
  BY DEF Init, SessionInv, isConnected
<1> QED BY <1>1, SessionStep, TypeCorrect, PTL DEF Spec
--------------------------------------------------------------------------
(* What is in flight in a negotiation, and how the phone answers.          *)

\* The lines on the way, as one is delivered, answered and added to.
LEMMA MarkedIs ==
  ASSUME NEW in \in Seq(Lines), in # <<>>
  PROVE  LET r == <<EndOfLine>> \o Tail(in)
         IN /\ Len(in) \in Nat
            /\ Len(r) = Len(in) /\ r[1] = EndOfLine
            /\ \A i \in 1 .. Len(in) : i # 1 => r[i] = in[i]
<1> DEFINE t == Tail(in)
           s == <<EndOfLine>>
<1>1. /\ Len(in) \in Nat /\ Len(in) # 0 /\ t \in Seq(Lines)
      /\ Len(t) = Len(in) - 1
      /\ \A i \in 1 .. Len(t) : t[i] = in[i + 1]
  BY HeadTailProperties, LenProperties, EmptySeq
<1>2. s \in Seq(Lines) /\ Len(s) = 1 /\ s[1] = EndOfLine
  BY EmptySeq DEF EndOfLine, Lines, Kinds
<1> HIDE DEF t, s
<1>3. /\ Len(s \o t) = 1 + Len(t)
      /\ \A i \in 1 .. 1 + Len(t) :
           (s \o t)[i] = IF i <= 1 THEN s[i] ELSE t[i - 1]
  <2>1. /\ Len(s \o t) = Len(s) + Len(t)
        /\ \A i \in 1 .. Len(s) + Len(t) :
             (s \o t)[i] = IF i <= Len(s) THEN s[i] ELSE t[i - Len(s)]
    <3>1. s \in Seq(Lines) /\ t \in Seq(Lines)
      BY <1>1, <1>2
    <3> QED BY ONLY <3>1, ConcatProperties
  <2> QED BY <1>2, <2>1
<1>4. ASSUME NEW i \in 1 .. Len(in), i # 1 PROVE (s \o t)[i] = in[i]
  <2>1. i - 1 \in 1 .. Len(t) /\ i - 1 + 1 = i /\ ~(i <= 1)
        /\ i \in 1 .. 1 + Len(t)
    BY <1>1, <1>4
  <2> QED BY <1>1, <1>3, <2>1
<1>5. Len(s \o t) = Len(in) /\ (s \o t)[1] = EndOfLine
  BY <1>1, <1>2, <1>3
<1> QED BY <1>1, <1>4, <1>5 DEF t, s

LEMMA FlightTail ==
  ASSUME NEW c \in Commands, NEW out, NEW in \in Seq(Lines), in # <<>>,
         Flight(c, out, in)
  PROVE  Flight(c, out, Tail(in))
<1>1. /\ Len(in) \in Nat
      /\ Len(Tail(in)) = Len(in) - 1
      /\ \A i \in 1 .. Len(Tail(in)) : Tail(in)[i] = in[i + 1]
  BY HeadTailProperties, LenProperties
<1>2. \A i \in 1 .. Len(Tail(in)) : i + 1 \in 1 .. Len(in)
  BY <1>1
<1>3. ASSUME NEW i \in 1 .. Len(Tail(in)), Final(Tail(in)[i]),
             NEW j \in 1 .. Len(Tail(in)), j > i
      PROVE  Tail(in)[j].to = "none"
  <2>1. j + 1 > i + 1
    BY <1>1, <1>3
  <2> QED BY <1>1, <1>2, <1>3, <2>1 DEF Flight
<1> QED BY <1>1, <1>2, <1>3 DEF Flight

\* The first line is taken and a mark that answers nothing put in its place.
LEMMA FlightMarked ==
  ASSUME NEW c \in Commands, NEW out, NEW in \in Seq(Lines), in # <<>>,
         Flight(c, out, in)
  PROVE  Flight(c, out, <<EndOfLine>> \o Tail(in))
<1> DEFINE r == <<EndOfLine>> \o Tail(in)
<1>1. /\ Len(in) \in Nat
      /\ Len(r) = Len(in) /\ r[1] = EndOfLine
      /\ \A i \in 1 .. Len(in) : i # 1 => r[i] = in[i]
  BY MarkedIs
<1> HIDE DEF r
<1>2. /\ EndOfLine.to = "none" /\ EndOfLine.kind = "end"
      /\ ~Final(EndOfLine)
  BY DEF EndOfLine, Final
<1>3. ASSUME NEW i \in 1 .. Len(r), Final(r[i]),
             NEW j \in 1 .. Len(r), j > i
      PROVE  r[j].to = "none"
  <2>1. i # 1 /\ j # 1
    BY <1>1, <1>2, <1>3
  <2> QED BY <1>1, <1>3, <2>1 DEF Flight
<1>4. ASSUME NEW i \in 1 .. Len(r)
      PROVE  /\ r[i].to \in {c, "none"}
             /\ r[i].to = c => out = <<>>
             /\ r[i].to = "none" => r[i].kind \in {"CIEV", "CLIP", "end"}
  <2>1. CASE i = 1
    BY <1>1, <1>2, <2>1 DEF Commands
  <2>2. CASE i # 1
    BY <1>1, <2>2 DEF Flight
  <2> QED BY <2>1, <2>2
<1>5. Flight(c, out, r)
  BY <1>3, <1>4 DEF Flight
<1> QED BY <1>5 DEF r

LEMMA FlightNext ==
  ASSUME NEW c \in Commands, NEW out, NEW in \in Seq(Lines), in # <<>>,
         Flight(c, out, in), Head(in).kind = "OK",
         NEW d \in Commands
  PROVE  out = <<>> /\ Flight(d, <<d>>, Tail(in))
<1>1. /\ Len(in) \in Nat /\ 1 \in 1 .. Len(in) /\ Head(in) = in[1]
      /\ Len(Tail(in)) = Len(in) - 1
      /\ \A i \in 1 .. Len(Tail(in)) : Tail(in)[i] = in[i + 1]
  BY HeadTailProperties, LenProperties, EmptySeq
<1>2. \A i \in 1 .. Len(Tail(in)) : i + 1 \in 1 .. Len(in) /\ i + 1 > 1
  BY <1>1
<1>3. Final(in[1]) /\ in[1].to = c
  BY <1>1 DEF Flight, Final
<1>4. \A i \in 1 .. Len(Tail(in)) :
        /\ Tail(in)[i].to = "none"
        /\ Tail(in)[i].kind \in {"CIEV", "CLIP", "end"}
  BY <1>1, <1>2, <1>3 DEF Flight
<1> QED BY <1>1, <1>3, <1>4 DEF Flight, Final, Commands

LEMMA FlightAppend ==
  ASSUME NEW c \in Commands, NEW out, NEW in \in Seq(Lines),
         Flight(c, out, in), NEW m \in Lines, m.to = "none",
         m.kind \in {"CIEV", "CLIP"}
  PROVE  Flight(c, out, Append(in, m))
<1>1. /\ Len(in) \in Nat
      /\ Len(Append(in, m)) = Len(in) + 1
      /\ \A i \in 1 .. Len(in) : Append(in, m)[i] = in[i]
      /\ Append(in, m)[Len(in) + 1] = m
  BY AppendProperties, LenProperties
<1>2. \A i \in 1 .. Len(in) + 1 : i \in 1 .. Len(in) \/ i = Len(in) + 1
  BY <1>1
<1> QED BY <1>1, <1>2 DEF Flight, Final, Commands

\* A queue to which an answer a and its final result f are added.
LEMMA Answered ==
  ASSUME NEW in \in Seq(Lines), NEW a \in Seq(Lines), NEW f \in Lines
  PROVE  LET r == in \o a \o <<f>>
         IN /\ r \in Seq(Lines)
            /\ Len(r) = Len(in) + Len(a) + 1
            /\ \A i \in 1 .. Len(in) : i \in 1 .. Len(r) /\ r[i] = in[i]
            /\ \A k \in 1 .. Len(a) : /\ Len(in) + k \in 1 .. Len(r)
                                      /\ Len(in) + k < Len(r)
                                      /\ r[Len(in) + k] = a[k]
            /\ \A i \in 1 .. Len(r) :
                 \/ i \in 1 .. Len(in) /\ r[i] = in[i]
                 \/ \E k \in 1 .. Len(a) : i = Len(in) + k /\ r[i] = a[k]
                 \/ i = Len(r) /\ r[i] = f
<1> DEFINE r == in \o a \o <<f>>
<1>1. <<f>> \in Seq(Lines) /\ Len(<<f>>) = 1 /\ <<f>>[1] = f
  OBVIOUS
<1>2. /\ in \o a \in Seq(Lines)
      /\ Len(in \o a) = Len(in) + Len(a)
      /\ \A i \in 1 .. Len(in) + Len(a) :
           (in \o a)[i] = IF i <= Len(in) THEN in[i] ELSE a[i - Len(in)]
  BY ConcatProperties
<1>3. /\ r \in Seq(Lines)
      /\ Len(r) = Len(in \o a) + 1
      /\ \A i \in 1 .. Len(in \o a) + 1 :
           r[i] = IF i <= Len(in \o a) THEN (in \o a)[i]
                                       ELSE <<f>>[i - Len(in \o a)]
  BY <1>1, <1>2, ConcatProperties
<1>4. Len(in) \in Nat /\ Len(a) \in Nat
  BY LenProperties
<1>5. Len(r) = Len(in) + Len(a) + 1
  BY <1>2, <1>3
<1>6. ASSUME NEW i \in 1 .. Len(in)
      PROVE  i \in 1 .. Len(r) /\ r[i] = in[i]
  BY <1>2, <1>3, <1>4
<1>7. ASSUME NEW k \in 1 .. Len(a)
      PROVE  /\ Len(in) + k \in 1 .. Len(r) /\ Len(in) + k < Len(r)
             /\ r[Len(in) + k] = a[k]
  <2>1. /\ Len(in) + k \in 1 .. Len(in) + Len(a)
        /\ ~(Len(in) + k <= Len(in))
        /\ Len(in) + k - Len(in) = k
        /\ Len(in) + k <= Len(in) + Len(a)
    BY <1>4
  <2>2. (in \o a)[Len(in) + k] = a[k]
    BY <1>2, <2>1
  <2>3. r[Len(in) + k] = (in \o a)[Len(in) + k]
    BY <1>2, <1>3, <1>4, <2>1
  <2> HIDE DEF r
  <2> QED BY <1>4, <1>5, <2>1, <2>2, <2>3
<1>8. r[Len(r)] = f
  <2>1. Len(in \o a) \in Nat
    BY <1>2, <1>4
  <2>2. Len(in \o a) + 1 - Len(in \o a) = 1 /\ ~(Len(in \o a) + 1 <= Len(in \o a))
    BY <2>1
  <2>3. r[Len(in \o a) + 1] = <<f>>[1]
    BY <1>3, <2>1, <2>2
  <2> QED BY <1>1, <1>3, <2>3
<1> HIDE DEF r
<1>9. ASSUME NEW i \in 1 .. Len(r)
      PROVE  \/ i \in 1 .. Len(in)
             \/ \E k \in 1 .. Len(a) : i = Len(in) + k
             \/ i = Len(r)
  <2>1. CASE i > Len(in) /\ i <= Len(in) + Len(a)
    <3>1. i - Len(in) \in 1 .. Len(a) /\ i = Len(in) + (i - Len(in))
      BY <1>4, <2>1
    <3> QED BY <3>1
  <2>2. CASE ~(i > Len(in) /\ i <= Len(in) + Len(a))
    BY <1>4, <1>5, <2>2
  <2> QED BY <2>1, <2>2
<1>10. /\ r \in Seq(Lines)
       /\ Len(r) = Len(in) + Len(a) + 1
       /\ \A i \in 1 .. Len(in) : i \in 1 .. Len(r) /\ r[i] = in[i]
       /\ \A k \in 1 .. Len(a) : /\ Len(in) + k \in 1 .. Len(r)
                                 /\ Len(in) + k < Len(r)
                                 /\ r[Len(in) + k] = a[k]
       /\ \A i \in 1 .. Len(r) :
            \/ i \in 1 .. Len(in) /\ r[i] = in[i]
            \/ \E k \in 1 .. Len(a) : i = Len(in) + k /\ r[i] = a[k]
            \/ i = Len(r) /\ r[i] = f
  <2>1. ASSUME NEW i \in 1 .. Len(r)
        PROVE  \/ i \in 1 .. Len(in) /\ r[i] = in[i]
               \/ \E k \in 1 .. Len(a) : i = Len(in) + k /\ r[i] = a[k]
               \/ i = Len(r) /\ r[i] = f
    BY <1>6, <1>7, <1>8, <1>9
  <2> QED BY <1>3, <1>5, <1>6, <1>7, <2>1
<1> QED BY <1>10 DEF r

LEMMA FlightAnswer ==
  ASSUME NEW c \in Commands, NEW in \in Seq(Lines), Flight(c, <<c>>, in),
         NEW a \in Seq(Lines), NEW f \in Lines, f.to = c,
         \A i \in 1 .. Len(a) : a[i].to = c /\ ~Final(a[i])
  PROVE  Flight(c, <<>>, in \o a \o <<f>>)
<1> DEFINE r == in \o a \o <<f>>
<1>1. /\ Len(r) = Len(in) + Len(a) + 1
      /\ \A i \in 1 .. Len(r) :
           \/ i \in 1 .. Len(in) /\ r[i] = in[i]
           \/ \E k \in 1 .. Len(a) : i = Len(in) + k /\ r[i] = a[k]
           \/ i = Len(r) /\ r[i] = f
  BY Answered
<1> HIDE DEF r
<1>2. \A i \in 1 .. Len(in) :
        in[i].to = "none" /\ in[i].kind \in {"CIEV", "CLIP", "end"}
  BY DEF Flight
<1>3. \A i \in 1 .. Len(r) :
        /\ r[i].to \in {c, "none"}
        /\ r[i].to = "none" => r[i].kind \in {"CIEV", "CLIP", "end"}
        /\ Final(r[i]) => i = Len(r)
  BY <1>1, <1>2 DEF Final, Commands
<1>4. Len(r) \in Nat
  BY <1>1, LenProperties
<1>5. Flight(c, <<>>, r)
  <2>1. ASSUME NEW i \in 1 .. Len(r), Final(r[i]),
               NEW j \in 1 .. Len(r), j > i
        PROVE  FALSE
    <3>1. i = Len(r)
      BY <1>3, <2>1 DEF Final
    <3> QED BY <1>4, <2>1, <3>1
  <2> QED BY <1>3, <2>1 DEF Flight, Final
<1> QED BY <1>5 DEF r

\* What the phone sends when it answers command c: answer a and a final
\* result f.
IsAnswer(l, c, a, f) ==
  /\ f.to = c /\ f.kind \in {"OK", "ERROR"}
  /\ f.kind = "OK" /\ c = "BRSF" => Len(a) = 1
  /\ f.kind = "OK" /\ c = "CIND=?" => Len(a) = 1 /\ a[1].kind = "names"
  /\ \A i \in 1 .. Len(a) :
       /\ a[i].to = c
       /\ a[i].kind \in {"BRSF", "names", "values", "CHLD", "XAPL"}
       /\ a[i].kind = "names" => a[i].names = Layout[l]
       /\ a[i].kind = "values" => c = "CIND?"

LEMMA AnswerIs ==
  ASSUME TypeOK, NEW l \in Links, NEW c \in Commands, NEW a \in Answers(l, c)
  PROVE  /\ a \in Seq(Lines) /\ OK(c) \in Lines
         /\ IsAnswer(l, c, a, OK(c))
<1>1. OK(c) \in Lines /\ OK(c).kind = "OK" /\ OK(c).to = c
  BY EmptySeq, ResultTyped DEF OK, Result, Kinds
<1>2. CASE a = <<>>
  <2>1. c \in {"CMER", "call"}
    BY <1>2, AnswersShape
  <2>2. a \in Seq(Lines) /\ Len(a) = 0
    BY <1>2, EmptySeq
  <2>3. 1 .. Len(a) = {}
    BY <2>2
  <2> QED BY <1>1, <2>1, <2>2, <2>3 DEF IsAnswer
<1>3. CASE a # <<>>
  <2>1. PICK m \in Lines :
          /\ a = <<m>>
          /\ m.to = c
          /\ m.kind \in {"BRSF", "names", "values", "CHLD", "XAPL"}
          /\ m.kind = "names" <=> c = "CIND=?"
          /\ m.kind = "values" <=> c = "CIND?"
          /\ m.kind = "names" => m.names = Layout[l]
    BY <1>3, AnswersShape
  <2>2. a \in Seq(Lines) /\ Len(a) = 1 /\ a[1] = m
    BY <2>1
  <2>3. \A i \in 1 .. Len(a) : a[i] = m
    BY <2>2
  <2> QED BY <1>1, <2>1, <2>2, <2>3 DEF IsAnswer
<1> QED BY <1>2, <1>3

LEMMA AnswerSent ==
  ASSUME TypeOK, NEW l \in Links, PhoneAnswers(l),
         NEW c, c = Head(asked[l])
  PROVE  /\ c \in Commands /\ wire[l] \in Seq(Lines)
         /\ \E a \in Seq(Lines) : \E f \in Lines :
              /\ wire' = [wire EXCEPT ![l] = wire[l] \o a \o <<f>>]
              /\ IsAnswer(l, c, a, f)
<1>1. c \in Commands /\ wire[l] \in Seq(Lines)
  BY HeadTailProperties DEF PhoneAnswers, TypeOK
<1>2. CASE \E a \in Answers(l, c) :
             wire' = [wire EXCEPT ![l] = wire[l] \o a \o <<OK(c)>>]
  BY <1>1, <1>2, AnswerIs
<1>3. CASE wire' = [wire EXCEPT ![l] =
                      Append(wire[l], Result("ERROR", c, <<>>, <<>>))]
  <2> DEFINE e == Result("ERROR", c, <<>>, <<>>)
  <2>1. e \in Lines /\ e.kind = "ERROR" /\ e.to = c
    BY <1>1, EmptySeq, ResultTyped DEF Result, Kinds
  <2>2. wire' = [wire EXCEPT ![l] = Append(wire[l], e)]
    BY <1>3
  <2> HIDE DEF e
  <2>3. Append(wire[l], e) = wire[l] \o <<>> \o <<e>>
    BY <1>1, <2>1, AppendIsConcat, ConcatEmptySeq
  <2> DEFINE none == <<>>
  <2>4. none \in Seq(Lines) /\ 1 .. Len(none) = {}
    BY EmptySeq
  <2>5. wire' = [wire EXCEPT ![l] = wire[l] \o none \o <<e>>]
    BY <2>2, <2>3
  <2> HIDE DEF none
  <2>6. IsAnswer(l, c, none, e)
    BY <2>1, <2>4 DEF IsAnswer
  <2> QED BY <1>1, <2>1, <2>4, <2>5, <2>6
<1> QED BY <1>2, <1>3 DEF PhoneAnswers

LEMMA AwaitedIs ==
  /\ Awaited["waitingBRSFResponse"] = "BRSF"
  /\ Awaited["waitingCINDTest"] = "CIND=?"
  /\ Awaited["waitingCINDRead"] = "CIND?"
  /\ Awaited["waitingCMER"] = "CMER"
  /\ Awaited["waitingCHLD"] = "CHLD=?"
  /\ \A s \in Waiting : Awaited[s] \in Commands
BY DEF Awaited, Waiting, Commands

\* What handling a line on the open channel does to the negotiation: it stays
\* where it is, an OK moves it on or completes it, or the Apple extension is
\* acknowledged.
Stays(m) ==
  /\ slcState' = slcState
  /\ asked' = asked
  /\ up' = up
  /\ indicatorNames' = IF slcState = "waitingCINDTest"
                             /\ m.kind \in {"names", "values"}
                         THEN m.names ELSE indicatorNames

MovesOn(m) ==
  /\ m.kind = "OK"
  /\ slcState \in Waiting /\ slcState' \in Waiting
  /\ slcState' # "waitingBRSFResponse"
  /\ slcState' = "waitingCINDTest" => slcState = "waitingBRSFResponse"
  /\ slcState' = "waitingCINDRead" => slcState = "waitingCINDTest"
  /\ slcState \notin {"waitingBRSFResponse", "waitingCINDTest"}
       => slcState' \in {"waitingCMER", "waitingCHLD"}
  /\ slcState' \in {"waitingCMER", "waitingCHLD"}
       => slcState \in {"waitingCINDRead", "waitingCMER"}
  /\ asked' = [asked EXCEPT ![rfcommChannel] =
                 Append(@, Awaited[slcState'])]
  /\ up' = up
  /\ indicatorNames' = indicatorNames

Completes(m) ==
  /\ m.kind = "OK"
  /\ slcState \in {"waitingCMER", "waitingCHLD"}
  /\ slcState' = "appleExtensions"
  /\ asked' = [asked EXCEPT ![rfcommChannel] = Append(@, "XAPL")]
  /\ up'
  /\ indicatorNames' = indicatorNames

Acknowledged ==
  /\ slcState = "appleExtensions" /\ slcState' = "slcEstablished"
  /\ asked' = asked
  /\ up' = up
  /\ indicatorNames' = indicatorNames

LEMMA ProcessShape ==
  ASSUME Writable, NEW m, processATResponse(m)
  PROVE  Stays(m) \/ MovesOn(m) \/ Completes(m) \/ Acknowledged
<1>1. CASE OnBRSF(m)
  BY <1>1, AwaitedIs
  DEF OnBRSF, Advance, sendAT, Stays, MovesOn, Waiting
<1>2. CASE OnCINDTest(m)
  BY <1>2, AwaitedIs
  DEF OnCINDTest, Advance, sendAT, Stays, MovesOn, Waiting
<1>3. CASE OnCINDRead(m)
  BY <1>3, AwaitedIs
  DEF OnCINDRead, Advance, sendAT, Stays, MovesOn, Waiting
<1>4. CASE OnCMER(m)
  BY <1>4, AwaitedIs
  DEF OnCMER, Advance, slcCompleted, sendAT, MovesOn, Completes, Waiting
<1>5. CASE OnCHLD(m)
  BY <1>5 DEF OnCHLD, slcCompleted, sendAT, Completes
<1>6. CASE OnXAPL(m)
  BY <1>6 DEF OnXAPL, Acknowledged
<1>7. CASE m.kind = "CIEV" /\ handleCIEV(m)
  BY <1>7 DEF handleCIEV, Stays
<1>8. CASE m.kind = "CLIP" /\ handleIncomingCall
  BY <1>8 DEF handleIncomingCall, Stays
<1>9. CASE /\ ~Handled(m)
           /\ UNCHANGED <<slcState, threeWay, indicatorNames,
                          indicatorValues, keepAlive, up, told, asked>>
  BY <1>9 DEF Handled, Stays
<1> QED
  BY <1>1, <1>2, <1>3, <1>4, <1>5, <1>6, <1>7, <1>8, <1>9
  DEF processATResponse

--------------------------------------------------------------------------
(* One channel at a time, whatever the user sends, however the packets are *)
(* cut and whatever ends the lines.                                        *)

\* When a channel opens there is no other, and nothing is in flight on it.
LEMMA LineAdopt ==
  ASSUME ~Overlap, TypeOK, LineInv, NEW l \in Links,
         rfcommChannelOpened(l) \/ connect(l) \/ rfcommChannelOpenComplete(l)
  PROVE  /\ slcState = "idle"
         /\ \A k \in Links : k # l => link[k] = "closed"
         /\ asked[l] = <<>> /\ wire[l] = <<>> /\ ~reporting[l]
         /\ \A k \in Links : link[k] \notin {"open", "closing", "lost"}
<1>1. link[l] \in {"closed", "opening", "abandoned"}
  BY DEF rfcommChannelOpened, connect, rfcommChannelOpenComplete
<1>2. \A k \in Links : k # l => link[k] = "closed"
  BY DEF LineFree, rfcommChannelOpened, connect,
         rfcommChannelOpenComplete, LineInv
<1>3. slcState = "idle"
  BY <1>1, <1>2 DEF LineInv, TypeOK
<1> QED BY <1>1, <1>2, <1>3 DEF LineInv

\* Data comes on the controller's open channel only.
LEMMA LineReceive ==
  ASSUME TypeOK, LineInv, NEW l \in Links, Receive(l)
  PROVE  /\ l = rfcommChannel /\ Writable /\ link[l] = "open"
         /\ wire[l] \in Seq(Lines) /\ wire[l] # <<>>
         /\ Head(wire[l]) \in Lines
         /\ UNCHANGED <<rfcommChannel, link, phone, reporting>>
         /\ \A k \in Links : k # l => wire'[k] = wire[k]
<1>1. link[l] = "open" /\ wire[l] \in Seq(Lines) /\ wire[l] # <<>>
  BY DEF Receive, ReceiveLine, ReceiveText, ReceiveEnd, ReceiveCRLF, TypeOK
<1>2. Head(wire[l]) \in Lines
  BY <1>1, HeadTailProperties
<1>3. l = rfcommChannel /\ Writable
  BY <1>1, RfcommAssumption DEF LineInv, Writable
<1>4. rfcommChannel' = rfcommChannel
  BY ReceiveShape DEF processATResponse, ctrlVars
<1>5. UNCHANGED <<link, phone, reporting>>
  BY DEF Receive, ReceiveLine, ReceiveText, ReceiveEnd, ReceiveCRLF, phoneVars
<1>6. \A k \in Links : k # l => wire'[k] = wire[k]
  BY DEF Receive, ReceiveLine, ReceiveText, ReceiveEnd, ReceiveCRLF,
         Delivered, TypeOK
<1> QED BY <1>1, <1>2, <1>3, <1>4, <1>5, <1>6

\* It leaves the negotiation where it is, moves it on, completes it, which is
\* told to osm-core, or acknowledges the Apple extension.
LEMMA LineMoves ==
  ASSUME TypeOK, LineInv, NEW l \in Links, Receive(l)
  PROVE  /\ \A k \in Links : k # l => asked'[k] = asked[k]
         /\ \/ slcState' = slcState /\ up' = up
            \/ slcState \in Waiting /\ slcState' \in Waiting /\ up' = up
            \/ slcState \in Waiting /\ slcState' = "appleExtensions" /\ up'
            \/ /\ slcState = "appleExtensions"
               /\ slcState' = "slcEstablished" /\ up' = up
<1>1. l = rfcommChannel /\ Writable /\ asked \in [Links -> Seq(Commands)]
  BY LineReceive DEF TypeOK
<1>2. CASE UNCHANGED <<ctrlVars, asked>>
  BY <1>2 DEF ctrlVars
<1>3. ASSUME NEW m \in Lines, processATResponse(m)
      PROVE  Stays(m) \/ MovesOn(m) \/ Completes(m) \/ Acknowledged
  BY <1>1, <1>3, ProcessShape
<1>4. ASSUME NEW m \in Lines, Stays(m) \/ MovesOn(m) \/ Completes(m)
                                \/ Acknowledged
      PROVE  /\ \A k \in Links : k # l => asked'[k] = asked[k]
             /\ \/ slcState' = slcState /\ up' = up
                \/ slcState \in Waiting /\ slcState' \in Waiting /\ up' = up
                \/ slcState \in Waiting /\ slcState' = "appleExtensions" /\ up'
                \/ /\ slcState = "appleExtensions"
                   /\ slcState' = "slcEstablished" /\ up' = up
  BY <1>1, <1>4 DEF Stays, MovesOn, Completes, Acknowledged, Waiting
<1> QED BY <1>2, <1>3, <1>4, ReceiveShape

\* One channel at a time, and it is the controller's.
LEMMA LineStep ==
  ASSUME ~Overlap
  PROVE  TypeOK /\ LineInv /\ [Next]_vars => LineInv'
<1> SUFFICES ASSUME TypeOK, LineInv, [Next]_vars PROVE LineInv'
  OBVIOUS
<1> USE DEF ctrlVars, phoneVars
<1>t. /\ link \in [Links -> {"closed", "opening", "abandoned", "open",
                       "closing", "lost"}]
      /\ asked \in [Links -> Seq(Commands)]
      /\ wire \in [Links -> Seq(Lines)]
      /\ reporting \in [Links -> BOOLEAN]
      /\ rfcommChannel \in Links \cup {NoLink}
  BY DEF TypeOK
<1>a. ASSUME NEW l \in Links, Adopt(l),
             rfcommChannelOpened(l) \/ rfcommChannelOpenComplete(l)
      PROVE  LineInv'
  <2>1. \A k \in Links : k # l => link[k] = "closed"
    BY <1>a, LineAdopt
  <2> QED BY <1>t, <1>a, <2>1, RfcommAssumption DEF Adopt, LineInv
<1>1. ASSUME NEW l \in Links, connect(l) PROVE LineInv'
  <2>1. /\ \A k \in Links : k # l => link[k] = "closed"
        /\ slcState = "idle"
    BY <1>1, LineAdopt
  <2> QED BY <1>t, <1>1, <2>1 DEF connect, LineInv
<1>2. ASSUME NEW l \in Links, rfcommChannelOpenComplete(l), ~Adopt(l)
      PROVE  LineInv'
  <2>1. slcState = "idle"
    BY <1>2, LineAdopt
  <2> QED BY <1>t, <1>2, <2>1 DEF rfcommChannelOpenComplete, LineInv
<1>3. ASSUME NEW l \in Links, rfcommChannelClosed(l) PROVE LineInv'
  <2>1. \A k \in Links : k # l => link[k] = "closed"
    BY <1>3 DEF rfcommChannelClosed, Dead, LineInv
  <2> QED BY <1>t, <1>3, <2>1 DEF rfcommChannelClosed, Dead, LineInv
\* What stays on the open channel disturbs nothing but its queues.
<1>4. ASSUME NEW l \in Links, link[l] = "open", slcState' # "idle",
             UNCHANGED <<rfcommChannel, link>>,
             \A k \in Links : k # l => /\ asked'[k] = asked[k]
                                      /\ wire'[k] = wire[k]
                                      /\ reporting'[k] = reporting[k]
      PROVE  LineInv'
  BY <1>t, <1>4, RfcommAssumption DEF LineInv
<1>5. ASSUME NEW l \in Links, Receive(l) PROVE LineInv'
  <2>1. /\ link[l] = "open" /\ UNCHANGED <<rfcommChannel, link, reporting>>
        /\ \A k \in Links : k # l => wire'[k] = wire[k]
    BY <1>5, LineReceive
  <2>2. \A k \in Links : k # l => asked'[k] = asked[k]
    BY <1>5, LineMoves
  <2>3. slcState # "idle" /\ slcState' # "idle"
    BY <1>5, <2>1, LineMoves DEF LineInv, Waiting
  <2> QED BY <1>4, <2>1, <2>2, <2>3
<1>6. ASSUME NEW l \in Links,
             \/ PhoneAnswers(l) \/ PhoneRings(l)
             \/ \E n \in Indicators : PhoneChanges(l, n)
      PROVE  LineInv'
  <2>1. /\ link[l] = "open" /\ UNCHANGED <<rfcommChannel, slcState, link>>
        /\ \A k \in Links : k # l => /\ asked'[k] = asked[k]
                                    /\ wire'[k] = wire[k]
                                    /\ reporting'[k] = reporting[k]
    BY <1>t, <1>6 DEF PhoneAnswers, PhoneRings, PhoneChanges
  <2>2. slcState' # "idle"
    BY <2>1 DEF LineInv
  <2> QED BY <1>4, <2>1, <2>2
<1>7. ASSUME NEW l \in Links, LinkLost(l) PROVE LineInv'
  BY <1>t, <1>7 DEF LinkLost, HangUp, LineInv
<1>8. CASE disconnect
  <2>1. rfcommChannel \in Links
    BY <1>t, <1>8 DEF disconnect
  <2> QED BY <1>t, <1>8, <2>1 DEF disconnect, HangUp, LineInv
<1>9. CASE callCommand \/ keepAliveFires
  <2>1. /\ Writable
        /\ \A k \in Links : k # rfcommChannel => asked'[k] = asked[k]
        /\ UNCHANGED <<ctrlVars, link, wire, reporting>>
    BY <1>t, <1>9 DEF callCommand, keepAliveFires, sendAT
  <2> QED BY <1>t, <2>1 DEF LineInv, Writable
<1>10. CASE UNCHANGED vars
  BY <1>10 DEF vars, LineInv
<1> QED
  BY <1>a, <1>1, <1>2, <1>3, <1>5, <1>6, <1>7, <1>8, <1>9, <1>10
  DEF Next, Callback, Environment, rfcommChannelOpened

\* osm-core is told of no connection while one is negotiated.
LEMMA UpStep ==
  ASSUME ~Overlap
  PROVE  TypeOK /\ LineInv /\ UpInv /\ [Next]_vars => UpInv'
<1> SUFFICES ASSUME TypeOK, LineInv, UpInv, [Next]_vars PROVE UpInv'
  OBVIOUS
<1> USE DEF ctrlVars, phoneVars
<1>t. /\ link \in [Links -> {"closed", "opening", "abandoned", "open",
                       "closing", "lost"}]
      /\ rfcommChannel \in Links \cup {NoLink}
      /\ up \in BOOLEAN
  BY DEF TypeOK
<1>u. ASSUME ~up' PROVE UpInv'
  BY <1>u DEF UpInv
<1>1. ASSUME NEW l \in Links,
             rfcommChannelOpened(l) \/ connect(l)
               \/ rfcommChannelOpenComplete(l)
      PROVE  UpInv'
  <2>1. ~up
    BY <1>1, LineAdopt DEF UpInv
  <2>2. up' = up
    BY <1>1 DEF rfcommChannelOpened, connect, rfcommChannelOpenComplete, Adopt
  <2> QED BY <1>u, <2>1, <2>2
<1>2. ASSUME NEW l \in Links, rfcommChannelClosed(l) PROVE UpInv'
  BY <1>u, <1>2 DEF rfcommChannelClosed
<1>3. ASSUME NEW l \in Links, Receive(l) PROVE UpInv'
  <2>1. link[l] = "open" /\ link' = link
    BY <1>3, LineReceive
  <2> QED BY <1>t, <1>3, <2>1, LineMoves DEF UpInv, Waiting
<1>4. CASE disconnect
  <2>1. /\ slcState' = "idle" /\ up' = up
        /\ \A k \in Links : link[k] \in {"open", "closing", "lost"}
                              => link'[k] \in {"open", "closing", "lost"}
    BY <1>t, <1>4 DEF disconnect
  <2> QED BY <2>1 DEF UpInv, Waiting
<1>5. ASSUME NEW l \in Links, LinkLost(l) PROVE UpInv'
  <2>1. /\ slcState' = slcState /\ up' = up
        /\ \A k \in Links : link[k] \in {"open", "closing", "lost"}
                              => link'[k] \in {"open", "closing", "lost"}
    BY <1>t, <1>5 DEF LinkLost
  <2> QED BY <2>1 DEF UpInv
<1>6. CASE UNCHANGED <<slcState, up, link>>
  BY <1>6 DEF UpInv
<1> QED
  BY <1>1, <1>2, <1>3, <1>4, <1>5, <1>6
  DEF Next, Callback, Environment, PhoneAnswers, PhoneChanges, PhoneRings,
      callCommand, keepAliveFires, vars

\* The part of the inductive invariant that one channel at a time gives.
THEOREM LineCorrect ==
  ASSUME ~Overlap PROVE Spec => [](LineInv /\ UpInv)
<1>1. Init => LineInv /\ UpInv
  BY DEF Init, LineInv, UpInv, Waiting
<1>2. TypeOK /\ LineInv /\ UpInv /\ [Next]_vars => (LineInv /\ UpInv)'
  BY LineStep, UpStep
<1> QED BY <1>1, <1>2, TypeCorrect, PTL DEF Spec

\* One channel at a time is enough for osm-core to get one hfp_connected per
\* connection, whatever calls are commanded meanwhile, however the packets
\* are cut and whatever text an earlier phone left in the buffer.
THEOREM ConnectedOnceCorrect ==
  ASSUME ~Overlap PROVE Spec => ConnectedOnce
<1> DEFINE Once == (slcState \in Waiting /\ isConnected') => ~up /\ up'
<1>1. LineInv /\ UpInv /\ TypeOK /\ [Next]_vars => [Once]_vars
  <2> SUFFICES ASSUME LineInv, UpInv, TypeOK, [Next]_vars,
                      slcState \in Waiting, isConnected'
               PROVE  ~up /\ up'
    OBVIOUS
  <2> USE DEF ctrlVars, isConnected, Waiting
  <2>1. ~up
    BY DEF UpInv
  <2>2. ASSUME NEW l \in Links, Receive(l) PROVE up'
    BY <2>2, LineMoves
  <2>3. CASE UNCHANGED slcState
    BY <2>3
  <2> QED
    BY <2>1, <2>2, <2>3
    DEF Next, Callback, Environment, rfcommChannelOpened, connect,
        rfcommChannelOpenComplete, Adopt, rfcommChannelClosed, PhoneAnswers,
        PhoneChanges, PhoneRings, LinkLost, disconnect, callCommand,
        keepAliveFires, vars
<1>2. [Once]_vars =>
        [(slcState \in Waiting /\ isConnected') => ~up /\ up']_vars
  OBVIOUS
<1> QED BY <1>1, <1>2, LineCorrect, TypeCorrect, PTL
        DEF Spec, ConnectedOnce
--------------------------------------------------------------------------
(* An orderly session: one channel at a time, a user who waits for          *)
(* hfp_connected and whole packets, whatever ends the lines.                *)

Orderly == ~Overlap /\ ~EagerUser /\ ~Fragmented

\* A line that is received whole and handled at once.
Whole(l) ==
  /\ atBuffer = <<>> /\ atBuffer' = <<>>
  /\ l \notin Crlf
  /\ processATResponse(Head(wire[l]))
  /\ wire' = [wire EXCEPT ![l] = Tail(wire[l])]

\* Text of a phone of Crlf joins the buffer.
Joins(l) ==
  /\ l \in Crlf
  /\ atBuffer' # <<>>
  /\ atBuffer'[1] = IF atBuffer = <<>> THEN Head(wire[l]) ELSE atBuffer[1]
  /\ wire' = [wire EXCEPT ![l] = Tail(wire[l])]

\* The first line of a phone whose breaks are found ends the text left in the
\* buffer and takes its place, until its own break.
Displaces(l) ==
  /\ l \notin Crlf
  /\ atBuffer # <<>> /\ atBuffer' = <<Head(wire[l])>>
  /\ Head(wire[l]).kind # "end"
  /\ wire' = [wire EXCEPT ![l] = <<EndOfLine>> \o Tail(wire[l])]

Ends(l) ==
  /\ l \notin Crlf
  /\ atBuffer' = <<>>
  /\ wire' = [wire EXCEPT ![l] = Tail(wire[l])]

\* In all but the first case the negotiation is at its start, and stays.
Leftover(l) ==
  /\ slcState = "waitingBRSFResponse"
  /\ UNCHANGED <<rfcommChannel, slcState, asked, up, indicatorNames>>
  /\ (atBuffer # <<>> => atBuffer[1].kind # "CIEV")
       => told' \in {told, "ringing"}
  /\ Joins(l) \/ Displaces(l) \/ Ends(l)

\* Text that is not an OK moves no negotiation that waits for +BRSF.
LEMMA BufferHandled ==
  ASSUME NEW m \in Lines, m.kind # "OK", slcState = "waitingBRSFResponse",
         processATResponse(m)
  PROVE  /\ UNCHANGED <<rfcommChannel, slcState, asked, up, indicatorNames>>
         /\ m.kind # "CIEV" => told' \in {told, "ringing"}
BY DEF processATResponse, Handled, handleCIEV, handleIncomingCall, OnBRSF,
       OnCINDTest, OnCINDRead, OnCMER, OnCHLD, OnXAPL, Waiting

\* In an orderly session a packet is a line that is handled at once, or deals
\* with text of a phone of Crlf.
LEMMA OrderlyReceive ==
  ASSUME Orderly, TypeOK, LineInv, BufferInv, NEW l \in Links, Receive(l)
  PROVE  Whole(l) \/ Leftover(l)
<1>1. /\ l = rfcommChannel /\ link[l] = "open" /\ slcState # "idle"
      /\ wire[l] \in Seq(Lines) /\ wire[l] # <<>> /\ Head(wire[l]) \in Lines
  BY LineReceive DEF LineInv
<1>2. Head(wire[l]) = wire[l][1] /\ 1 \in 1 .. Len(wire[l])
  BY <1>1, HeadTailProperties, EmptySeq, LenProperties
<1>3. ASSUME atBuffer # <<>>
      PROVE  /\ slcState = "waitingBRSFResponse"
             /\ Buffered \in Lines /\ Buffered.kind # "OK"
             /\ Buffered.kind = "CIEV" => atBuffer[1].kind = "CIEV"
  <2>1. atBuffer[1] \in Lines
    BY <1>3 DEF TypeOK
  <2>2. /\ slcState = "waitingBRSFResponse"
        /\ atBuffer[1].kind # "OK"
    BY <1>1, <1>3 DEF BufferInv
  <2>3. /\ Glued(atBuffer[1]) \in Lines
        /\ Glued(atBuffer[1]).kind \notin {"OK", "CIEV"}
    BY <2>1, GluedTyped
  <2> QED BY <2>1, <2>2, <2>3 DEF Buffered
<1>4. ASSUME BreakFound, atBuffer # <<>>
      PROVE  /\ slcState = "waitingBRSFResponse"
             /\ UNCHANGED <<rfcommChannel, slcState, asked, up, indicatorNames>>
             /\ (atBuffer # <<>> => atBuffer[1].kind # "CIEV")
                  => told' \in {told, "ringing"}
  BY <1>3, <1>4, BufferHandled DEF BreakFound
<1>5. CASE ReceiveLine(l)
  BY <1>5 DEF ReceiveLine, Delivered, Whole
<1>6. CASE ReceiveText(l)
  BY <1>4, <1>6 DEF Orderly, ReceiveText, Leftover, Displaces
<1>7. CASE ReceiveEnd(l)
  <2>1. atBuffer # <<>> /\ l \notin Crlf
    BY <1>1, <1>2, <1>7, EmptySeq DEF ReceiveEnd, BufferInv
  <2> QED BY <1>4, <1>7, <2>1 DEF ReceiveEnd, Delivered, Leftover, Ends
<1>8. CASE ReceiveCRLF(l)
  <2>1. slcState = "waitingBRSFResponse"
    BY <1>1, <1>8 DEF ReceiveCRLF, BufferInv
  <2>2. /\ atBuffer' # <<>>
        /\ atBuffer'[1] = IF atBuffer = <<>> THEN Head(wire[l]) ELSE atBuffer[1]
    <3>1. atBuffer \in Seq(Lines) /\ Len(atBuffer) \in Nat
      BY LenProperties DEF TypeOK
    <3>2. /\ Append(atBuffer, Head(wire[l])) \in Seq(Lines)
          /\ Len(Append(atBuffer, Head(wire[l]))) = Len(atBuffer) + 1
          /\ \A i \in 1 .. Len(atBuffer) :
               Append(atBuffer, Head(wire[l]))[i] = atBuffer[i]
          /\ Append(atBuffer, Head(wire[l]))[Len(atBuffer) + 1]
               = Head(wire[l])
      BY <1>1, <3>1, AppendProperties
    <3>3. atBuffer = <<>> <=> Len(atBuffer) = 0
      BY <3>1, EmptySeq
    <3>4. CASE Len(atBuffer) < 2
      <4>1. atBuffer' = Append(atBuffer, Head(wire[l]))
        BY <1>8, <3>4 DEF ReceiveCRLF
      <4>2. atBuffer' # <<>>
        <5>1. Len(atBuffer') # 0
          BY <3>1, <3>2, <4>1
        <5> QED BY <5>1, EmptySeq
      <4> QED BY <3>1, <3>2, <3>3, <4>1, <4>2
    <3>5. CASE ~(Len(atBuffer) < 2)
      BY <1>8, <3>1, <3>3, <3>5 DEF ReceiveCRLF
    <3> QED BY <3>4, <3>5
  <2> QED BY <1>8, <2>1, <2>2
          DEF ReceiveCRLF, Delivered, ctrlVars, Leftover, Joins
<1> QED BY <1>5, <1>6, <1>7, <1>8 DEF Receive

\* The kinds of the lines that stay on the way.
LEMMA TailOf ==
  ASSUME NEW in \in Seq(Lines), in # <<>>
  PROVE  /\ 1 \in 1 .. Len(in) /\ Head(in) = in[1]
         /\ \A i \in 1 .. Len(Tail(in)) :
              \E j \in 1 .. Len(in) : j # 1 /\ Tail(in)[i] = in[j]
         /\ \A i \in 1 .. Len(<<EndOfLine>> \o Tail(in)) :
              \/ i = 1 /\ (<<EndOfLine>> \o Tail(in))[i] = EndOfLine
              \/ \E j \in 1 .. Len(in) :
                   j # 1 /\ (<<EndOfLine>> \o Tail(in))[i] = in[j]
         /\ (<<EndOfLine>> \o Tail(in))[1] = EndOfLine
<1>1. /\ Len(in) \in Nat /\ 1 \in 1 .. Len(in) /\ Head(in) = in[1]
      /\ Len(Tail(in)) = Len(in) - 1
      /\ \A i \in 1 .. Len(Tail(in)) : Tail(in)[i] = in[i + 1]
  BY HeadTailProperties, LenProperties, EmptySeq
<1>2. \A i \in 1 .. Len(Tail(in)) : i + 1 \in 1 .. Len(in) /\ i + 1 # 1
  BY <1>1
<1>3. \A i \in 1 .. Len(Tail(in)) :
        \E j \in 1 .. Len(in) : j # 1 /\ Tail(in)[i] = in[j]
  BY <1>1, <1>2
<1> DEFINE r == <<EndOfLine>> \o Tail(in)
<1>4. /\ Len(r) = Len(in) /\ r[1] = EndOfLine
      /\ \A i \in 1 .. Len(in) : i # 1 => r[i] = in[i]
  BY MarkedIs
<1> HIDE DEF r
<1>5. \A i \in 1 .. Len(r) :
        \/ i = 1 /\ r[i] = EndOfLine
        \/ \E j \in 1 .. Len(in) : j # 1 /\ r[i] = in[j]
  BY <1>4
<1> QED BY <1>1, <1>3, <1>4, <1>5 DEF r

\* BufferInv, of one channel.
BreaksOf(l) ==
  link[l] = "open" =>
    /\ l \in Crlf => slcState = "waitingBRSFResponse"
    /\ \A i \in 1 .. Len(wire[l]) :
         wire[l][i].kind = "end" =>
           i = 1 /\ Len(atBuffer) = 1 /\ l \notin Crlf
    /\ wire[l] # <<>> /\ (atBuffer = <<>> <=> l \in Crlf)
         => wire[l][1].kind # "OK"

\* Text left in the buffer is gone before the negotiation leaves its first
\* state, and can not end it.
LEMMA BufferStep ==
  ASSUME Orderly
  PROVE  TypeOK /\ LineInv /\ BufferInv /\ FlightInv /\ [Next]_vars
           => BufferInv'
<1> SUFFICES ASSUME TypeOK, LineInv, BufferInv, FlightInv, [Next]_vars
             PROVE  BufferInv'
  OBVIOUS
<1> USE DEF ctrlVars, phoneVars
<1>t. /\ link \in [Links -> {"closed", "opening", "abandoned", "open",
                       "closing", "lost"}]
      /\ wire \in [Links -> Seq(Lines)]
  BY DEF TypeOK
<1>i. /\ atBuffer # <<>> => /\ slcState \in {"idle", "waitingBRSFResponse"}
                            /\ atBuffer[1].kind \notin {"OK", "end"}
      /\ \A k \in Links : BreaksOf(k)
  BY DEF BufferInv, BreaksOf
<1>b. ASSUME atBuffer' # <<>> =>
               /\ slcState' \in {"idle", "waitingBRSFResponse"}
               /\ atBuffer'[1].kind \notin {"OK", "end"},
             \A k \in Links : BreaksOf(k)'
      PROVE  BufferInv'
  BY <1>b DEF BufferInv, BreaksOf
\* The buffer stays, and every channel that stays open is as it was.
<1>u. ASSUME UNCHANGED atBuffer,
             slcState' \in {slcState, "idle", "waitingBRSFResponse"},
             \A k \in Links : link'[k] = "open" => BreaksOf(k)'
      PROVE  BufferInv'
  BY <1>b, <1>i, <1>u DEF BreaksOf
<1>1. ASSUME NEW l \in Links,
             rfcommChannelOpened(l) \/ connect(l)
               \/ rfcommChannelOpenComplete(l)
      PROVE  BufferInv'
  <2>1. /\ \A k \in Links : k # l => link[k] = "closed"
        /\ wire[l] = <<>>
    BY <1>1, LineAdopt DEF Orderly
  <2>2. /\ UNCHANGED <<atBuffer, wire>>
        /\ slcState' \in {slcState, "waitingBRSFResponse"}
        /\ \A k \in Links : k # l => link'[k] = link[k]
        /\ link'[l] = "open" => slcState' = "waitingBRSFResponse"
    BY <1>t, <1>1
    DEF rfcommChannelOpened, connect, rfcommChannelOpenComplete, Adopt
  <2>3. 1 .. Len(wire'[l]) = {}
    BY <2>1, <2>2, EmptySeq
  <2>4. BreaksOf(l)'
    BY <2>1, <2>2, <2>3 DEF BreaksOf
  <2> QED BY <1>u, <2>1, <2>2, <2>4
<1>2. ASSUME NEW l \in Links, rfcommChannelClosed(l) PROVE BufferInv'
  <2>1. \A k \in Links : link'[k] = "closed"
    BY <1>t, <1>2 DEF rfcommChannelClosed, Dead, LineInv
  <2> QED BY <1>2, <1>u, <2>1 DEF rfcommChannelClosed
<1>3. CASE disconnect
  <2>1. \A k \in Links : link'[k] # "open"
    BY <1>t, <1>3 DEF disconnect, LineInv
  <2> QED BY <1>3, <1>u, <2>1 DEF disconnect
<1>4. ASSUME NEW l \in Links, LinkLost(l) PROVE BufferInv'
  <2>1. \A k \in Links : link'[k] # "open"
    BY <1>t, <1>4 DEF LinkLost, LineInv
  <2> QED BY <1>4, <1>u, <2>1 DEF LinkLost
<1>5. CASE UNCHANGED <<atBuffer, slcState, link, wire>>
  BY <1>5, <1>i, <1>u DEF BreaksOf
\* What is received.
<1>6. ASSUME NEW l \in Links, Receive(l) PROVE BufferInv'
  <2>1. /\ link[l] = "open" /\ link' = link
        /\ wire[l] \in Seq(Lines) /\ wire[l] # <<>>
        /\ \A k \in Links : k # l => link'[k] # "open"
    BY <1>t, <1>6, LineReceive DEF LineInv
  <2>2. BreaksOf(l)
    BY <1>i
  <2>3. /\ 1 \in 1 .. Len(wire[l]) /\ Head(wire[l]) = wire[l][1]
        /\ \A i \in 1 .. Len(Tail(wire[l])) : Tail(wire[l])[i].kind # "end"
    BY <2>1, <2>2, TailOf DEF BreaksOf
  <2>o. BreaksOf(l)' => \A k \in Links : BreaksOf(k)'
    BY <2>1 DEF BreaksOf
  <2>4. CASE Whole(l)
    <3>1. wire'[l] = Tail(wire[l]) /\ atBuffer' = <<>> /\ l \notin Crlf
      BY <1>t, <2>4 DEF Whole
    <3>2. BreaksOf(l)'
      BY <2>3, <3>1 DEF BreaksOf
    <3> QED BY <1>b, <2>o, <3>1, <3>2
  <2>5. CASE Leftover(l) /\ Joins(l)
    <3>1. /\ wire'[l] = Tail(wire[l]) /\ atBuffer' # <<>> /\ l \in Crlf
          /\ slcState' = "waitingBRSFResponse"
          /\ atBuffer'[1] = IF atBuffer = <<>> THEN Head(wire[l])
                                               ELSE atBuffer[1]
      BY <1>t, <2>5 DEF Leftover, Joins
    <3>2. BreaksOf(l)'
      BY <2>3, <3>1 DEF BreaksOf
    <3>3. atBuffer'[1].kind \notin {"OK", "end"}
      BY <1>i, <2>1, <2>2, <2>3, <3>1 DEF BreaksOf
    <3> QED BY <1>b, <2>o, <3>1, <3>2, <3>3
  <2>6. CASE Leftover(l) /\ Displaces(l)
    <3>1. /\ wire'[l] = <<EndOfLine>> \o Tail(wire[l])
          /\ atBuffer # <<>> /\ atBuffer' = <<Head(wire[l])>> /\ l \notin Crlf
          /\ slcState' = "waitingBRSFResponse"
          /\ Head(wire[l]).kind # "end"
      BY <1>t, <2>6 DEF Leftover, Displaces
    <3>2. /\ \A i \in 1 .. Len(wire'[l]) : wire'[l][i].kind = "end" => i = 1
          /\ wire'[l][1].kind = "end"
      BY <2>1, <2>2, <3>1, TailOf DEF BreaksOf, EndOfLine
    <3>3. Len(atBuffer') = 1 /\ atBuffer'[1] = Head(wire[l])
      BY <3>1
    <3>4. BreaksOf(l)'
      BY <3>1, <3>2, <3>3 DEF BreaksOf
    <3>5. atBuffer'[1].kind \notin {"OK", "end"}
      BY <2>1, <2>2, <2>3, <3>1, <3>3 DEF BreaksOf
    <3> QED BY <1>b, <2>o, <3>1, <3>4, <3>5
  <2>7. CASE Leftover(l) /\ Ends(l)
    <3>1. wire'[l] = Tail(wire[l]) /\ atBuffer' = <<>> /\ l \notin Crlf
      BY <1>t, <2>7 DEF Ends
    <3>2. BreaksOf(l)'
      BY <2>3, <3>1 DEF BreaksOf
    <3> QED BY <1>b, <2>o, <3>1, <3>2
  <2> QED BY <1>6, <2>4, <2>5, <2>6, <2>7, OrderlyReceive DEF Leftover
\* What the phone sends goes to the end, and its first line is no OK.
<1>7. ASSUME NEW l \in Links, link[l] = "open",
             UNCHANGED <<atBuffer, slcState, link>>,
             \A i \in 1 .. Len(wire'[l]) :
               (i \in 1 .. Len(wire[l]) /\ wire'[l][i] = wire[l][i])
                 \/ wire'[l][i].kind # "end",
             wire[l] # <<>> => wire'[l][1] = wire[l][1],
             wire[l] = <<>> /\ slcState = "waitingBRSFResponse"
               /\ wire'[l] # <<>> => wire'[l][1].kind # "OK"
      PROVE  BufferInv'
  <2>1. /\ BreaksOf(l) /\ slcState # "idle"
        /\ \A k \in Links : k # l => link'[k] # "open"
    BY <1>t, <1>i, <1>7 DEF LineInv
  <2>2. (atBuffer = <<>> <=> l \in Crlf) => slcState = "waitingBRSFResponse"
    BY <1>i, <1>7, <2>1 DEF BreaksOf
  <2>3. BreaksOf(l)'
    BY <1>7, <2>1, <2>2 DEF BreaksOf
  <2> QED BY <1>7, <1>u, <2>1, <2>3
<1>8. ASSUME NEW l \in Links, PhoneAnswers(l) PROVE BufferInv'
  <2> DEFINE c == Head(asked[l])
  <2>1. /\ link[l] = "open" /\ asked[l] # <<>> /\ wire[l] \in Seq(Lines)
        /\ l = rfcommChannel /\ UNCHANGED <<atBuffer, slcState, link>>
    BY <1>t, <1>8 DEF PhoneAnswers, LineInv
  <2>2. PICK a \in Seq(Lines), f \in Lines :
          /\ wire' = [wire EXCEPT ![l] = wire[l] \o a \o <<f>>]
          /\ IsAnswer(l, c, a, f)
    BY <1>8, AnswerSent
  <2> DEFINE r == wire[l] \o a \o <<f>>
  <2>3. /\ Len(r) = Len(wire[l]) + Len(a) + 1
        /\ \A i \in 1 .. Len(wire[l]) : i \in 1 .. Len(r) /\ r[i] = wire[l][i]
        /\ \A i \in 1 .. Len(r) :
             \/ i \in 1 .. Len(wire[l]) /\ r[i] = wire[l][i]
             \/ \E k \in 1 .. Len(a) : i = Len(wire[l]) + k /\ r[i] = a[k]
             \/ i = Len(r) /\ r[i] = f
    <3>1. wire[l] \in Seq(Lines)
      BY <2>1
    <3> QED BY <2>2, <3>1, Answered
  <2>4. wire'[l] = r
    BY <1>t, <2>2
  <2> HIDE DEF r
  <2>5. Len(wire[l]) \in Nat /\ Len(a) \in Nat
    BY <2>1, LenProperties
  <2>6. \A i \in 1 .. Len(r) : \/ i \in 1 .. Len(wire[l]) /\ r[i] = wire[l][i]
                               \/ r[i].kind # "end"
    BY <2>2, <2>3 DEF IsAnswer
  <2>7. wire[l] # <<>> => r[1] = wire[l][1]
    <3>1. wire[l] # <<>> => 1 \in 1 .. Len(wire[l])
      BY <2>1, <2>5, EmptySeq
    <3> QED BY <2>3, <3>1
  <2>8. ASSUME wire[l] = <<>>, slcState = "waitingBRSFResponse"
        PROVE  r[1].kind # "OK"
    <3>1. c = "BRSF"
      <4>1. Flight("BRSF", asked[l], wire[l])
        BY <2>1, <2>8, AwaitedIs DEF FlightInv, Waiting
      <4>2. asked[l] = <<"BRSF">>
        BY <2>1, <4>1 DEF Flight
      <4> QED BY <4>2
    <3>2. Len(wire[l]) = 0
      BY <2>8, EmptySeq
    <3>3. 1 \in 1 .. Len(r) /\ (1 = Len(r) => Len(a) = 0)
      BY <2>3, <2>5, <3>2
    <3>4. \/ \E k \in 1 .. Len(a) : r[1] = a[k]
          \/ Len(a) = 0 /\ r[1] = f
      BY <2>3, <3>2, <3>3
    <3>5. \A k \in 1 .. Len(a) : a[k].kind # "OK"
      BY <2>2 DEF IsAnswer
    <3>6. Len(a) = 0 => f.kind # "OK"
      BY <2>2, <3>1 DEF IsAnswer
    <3> QED BY <3>4, <3>5, <3>6
  <2> QED BY <1>7, <2>1, <2>4, <2>6, <2>7, <2>8
<1>9. ASSUME NEW l \in Links, link[l] = "open",
             UNCHANGED <<atBuffer, slcState, link>>,
             NEW m \in Lines, m.kind \in {"CIEV", "CLIP"},
             wire' = wire \/ wire' = [wire EXCEPT ![l] = Append(@, m)]
      PROVE  BufferInv'
  <2>1. /\ wire[l] \in Seq(Lines) /\ Len(wire[l]) \in Nat
        /\ wire[l] = <<>> <=> Len(wire[l]) = 0
    BY <1>t, LenProperties, EmptySeq
  <2>2. /\ Len(Append(wire[l], m)) = Len(wire[l]) + 1
        /\ \A i \in 1 .. Len(wire[l]) : Append(wire[l], m)[i] = wire[l][i]
        /\ Append(wire[l], m)[Len(wire[l]) + 1] = m
    BY <2>1, AppendProperties
  <2>3. CASE wire' = [wire EXCEPT ![l] = Append(@, m)]
    <3>1. wire'[l] = Append(wire[l], m)
      BY <1>t, <2>3
    <3> QED BY <1>7, <1>9, <2>1, <2>2, <3>1
  <2> QED BY <1>5, <1>9, <2>3
<1>10. ASSUME NEW l \in Links, NEW n \in Indicators, PhoneChanges(l, n)
       PROVE  BufferInv'
  BY <1>9, <1>10, ReportTyped DEF PhoneChanges, Report, Result
<1>11. ASSUME NEW l \in Links, PhoneRings(l) PROVE BufferInv'
  BY <1>9, <1>11, RingTyped DEF PhoneRings, Result
<1> QED
  BY <1>1, <1>2, <1>3, <1>4, <1>5, <1>6, <1>8, <1>10, <1>11
  DEF Next, Callback, Environment, callCommand, keepAliveFires, vars

\* In a negotiation the open channel holds one command or its answer.
LEMMA FlightStep ==
  ASSUME Orderly
  PROVE  TypeOK /\ LineInv /\ BufferInv /\ FlightInv /\ [Next]_vars
           => FlightInv'
<1> SUFFICES ASSUME TypeOK, LineInv, BufferInv, FlightInv, [Next]_vars
             PROVE  FlightInv'
  OBVIOUS
<1> USE DEF ctrlVars, phoneVars
<1>t. /\ asked \in [Links -> Seq(Commands)]
      /\ wire \in [Links -> Seq(Lines)]
      /\ \A s \in Waiting : Awaited[s] \in Commands
  BY AwaitedIs DEF TypeOK
<1>o. /\ \A l \in Links : link[l] = "open" => l = rfcommChannel
      /\ slcState \in Waiting => rfcommChannel \in Links
  BY RfcommAssumption DEF LineInv, TypeOK, Waiting
<1>i. ASSUME slcState' \notin Waiting PROVE FlightInv'
  BY <1>i DEF FlightInv
<1>a. ASSUME NEW l \in Links, Adopt(l),
             rfcommChannelOpened(l) \/ rfcommChannelOpenComplete(l)
      PROVE  FlightInv'
  <2>1. asked[l] = <<>> /\ wire[l] = <<>>
    BY <1>a, LineAdopt DEF Orderly
  <2>2. /\ asked'[l] = <<"BRSF">> /\ wire'[l] = <<>> /\ rfcommChannel' = l
        /\ slcState' = "waitingBRSFResponse"
    BY <1>t, <1>a, <2>1 DEF Adopt
  <2>3. 1 .. Len(<<>>) = {}
    BY EmptySeq
  <2> QED BY <2>2, <2>3, AwaitedIs DEF FlightInv, Flight
<1>1. ASSUME NEW l \in Links,
             connect(l) \/ (rfcommChannelOpenComplete(l) /\ ~Adopt(l))
      PROVE  FlightInv'
  <2>1. slcState = "idle" /\ slcState' = slcState
    BY <1>1, LineAdopt DEF Orderly, connect, rfcommChannelOpenComplete
  <2> QED BY <1>i, <2>1 DEF Waiting
<1>2. ASSUME disconnect \/ \E l \in Links : rfcommChannelClosed(l)
      PROVE  FlightInv'
  BY <1>i, <1>2 DEF Waiting, disconnect, rfcommChannelClosed
<1>3. ASSUME NEW l \in Links, Receive(l), Whole(l) PROVE FlightInv'
  <2> DEFINE m == Head(wire[l])
  <2>1. /\ l = rfcommChannel /\ Writable
        /\ wire[l] \in Seq(Lines) /\ wire[l] # <<>>
        /\ processATResponse(m)
        /\ wire' = [wire EXCEPT ![l] = Tail(wire[l])]
    BY <1>3, LineReceive DEF Whole
  <2>2. rfcommChannel' = l /\ wire'[l] = Tail(wire[l])
    BY <1>t, <2>1 DEF processATResponse
  <2>3. CASE Stays(m)
    <3> SUFFICES ASSUME slcState \in Waiting
                 PROVE  Flight(Awaited[slcState], asked[l], Tail(wire[l]))
      BY <2>2, <2>3 DEF FlightInv, Stays
    <3> QED BY <1>t, <2>1, FlightTail DEF FlightInv
  <2>4. CASE MovesOn(m)
    <3>1. /\ m.kind = "OK" /\ slcState \in Waiting /\ slcState' \in Waiting
          /\ asked' = [asked EXCEPT ![l] = Append(@, Awaited[slcState'])]
      BY <2>1, <2>4 DEF MovesOn
    <3>2. Flight(Awaited[slcState], asked[l], wire[l])
      BY <2>1, <3>1 DEF FlightInv
    <3>3. /\ asked[l] = <<>>
          /\ Flight(Awaited[slcState'], <<Awaited[slcState']>>, Tail(wire[l]))
      BY <1>t, <2>1, <3>1, <3>2, FlightNext
    <3>4. asked'[l] = <<Awaited[slcState']>>
      BY <1>t, <3>1, <3>3
    <3> QED BY <2>2, <3>3, <3>4 DEF FlightInv
  <2>5. CASE Completes(m) \/ Acknowledged
    BY <1>i, <2>5 DEF Completes, Acknowledged, Waiting
  <2> QED BY <2>1, <2>3, <2>4, <2>5, ProcessShape
<1>4. ASSUME NEW l \in Links, PhoneAnswers(l), slcState \in Waiting
      PROVE  FlightInv'
  <2> DEFINE c == Awaited[slcState]
  <2>1. /\ l = rfcommChannel /\ slcState' = slcState
        /\ rfcommChannel' = rfcommChannel
        /\ asked[l] # <<>> /\ asked' = [asked EXCEPT ![l] = Tail(@)]
    BY <1>o, <1>4 DEF PhoneAnswers
  <2>2. Flight(c, asked[l], wire[l]) /\ asked[l] = <<c>>
    BY <1>4, <2>1 DEF FlightInv, Flight
  <2>3. Head(asked[l]) = c /\ Tail(asked[l]) = <<>>
    BY <2>2
  <2>4. PICK a \in Seq(Lines), f \in Lines :
          /\ wire' = [wire EXCEPT ![l] = wire[l] \o a \o <<f>>]
          /\ IsAnswer(l, c, a, f)
    BY <1>4, <2>3, AnswerSent
  <2>5. /\ f.to = c
        /\ \A i \in 1 .. Len(a) : a[i].to = c /\ ~Final(a[i])
    BY <2>4 DEF IsAnswer, Final
  <2>6. c \in Commands /\ wire[l] \in Seq(Lines)
    BY <1>t, <1>4
  <2>7. asked'[l] = <<>> /\ wire'[l] = wire[l] \o a \o <<f>>
    BY <1>t, <2>1, <2>3, <2>4
  <2> HIDE DEF c
  <2>8. Flight(c, <<>>, wire[l] \o a \o <<f>>)
    BY <2>2, <2>5, <2>6, FlightAnswer
  <2> QED BY <2>1, <2>7, <2>8 DEF FlightInv, c
<1>5. ASSUME NEW l \in Links, NEW m \in Lines, m.to = "none",
             m.kind \in {"CIEV", "CLIP"}, link[l] = "open",
             \/ wire' = [wire EXCEPT ![l] = Append(@, m)]
             \/ wire' = wire,
             UNCHANGED <<ctrlVars, asked>>, slcState \in Waiting
      PROVE  FlightInv'
  <2> DEFINE c == Awaited[slcState]
  <2>1. /\ l = rfcommChannel /\ Flight(c, asked[l], wire[l])
        /\ c \in Commands /\ wire[l] \in Seq(Lines)
    BY <1>t, <1>o, <1>5 DEF FlightInv
  <2> HIDE DEF c
  <2>2. Flight(c, asked[l], Append(wire[l], m))
    BY <1>5, <2>1, FlightAppend
  <2>3. wire'[l] \in {wire[l], Append(wire[l], m)}
    BY <1>t, <1>5
  <2> QED BY <1>5, <2>1, <2>2, <2>3 DEF FlightInv, c
<1>6. ASSUME NEW l \in Links, LinkLost(l), slcState \in Waiting
      PROVE  FlightInv'
  <2>1. /\ l = rfcommChannel /\ asked'[l] = <<>> /\ wire'[l] = <<>>
        /\ UNCHANGED <<slcState, rfcommChannel>>
    BY <1>t, <1>o, <1>6 DEF LinkLost, HangUp
  <2>2. 1 .. Len(<<>>) = {}
    BY EmptySeq
  <2> QED BY <2>1, <2>2 DEF FlightInv, Flight
<1>7. CASE callCommand \/ keepAliveFires
  BY <1>i, <1>7
  DEF Orderly, callCommand, keepAliveFires, isConnected, Waiting
<1>8. CASE UNCHANGED vars
  BY <1>8 DEF vars, FlightInv
<1>9. ASSUME NEW l \in Links, NEW n \in Indicators, PhoneChanges(l, n)
      PROVE  FlightInv'
  <2>1. slcState' = slcState
    BY <1>9 DEF PhoneChanges
  <2> QED BY <1>5, <1>9, <1>i, <2>1, ReportTyped
          DEF PhoneChanges, Report, Result
<1>10. ASSUME NEW l \in Links, PhoneRings(l) PROVE FlightInv'
  <2>1. slcState' = slcState
    BY <1>10 DEF PhoneRings
  <2> QED BY <1>5, <1>10, <1>i, <2>1, RingTyped DEF PhoneRings, Result
<1>11. ASSUME NEW l \in Links, PhoneAnswers(l) \/ LinkLost(l)
       PROVE  FlightInv'
  <2>1. slcState' = slcState
    BY <1>11 DEF PhoneAnswers, LinkLost
  <2> QED BY <1>4, <1>6, <1>11, <1>i, <2>1
<1>12. ASSUME NEW l \in Links, Receive(l), Leftover(l) PROVE FlightInv'
  <2>1. /\ l = rfcommChannel /\ wire[l] \in Seq(Lines) /\ wire[l] # <<>>
        /\ UNCHANGED <<slcState, rfcommChannel, asked>>
    BY <1>12, LineReceive DEF Leftover
  <2>2. slcState \in Waiting /\ Awaited[slcState] \in Commands
    BY <1>t, <1>12 DEF Leftover, Waiting
  <2>3. Flight(Awaited[slcState], asked[l], wire[l])
    BY <2>1, <2>2 DEF FlightInv
  <2>4. wire'[l] \in {Tail(wire[l]), <<EndOfLine>> \o Tail(wire[l])}
    BY <1>t, <1>12 DEF Leftover, Joins, Displaces, Ends
  <2>5. Flight(Awaited[slcState], asked[l], wire'[l])
    BY <2>1, <2>2, <2>3, <2>4, FlightTail, FlightMarked
  <2> QED BY <2>1, <2>5 DEF FlightInv
<1>13. ASSUME NEW l \in Links, Receive(l) PROVE FlightInv'
  BY <1>3, <1>12, <1>13, OrderlyReceive
<1> QED
  BY <1>a, <1>1, <1>2, <1>7, <1>8, <1>9, <1>10, <1>11, <1>13
  DEF Next, Callback, Environment, rfcommChannelOpened

\* The names on the way, as a line is delivered, answered or added.
LEMMA NamesTail ==
  ASSUME NEW known, NEW l \in Links, NEW in \in Seq(Lines), in # <<>>,
         NamesComing(known, l, in), NEW m, m = Head(in)
  PROVE  /\ m.kind = "OK" => known = Layout[l]
         /\ m.kind \in {"names", "values"} =>
              NamesComing(m.names, l, Tail(in))
         /\ m.kind \notin {"names", "values"} =>
              NamesComing(known, l, Tail(in))
<1> DEFINE t == Tail(in)
<1>1. /\ Len(in) \in Nat /\ 1 \in 1 .. Len(in) /\ m = in[1]
      /\ Len(t) = Len(in) - 1
      /\ \A i \in 1 .. Len(t) : t[i] = in[i + 1]
  BY HeadTailProperties, LenProperties, EmptySeq
<1> HIDE DEF t
<1>2. \A i \in 1 .. Len(t) : i + 1 \in 1 .. Len(in)
  BY <1>1
<1>3. m.kind = "OK" => known = Layout[l]
  BY <1>1 DEF NamesComing
<1>4. ASSUME m.kind \in {"names", "values"}
      PROVE  NamesComing(m.names, l, t)
  <2>1. m.names = Layout[l]
    BY <1>1, <1>4 DEF NamesComing
  <2> QED BY <1>1, <1>2, <2>1 DEF NamesComing
<1>5. ASSUME m.kind \notin {"names", "values"}
      PROVE  NamesComing(known, l, t)
  <2>1. ASSUME NEW i \in 1 .. Len(t), t[i].kind = "OK", known # Layout[l]
        PROVE  \E j \in 1 .. Len(t) : j < i /\ t[j].kind = "names"
    <3>1. in[i + 1].kind = "OK" /\ i + 1 \in 1 .. Len(in)
      BY <1>1, <1>2, <2>1
    <3>2. PICK j \in 1 .. Len(in) : j < i + 1 /\ in[j].kind = "names"
      BY <2>1, <3>1 DEF NamesComing
    <3>3. j # 1
      BY <1>1, <1>5, <3>2
    <3>4. j - 1 \in 1 .. Len(t) /\ j - 1 < i /\ j - 1 + 1 = j
      BY <1>1, <3>2, <3>3
    <3> QED BY <1>1, <3>2, <3>4
  <2> QED BY <1>1, <1>2, <2>1 DEF NamesComing
<1> QED BY <1>3, <1>4, <1>5 DEF t

LEMMA NamesAppend ==
  ASSUME NEW known, NEW l \in Links, NEW in \in Seq(Lines),
         NamesComing(known, l, in), NEW m \in Lines, m.kind \in {"CIEV", "CLIP"}
  PROVE  NamesComing(known, l, Append(in, m))
<1>1. /\ Len(in) \in Nat
      /\ Len(Append(in, m)) = Len(in) + 1
      /\ \A i \in 1 .. Len(in) : Append(in, m)[i] = in[i]
      /\ Append(in, m)[Len(in) + 1] = m
  BY AppendProperties, LenProperties
<1>2. \A i \in 1 .. Len(in) + 1 : i \in 1 .. Len(in) \/ i = Len(in) + 1
  BY <1>1
<1>3. \A i \in 1 .. Len(in) : i \in 1 .. Len(in) + 1
  BY <1>1
<1> QED BY <1>1, <1>2, <1>3 DEF NamesComing

LEMMA NamesAnswer ==
  ASSUME NEW known, NEW l \in Links, NEW in \in Seq(Lines),
         Flight("CIND=?", <<"CIND=?">>, in),
         NEW a \in Seq(Lines), NEW f \in Lines, IsAnswer(l, "CIND=?", a, f)
  PROVE  NamesComing(known, l, in \o a \o <<f>>)
<1> DEFINE r == in \o a \o <<f>>
<1>1. /\ Len(r) = Len(in) + Len(a) + 1
      /\ \A k \in 1 .. Len(a) : /\ Len(in) + k \in 1 .. Len(r)
                                /\ Len(in) + k < Len(r)
                                /\ r[Len(in) + k] = a[k]
      /\ \A i \in 1 .. Len(r) :
           \/ i \in 1 .. Len(in) /\ r[i] = in[i]
           \/ \E k \in 1 .. Len(a) : i = Len(in) + k /\ r[i] = a[k]
           \/ i = Len(r) /\ r[i] = f
  BY Answered
<1> HIDE DEF r
<1>2. \A i \in 1 .. Len(in) : in[i].kind \in {"CIEV", "CLIP", "end"}
  BY DEF Flight
<1>3. \A k \in 1 .. Len(a) :
        /\ a[k].kind \in {"BRSF", "names", "CHLD", "XAPL"}
        /\ a[k].kind = "names" => a[k].names = Layout[l]
  BY DEF IsAnswer
<1>4. \A i \in 1 .. Len(r) :
        /\ r[i].kind = "names" => r[i].names = Layout[l]
        /\ r[i].kind # "values"
        /\ r[i].kind = "OK" => i = Len(r) /\ f.kind = "OK"
  <2>1. f.kind \in {"OK", "ERROR"}
    BY DEF IsAnswer
  <2> SUFFICES ASSUME NEW i \in 1 .. Len(r)
               PROVE  /\ r[i].kind = "names" => r[i].names = Layout[l]
                      /\ r[i].kind # "values"
                      /\ r[i].kind = "OK" => i = Len(r) /\ f.kind = "OK"
    OBVIOUS
  <2>2. CASE i \in 1 .. Len(in) /\ r[i] = in[i]
    BY <1>2, <2>2
  <2>3. CASE \E k \in 1 .. Len(a) : r[i] = a[k]
    BY <1>3, <2>3
  <2>4. CASE i = Len(r) /\ r[i] = f
    BY <2>1, <2>4
  <2> QED BY <1>1, <2>2, <2>3, <2>4
<1>5. f.kind = "OK" =>
        \E j \in 1 .. Len(r) : j < Len(r) /\ r[j].kind = "names"
  <2> SUFFICES ASSUME f.kind = "OK"
               PROVE  \E j \in 1 .. Len(r) : j < Len(r) /\ r[j].kind = "names"
    OBVIOUS
  <2>1. Len(a) = 1 /\ a[1].kind = "names"
    BY DEF IsAnswer
  <2>2. 1 \in 1 .. Len(a)
    BY <2>1
  <2> QED BY <1>1, <2>1, <2>2
<1>6. NamesComing(known, l, r)
  BY <1>4, <1>5 DEF NamesComing
<1> QED BY <1>6 DEF r

\* The controller holds the names of the phone at the other end once it has
\* read them.
LEMMA NamesStep ==
  ASSUME Orderly
  PROVE  TypeOK /\ LineInv /\ BufferInv /\ FlightInv /\ NamesInv
           /\ [Next]_vars => NamesInv'
<1> SUFFICES ASSUME TypeOK, LineInv, BufferInv, FlightInv, NamesInv,
                    [Next]_vars
             PROVE  NamesInv'
  OBVIOUS
<1> USE DEF ctrlVars, phoneVars
<1>t. wire \in [Links -> Seq(Lines)]
  BY DEF TypeOK
<1>o. /\ \A l \in Links : link[l] = "open" => l = rfcommChannel
      /\ slcState # "idle" => rfcommChannel \in Links
  BY RfcommAssumption DEF LineInv, TypeOK
<1>i. ASSUME slcState' \in {"idle", "waitingBRSFResponse"} PROVE NamesInv'
  BY <1>i DEF NamesInv, NamesOfThisPhone
<1>u. ASSUME UNCHANGED <<slcState, rfcommChannel, indicatorNames>>,
             slcState = "waitingCINDTest" =>
               NamesComing(indicatorNames, rfcommChannel,
                           wire'[rfcommChannel])
      PROVE  NamesInv'
  BY <1>u DEF NamesInv, NamesOfThisPhone
<1>1. ASSUME NEW l \in Links,
             rfcommChannelOpened(l) \/ connect(l)
               \/ rfcommChannelOpenComplete(l) \/ rfcommChannelClosed(l)
      PROVE  NamesInv'
  <2>1. slcState = "idle" \/ rfcommChannelClosed(l)
    BY <1>1, LineAdopt DEF Orderly
  <2> QED BY <1>1, <1>i, <2>1
          DEF rfcommChannelOpened, connect, rfcommChannelOpenComplete, Adopt,
              rfcommChannelClosed
<1>2. CASE disconnect
  BY <1>2, <1>i DEF disconnect
<1>3. ASSUME NEW l \in Links, Receive(l), Whole(l) PROVE NamesInv'
  <2> DEFINE m == Head(wire[l])
  <2>1. /\ l = rfcommChannel /\ Writable
        /\ wire[l] \in Seq(Lines) /\ wire[l] # <<>>
        /\ processATResponse(m)
        /\ wire' = [wire EXCEPT ![l] = Tail(wire[l])]
    BY <1>3, LineReceive DEF Whole
  <2>2. rfcommChannel' = l /\ wire'[l] = Tail(wire[l])
    BY <1>t, <2>1 DEF processATResponse
  <2>3. CASE Stays(m) /\ slcState = "waitingCINDTest"
    <3>1. NamesComing(indicatorNames, l, wire[l])
      BY <2>1, <2>3 DEF NamesInv
    <3>2. NamesComing(indicatorNames', l, Tail(wire[l]))
      BY <2>1, <2>3, <3>1, NamesTail DEF Stays
    <3> QED BY <2>2, <2>3, <3>2 DEF Stays, NamesInv, NamesOfThisPhone
  <2>4. CASE Stays(m) /\ slcState # "waitingCINDTest"
    BY <2>1, <2>2, <2>4 DEF Stays, NamesInv, NamesOfThisPhone
  <2>5. CASE MovesOn(m) /\ slcState' = "waitingCINDTest"
    <3>1. slcState = "waitingBRSFResponse" /\ m.kind = "OK"
      BY <2>5 DEF MovesOn
    <3>2. Flight("BRSF", asked[l], wire[l])
      BY <2>1, <3>1, AwaitedIs DEF FlightInv, Waiting
    <3>3. "BRSF" \in Commands /\ "CIND=?" \in Commands
      BY DEF Commands
    <3>4. Flight("CIND=?", <<"CIND=?">>, Tail(wire[l]))
      BY <2>1, <3>1, <3>2, <3>3, FlightNext
    <3>5. \A i \in 1 .. Len(Tail(wire[l])) :
            Tail(wire[l])[i].kind \in {"CIEV", "CLIP", "end"}
      BY <3>4 DEF Flight
    <3>6. NamesComing(indicatorNames', l, Tail(wire[l]))
      BY <3>5 DEF NamesComing
    <3> QED BY <2>2, <2>5, <3>6 DEF NamesInv, NamesOfThisPhone
  <2>6. CASE MovesOn(m) /\ slcState' = "waitingCINDRead"
    <3>1. slcState = "waitingCINDTest" /\ m.kind = "OK"
      BY <2>6 DEF MovesOn
    <3>2. NamesComing(indicatorNames, l, wire[l])
      BY <2>1, <3>1 DEF NamesInv
    <3>3. m = Head(wire[l])
      OBVIOUS
    <3>4. indicatorNames = Layout[l]
      <4> HIDE DEF m
      <4>1. m.kind = "OK" => indicatorNames = Layout[l]
        BY <2>1, <3>2, <3>3, NamesTail
      <4> QED BY <3>1, <4>1
    <3> QED BY <2>2, <2>6, <3>4 DEF MovesOn, NamesInv, NamesOfThisPhone
  <2>7. CASE \/ MovesOn(m) /\ slcState' \in {"waitingCMER", "waitingCHLD"}
             \/ Completes(m) \/ Acknowledged
    <3>1. /\ slcState \in {"waitingCINDRead", "waitingCMER", "waitingCHLD",
                           "appleExtensions"}
          /\ slcState' \in {"waitingCMER", "waitingCHLD", "appleExtensions",
                            "slcEstablished"}
          /\ indicatorNames' = indicatorNames
      BY <2>7 DEF MovesOn, Completes, Acknowledged
    <3>2. indicatorNames = Layout[l]
      BY <2>1, <3>1 DEF NamesInv, NamesOfThisPhone, SLCStates, Waiting
    <3> QED BY <2>2, <3>1, <3>2 DEF NamesInv, NamesOfThisPhone
  <2>8. MovesOn(m) => slcState' \in {"waitingCINDTest", "waitingCINDRead",
                                     "waitingCMER", "waitingCHLD"}
    BY DEF MovesOn, Waiting
  <2> HIDE DEF m
  <2> QED BY <2>1, <2>3, <2>4, <2>5, <2>6, <2>7, <2>8, ProcessShape DEF m
<1>4. ASSUME NEW l \in Links, PhoneAnswers(l) PROVE NamesInv'
  <2>1. l = rfcommChannel
        /\ UNCHANGED <<slcState, rfcommChannel, indicatorNames>>
    BY <1>o, <1>4 DEF PhoneAnswers
  <2>2. ASSUME slcState = "waitingCINDTest"
        PROVE  NamesComing(indicatorNames, l, wire'[l])
    <3>1. Flight("CIND=?", asked[l], wire[l]) /\ asked[l] # <<>>
      BY <1>4, <2>1, <2>2, AwaitedIs DEF FlightInv, Waiting, PhoneAnswers
    <3>2. asked[l] = <<"CIND=?">>
      BY <3>1 DEF Flight
    <3>3. "CIND=?" = Head(asked[l])
      BY <3>2
    <3>4. PICK a \in Seq(Lines), f \in Lines :
            /\ wire' = [wire EXCEPT ![l] = wire[l] \o a \o <<f>>]
            /\ IsAnswer(l, "CIND=?", a, f)
      BY <1>4, <3>3, AnswerSent
    <3>5. wire'[l] = wire[l] \o a \o <<f>> /\ wire[l] \in Seq(Lines)
      BY <1>t, <3>4
    <3> QED BY <3>1, <3>2, <3>4, <3>5, NamesAnswer
  <2> QED BY <1>u, <2>1, <2>2
<1>5. ASSUME NEW l \in Links, NEW m \in Lines,
             m.kind \in {"CIEV", "CLIP"}, link[l] = "open",
             \/ wire' = [wire EXCEPT ![l] = Append(@, m)]
             \/ wire' = wire,
             UNCHANGED ctrlVars
      PROVE  NamesInv'
  <2>1. l = rfcommChannel /\ wire[l] \in Seq(Lines)
    BY <1>t, <1>o, <1>5
  <2>2. wire'[l] \in {wire[l], Append(wire[l], m)}
    BY <1>t, <1>5
  <2>3. ASSUME slcState = "waitingCINDTest"
        PROVE  NamesComing(indicatorNames, l, wire'[l])
    <3>1. NamesComing(indicatorNames, l, wire[l])
      BY <2>1, <2>3 DEF NamesInv
    <3>2. NamesComing(indicatorNames, l, Append(wire[l], m))
      BY <1>5, <2>1, <3>1, NamesAppend
    <3> QED BY <2>2, <3>1, <3>2
  <2> QED BY <1>5, <1>u, <2>1, <2>3
<1>6. ASSUME NEW l \in Links, LinkLost(l) PROVE NamesInv'
  <2>1. /\ l = rfcommChannel /\ wire'[l] = <<>>
        /\ UNCHANGED <<slcState, rfcommChannel, indicatorNames>>
    BY <1>t, <1>o, <1>6 DEF LinkLost, HangUp
  <2>2. 1 .. Len(<<>>) = {}
    BY EmptySeq
  <2>3. NamesComing(indicatorNames, l, wire'[l])
    BY <2>1, <2>2 DEF NamesComing
  <2> QED BY <1>u, <2>1, <2>3
<1>7. CASE callCommand \/ keepAliveFires \/ UNCHANGED vars
  <2>1. UNCHANGED <<ctrlVars, wire>>
    BY <1>7 DEF callCommand, keepAliveFires, vars
  <2> QED BY <1>u, <2>1 DEF NamesInv
<1>8. ASSUME NEW l \in Links, NEW n \in Indicators, PhoneChanges(l, n)
      PROVE  NamesInv'
  BY <1>5, <1>8, ReportTyped DEF PhoneChanges, Report, Result
<1>9. ASSUME NEW l \in Links, PhoneRings(l) PROVE NamesInv'
  BY <1>5, <1>9, RingTyped DEF PhoneRings, Result
<1>10. ASSUME NEW l \in Links, Receive(l) PROVE NamesInv'
  BY <1>3, <1>10, <1>i, OrderlyReceive DEF Leftover
<1> QED
  BY <1>1, <1>2, <1>4, <1>6, <1>7, <1>8, <1>9, <1>10
  DEF Next, Callback, Environment

LEMMA OrderlyInit == Init => OrderlyInv
<1> SUFFICES ASSUME Init PROVE OrderlyInv
  OBVIOUS
<1>1. 1 .. Len(<<>>) = {}
  BY EmptySeq
<1> QED
  BY <1>1 DEF Init, OrderlyInv, LineInv, BufferInv, FlightInv, NamesInv,
              NamesOfThisPhone, UpInv, SLCStates, Waiting

\* The inductive invariant of an orderly session.
THEOREM OrderlyCorrect ==
  ASSUME Orderly PROVE Spec => []OrderlyInv
<1>1. TypeOK /\ OrderlyInv /\ [Next]_vars => OrderlyInv'
  BY LineStep, BufferStep, FlightStep, NamesStep, UpStep
  DEF Orderly, OrderlyInv
<1> QED BY <1>1, OrderlyInit, TypeCorrect, PTL DEF Spec

\* One channel at a time, a patient user and whole packets, whatever ends the
\* lines: an OK that arrives in a state of the negotiation answers the command
\* of that state.
THEOREM AnswersAwaitedCorrect ==
  ASSUME Orderly PROVE Spec => []AnswersAwaited
<1>1. OrderlyInv => AnswersAwaited
  <2> SUFFICES ASSUME OrderlyInv, slcState \in Waiting
               PROVE  AnswersAwaited
    BY DEF AnswersAwaited
  <2> DEFINE c == Awaited[slcState]
             out == asked[rfcommChannel]
             in == wire[rfcommChannel]
  <2>1. Flight(c, out, in)
    BY DEF OrderlyInv, FlightInv
  <2> HIDE DEF c, out, in
  <2>2. /\ out \in {<<>>, <<c>>}
        /\ \A i \in 1 .. Len(in) : in[i].to \in {c, "none"}
    BY <2>1 DEF Flight
  <2>3. \A i \in 1 .. Len(out) : out[i] = c
    <3>1. CASE out = <<>>
      <4>1. 1 .. Len(out) = {}
        BY <3>1, EmptySeq
      <4> QED BY <4>1
    <3>2. CASE out = <<c>>
      BY <3>2
    <3> QED BY <2>2, <3>1, <3>2
  <2> QED BY <2>2, <2>3 DEF AnswersAwaited, c, out, in
<1> QED BY <1>1, OrderlyCorrect, PTL

\* In the same sessions call events are looked up in the list of the phone
\* they come from.
THEOREM NamesOfThisPhoneCorrect ==
  ASSUME Orderly PROVE Spec => []NamesOfThisPhone
<1>1. OrderlyInv => NamesOfThisPhone
  BY DEF OrderlyInv, NamesInv
<1> QED BY <1>1, OrderlyCorrect, PTL

--------------------------------------------------------------------------
(* The call events of an orderly session.                                  *)

\* A line that is handled is taken off the reports on the way, and osm-core
\* is told what it says.
LEMMA ReportsTail ==
  ASSUME NEW l \in Links, NEW in \in Seq(Lines), in # <<>>, NEW said, NEW next,
         NEW call \in {0, 1}, TrueReports(l, in, said, call),
         IsCallReport(l, Head(in)) =>
           next = IF Head(in).values[2] = 1 THEN "active" ELSE "ended",
         ~IsCallReport(l, Head(in)) => next \in {said, "ringing"}
  PROVE  TrueReports(l, Tail(in), next, call)
<1> DEFINE rest == Tail(in)
<1>1. /\ Len(in) \in Nat /\ 1 \in 1 .. Len(in) /\ Head(in) = in[1]
      /\ Len(rest) = Len(in) - 1
      /\ \A i \in 1 .. Len(rest) : rest[i] = in[i + 1]
  BY HeadTailProperties, LenProperties, EmptySeq
<1> HIDE DEF rest
<1>2. \A i \in 1 .. Len(rest) : i + 1 \in 1 .. Len(in) /\ i + 1 > 1
  BY <1>1
<1>3. \A j \in 1 .. Len(in) :
        j > 1 => j - 1 \in 1 .. Len(rest) /\ rest[j - 1] = in[j]
  BY <1>1
<1>4. ASSUME NEW i \in 1 .. Len(rest), IsCallReport(l, rest[i]),
             \A j \in 1 .. Len(rest) : j > i => ~IsCallReport(l, rest[j])
      PROVE  rest[i].values[2] = call
  <2>1. ASSUME NEW j \in 1 .. Len(in), j > i + 1 PROVE ~IsCallReport(l, in[j])
    <3>1. j > 1 /\ j - 1 > i
      BY <1>1, <2>1
    <3> QED BY <1>3, <1>4, <3>1
  <2>2. i + 1 \in 1 .. Len(in) /\ rest[i] = in[i + 1]
    BY <1>1, <1>2
  <2> QED BY <1>4, <2>1, <2>2 DEF TrueReports
<1>5. ASSUME \A i \in 1 .. Len(rest) : ~IsCallReport(l, rest[i]),
             next \in {"active", "ended"}
      PROVE  (next = "active") = (call = 1)
  <2>1. \A j \in 1 .. Len(in) : j > 1 => ~IsCallReport(l, in[j])
    BY <1>3, <1>5
  <2>2. CASE IsCallReport(l, Head(in))
    <3>1. in[1].values[2] = call
      BY <1>1, <2>1, <2>2 DEF TrueReports
    <3> QED BY <1>1, <2>2, <3>1
  <2>3. CASE ~IsCallReport(l, Head(in))
    <3>1. \A j \in 1 .. Len(in) : ~IsCallReport(l, in[j])
      <4> SUFFICES ASSUME NEW j \in 1 .. Len(in) PROVE ~IsCallReport(l, in[j])
        OBVIOUS
      <4>1. j = 1 \/ j > 1
        BY <1>1
      <4> QED BY <1>1, <2>1, <2>3, <4>1
    <3>2. said = next
      BY <1>5, <2>3
    <3> QED BY <1>5, <3>1, <3>2 DEF TrueReports
  <2> QED BY <2>2, <2>3
<1>6. TrueReports(l, rest, next, call)
  BY <1>4, <1>5 DEF TrueReports
<1> QED BY <1>6 DEF rest

\* Lines that report no call, added at the end, change nothing.
LEMMA ReportsKept ==
  ASSUME NEW l \in Links, NEW in, NEW r, NEW said, NEW call,
         TrueReports(l, in, said, call), Len(in) \in Nat, Len(r) \in Nat,
         \A i \in 1 .. Len(in) : i \in 1 .. Len(r) /\ r[i] = in[i],
         \A i \in 1 .. Len(r) :
           \/ i \in 1 .. Len(in)
           \/ ~IsCallReport(l, r[i])
  PROVE  TrueReports(l, r, said, call)
BY DEF TrueReports

\* The report of a change is the last one and says what the phone has now.
LEMMA ReportsNew ==
  ASSUME NEW l \in Links, NEW in \in Seq(Lines), NEW m \in Lines, NEW said,
         NEW call, IsCallReport(l, m), m.values[2] = call
  PROVE  TrueReports(l, Append(in, m), said, call)
<1> DEFINE r == Append(in, m)
<1>1. /\ Len(in) \in Nat
      /\ Len(r) = Len(in) + 1
      /\ r[Len(in) + 1] = m
  BY AppendProperties, LenProperties
<1> HIDE DEF r
<1>2. Len(r) \in 1 .. Len(r) /\ r[Len(r)] = m
  BY <1>1
<1>3. \A i \in 1 .. Len(r) : i = Len(r) \/ Len(r) > i
  BY <1>1
<1>4. TrueReports(l, r, said, call)
  BY <1>2, <1>3 DEF TrueReports
<1> QED BY <1>4 DEF r

\* What handling a line tells osm-core.
LEMMA ProcessTold ==
  ASSUME NEW m \in Lines, processATResponse(m)
  PROVE  /\ m.kind = "CIEV" =>
              told' = IF /\ m.values[1] \in 1 .. Len(indicatorNames)
                         /\ indicatorNames[m.values[1]] = "call"
                        THEN IF m.values[2] = 1 THEN "active" ELSE "ended"
                        ELSE told
         /\ m.kind # "CIEV" => told' \in {told, "ringing"}
<1>1. ASSUME m.kind = "CIEV" PROVE handleCIEV(m) /\ m.values[2] \in {0, 1}
  BY <1>1 DEF processATResponse, Handled, OnBRSF, OnCINDTest, OnCINDRead,
              OnCMER, OnCHLD, OnXAPL, Lines
<1>2. CASE m.kind = "CIEV"
  BY <1>1, <1>2 DEF handleCIEV
<1>3. CASE m.kind # "CIEV"
  BY <1>3 DEF processATResponse, handleIncomingCall, OnBRSF, OnCINDTest,
              OnCINDRead, OnCMER, OnCHLD, OnXAPL, Advance, slcCompleted
<1> QED BY <1>2, <1>3

LEMMA IndexIs ==
  ASSUME NEW l \in Links, NEW n \in Indicators
  PROVE  Index(l, n) \in 1 .. Len(Layout[l]) /\ Layout[l][Index(l, n)] = n
<1>1. \E i \in 1 .. Len(Layout[l]) : Layout[l][i] = n
  BY RfcommAssumption
<1> QED BY <1>1 DEF Index

\* ReportInv, of one channel.
ReportsOf(l) ==
  link[l] = "open" =>
    /\ reporting[l] =>
         slcState \notin {"idle", "waitingBRSFResponse", "waitingCINDTest"}
    /\ ~reporting[l] =>
         /\ told \notin {"active", "ended"}
         /\ \A i \in 1 .. Len(wire[l]) : wire[l][i].kind # "CIEV"
    /\ TrueReports(l, wire[l], told, phone[l]["call"])

Alive(l) == link[l] \in {"open", "closing", "lost"}

LEMMA ReportStep ==
  ASSUME Orderly
  PROVE  TypeOK /\ OrderlyInv /\ ReportInv /\ [Next]_vars => ReportInv'
<1> SUFFICES ASSUME TypeOK, OrderlyInv, ReportInv, [Next]_vars
             PROVE  ReportInv'
  OBVIOUS
<1> USE DEF ctrlVars, phoneVars
<1>t. /\ link \in [Links -> {"closed", "opening", "abandoned", "open",
                       "closing", "lost"}]
      /\ asked \in [Links -> Seq(Commands)]
      /\ wire \in [Links -> Seq(Lines)]
      /\ reporting \in [Links -> BOOLEAN]
      /\ phone \in [Links -> [Indicators -> {0, 1}]]
      /\ "call" \in Indicators
      /\ \A k \in Links : phone[k]["call"] \in {0, 1}
  BY RfcommAssumption DEF TypeOK
<1>i. /\ LineInv /\ BufferInv /\ FlightInv /\ NamesOfThisPhone
      /\ atBuffer # <<>> => atBuffer[1].kind # "CIEV"
      /\ told # "none" => \E k \in Links : Alive(k)
      /\ \A k \in Links : ReportsOf(k)
  BY DEF OrderlyInv, NamesInv, ReportInv, ReportsOf, Alive
<1>q. ASSUME atBuffer' # <<>> => atBuffer'[1].kind # "CIEV",
             told' # "none" => \E k \in Links : Alive(k)',
             \A k \in Links : ReportsOf(k)'
      PROVE  ReportInv'
  BY <1>q DEF ReportInv, ReportsOf, Alive
<1>r. ASSUME atBuffer' = atBuffer,
             told' # "none" => \E k \in Links : Alive(k)',
             \A k \in Links : ReportsOf(k)'
      PROVE  ReportInv'
  BY <1>i, <1>q, <1>r
<1>1. ASSUME NEW l \in Links,
             rfcommChannelOpened(l) \/ connect(l)
               \/ rfcommChannelOpenComplete(l)
      PROVE  ReportInv'
  <2>1. /\ \A k \in Links : k # l => link[k] = "closed"
        /\ wire[l] = <<>> /\ ~reporting[l]
        /\ told = "none"
    BY <1>1, <1>i, LineAdopt DEF Orderly, Alive
  <2>2. /\ told' = told /\ wire' = wire /\ phone' = phone
        /\ reporting' = reporting /\ atBuffer' = atBuffer
        /\ \A k \in Links : k # l => link'[k] = link[k]
    BY <1>t, <1>1
    DEF rfcommChannelOpened, connect, rfcommChannelOpenComplete, Adopt
  <2>3. 1 .. Len(wire'[l]) = {}
    BY <2>1, <2>2
  <2>4. ReportsOf(l)'
    BY <2>1, <2>2, <2>3 DEF ReportsOf, TrueReports
  <2>5. \A k \in Links : k # l => ReportsOf(k)'
    BY <2>1, <2>2 DEF ReportsOf
  <2> QED BY <1>r, <2>1, <2>2, <2>4, <2>5
<1>2. ASSUME NEW l \in Links, rfcommChannelClosed(l) PROVE ReportInv'
  <2>1. \A k \in Links : link'[k] = "closed"
    BY <1>t, <1>i, <1>2 DEF rfcommChannelClosed, Dead, LineInv
  <2> QED BY <1>r, <1>2, <2>1 DEF ReportsOf, rfcommChannelClosed
<1>3. ASSUME NEW l \in Links, Receive(l), Whole(l) PROVE ReportInv'
  <2> DEFINE m == Head(wire[l])
  <2>1. /\ l = rfcommChannel /\ Writable /\ link[l] = "open"
        /\ wire[l] \in Seq(Lines) /\ wire[l] # <<>> /\ m \in Lines
        /\ processATResponse(m)
        /\ wire' = [wire EXCEPT ![l] = Tail(wire[l])]
        /\ UNCHANGED <<link, phone, reporting, atBuffer>>
    BY <1>i, <1>3, LineReceive DEF Whole
  <2>2. /\ m = wire[l][1] /\ 1 \in 1 .. Len(wire[l])
        /\ \A i \in 1 .. Len(Tail(wire[l])) :
             /\ i + 1 \in 1 .. Len(wire[l])
             /\ Tail(wire[l])[i] = wire[l][i + 1]
    BY <2>1, HeadTailProperties, LenProperties, EmptySeq
  <2> HIDE DEF m
  <2>3. ReportsOf(l)
    BY <1>i
  <2>4. m.kind = "CIEV" => reporting[l] /\ indicatorNames = Layout[l]
    <3>1. m.kind = "CIEV" => reporting[l]
      BY <2>1, <2>2, <2>3 DEF ReportsOf
    <3> QED BY <1>i, <2>1, <2>3, <3>1 DEF ReportsOf, NamesOfThisPhone, TypeOK
  <2>5. /\ IsCallReport(l, m) =>
             told' = IF m.values[2] = 1 THEN "active" ELSE "ended"
        /\ ~IsCallReport(l, m) => told' \in {told, "ringing"}
        /\ ~reporting[l] => told' \in {told, "ringing"}
    BY <2>1, <2>4, ProcessTold DEF IsCallReport
  <2>6. reporting[l] =>
          slcState' \notin {"idle", "waitingBRSFResponse", "waitingCINDTest"}
    <3>1. reporting[l] => slcState \notin {"idle", "waitingBRSFResponse",
                                           "waitingCINDTest"}
      BY <2>1, <2>3 DEF ReportsOf
    <3> QED
      BY <2>1, <3>1, ProcessShape
      DEF Stays, MovesOn, Completes, Acknowledged, Waiting
  <2>7. TrueReports(l, Tail(wire[l]), told', phone[l]["call"])
    <3>1. TrueReports(l, wire[l], told, phone[l]["call"])
      BY <2>1, <2>3 DEF ReportsOf
    <3>2. /\ IsCallReport(l, Head(wire[l])) =>
               told' = IF Head(wire[l]).values[2] = 1 THEN "active" ELSE "ended"
          /\ ~IsCallReport(l, Head(wire[l])) => told' \in {told, "ringing"}
      BY <2>5 DEF m
    <3> DEFINE in == wire[l]
               call == phone[l]["call"]
               next == told'
    <3>3. in \in Seq(Lines) /\ in # <<>> /\ call \in {0, 1}
      BY <1>t, <2>1
    <3> HIDE DEF call, next
    <3>4. TrueReports(l, Tail(in), next, call)
      BY <3>1, <3>2, <3>3, ReportsTail DEF call, next
    <3> QED BY <3>4 DEF call, next
  <2>8. wire'[l] = Tail(wire[l])
    BY <1>t, <2>1
  <2>9. ReportsOf(l)'
    <3>1. ~reporting[l] =>
            /\ told' \notin {"active", "ended"}
            /\ \A i \in 1 .. Len(wire'[l]) : wire'[l][i].kind # "CIEV"
      BY <2>1, <2>2, <2>3, <2>5, <2>8 DEF ReportsOf
    <3> QED BY <2>1, <2>6, <2>7, <2>8, <3>1 DEF ReportsOf
  <2>10. \A k \in Links : k # l => ReportsOf(k)'
    BY <1>i, <2>1 DEF ReportsOf, LineInv
  <2> QED BY <1>r, <2>1, <2>9, <2>10 DEF Alive
<1>4. CASE disconnect
  <2>1. \A k \in Links : link'[k] # "open" /\ (Alive(k) => Alive(k)')
    BY <1>t, <1>i, <1>4 DEF disconnect, LineInv, Alive
  <2> QED BY <1>r, <1>i, <1>4, <2>1 DEF ReportsOf, disconnect
<1>5. ASSUME NEW l \in Links, LinkLost(l) PROVE ReportInv'
  <2>1. \A k \in Links : link'[k] # "open" /\ (Alive(k) => Alive(k)')
    BY <1>t, <1>i, <1>5 DEF LinkLost, LineInv, Alive
  <2> QED BY <1>r, <1>i, <1>5, <2>1 DEF ReportsOf, LinkLost
\* What the phone sends goes to the end of the queue of one channel.
<1>6. ASSUME NEW l \in Links, link[l] = "open", ReportsOf(l)',
             UNCHANGED <<told, link, slcState, atBuffer>>,
             \A k \in Links : k # l => link[k] # "open"
      PROVE  ReportInv'
  <2>1. \A k \in Links : k # l => ReportsOf(k)'
    BY <1>6 DEF ReportsOf
  <2> QED BY <1>r, <1>i, <1>6, <2>1 DEF Alive
<1>7. ASSUME NEW l \in Links, link[l] = "open"
      PROVE  /\ \A k \in Links : k # l => link[k] # "open"
             /\ ReportsOf(l) /\ slcState # "idle" /\ l = rfcommChannel
             /\ wire[l] \in Seq(Lines) /\ Len(wire[l]) \in Nat
  BY <1>t, <1>i, <1>7, LenProperties DEF LineInv
<1>8. ASSUME NEW l \in Links, PhoneAnswers(l) PROVE ReportInv'
  <2> DEFINE c == Head(asked[l])
  <2>1. /\ link[l] = "open" /\ asked[l] # <<>>
        /\ UNCHANGED <<told, link, slcState, phone, atBuffer>>
        /\ reporting'[l] => reporting[l] \/ c = "CMER"
        /\ reporting[l] => reporting'[l]
    BY <1>t, <1>8 DEF PhoneAnswers
  <2>2. PICK a \in Seq(Lines), f \in Lines :
          /\ wire' = [wire EXCEPT ![l] = wire[l] \o a \o <<f>>]
          /\ IsAnswer(l, c, a, f)
    BY <1>8, AnswerSent
  <2> DEFINE r == wire[l] \o a \o <<f>>
  <2>3. /\ r \in Seq(Lines)
        /\ \A i \in 1 .. Len(wire[l]) : i \in 1 .. Len(r) /\ r[i] = wire[l][i]
        /\ \A i \in 1 .. Len(r) :
             \/ i \in 1 .. Len(wire[l]) /\ r[i] = wire[l][i]
             \/ \E k \in 1 .. Len(a) : i = Len(wire[l]) + k /\ r[i] = a[k]
             \/ i = Len(r) /\ r[i] = f
    <3>1. wire[l] \in Seq(Lines)
      BY <1>t
    <3> QED BY <2>2, <3>1, Answered
  <2>4. wire'[l] = r
    BY <1>t, <2>2
  <2> HIDE DEF r
  <2>5. \A i \in 1 .. Len(r) : \/ i \in 1 .. Len(wire[l]) /\ r[i] = wire[l][i]
                               \/ r[i].kind # "CIEV"
    BY <2>2, <2>3 DEF IsAnswer
  <2>6. TrueReports(l, r, told, phone[l]["call"])
    <3>1. TrueReports(l, wire[l], told, phone[l]["call"])
      BY <1>7, <2>1 DEF ReportsOf
    <3>2. Len(r) \in Nat /\ Len(wire[l]) \in Nat
      BY <1>7, <2>1, <2>3, LenProperties
    <3> QED BY <2>3, <2>5, <3>1, <3>2, ReportsKept DEF IsCallReport
  <2>7. c = "CMER" => slcState \notin {"idle", "waitingBRSFResponse",
                                       "waitingCINDTest"}
    <3>1. slcState \in Waiting => asked[l] = <<Awaited[slcState]>>
      BY <1>7, <1>i, <2>1 DEF FlightInv, Flight
    <3>2. slcState \in Waiting => c = Awaited[slcState]
      BY <3>1
    <3> QED BY <1>7, <2>1, <3>2, AwaitedIs DEF Waiting
  <2>8. ReportsOf(l)'
    BY <1>7, <2>1, <2>4, <2>5, <2>6, <2>7 DEF ReportsOf
  <2> QED BY <1>6, <1>7, <2>1, <2>8
<1>9. ASSUME NEW l \in Links, PhoneRings(l) PROVE ReportInv'
  <2> DEFINE ring == Result("CLIP", "none", <<>>, <<>>)
             r == Append(wire[l], ring)
  <2>1. /\ link[l] = "open"
        /\ UNCHANGED <<told, link, slcState, phone, reporting, atBuffer>>
        /\ wire'[l] = r
        /\ ring \in Lines /\ ring.kind = "CLIP"
    BY <1>t, <1>9, RingTyped DEF PhoneRings, Result
  <2> HIDE DEF ring
  <2>2. /\ Len(r) = Len(wire[l]) + 1
        /\ \A i \in 1 .. Len(wire[l]) : r[i] = wire[l][i]
        /\ r[Len(wire[l]) + 1] = ring
    BY <1>7, <2>1, AppendProperties
  <2> HIDE DEF r
  <2>3. \A i \in 1 .. Len(r) : \/ i \in 1 .. Len(wire[l]) /\ r[i] = wire[l][i]
                               \/ r[i].kind # "CIEV"
    BY <1>7, <2>1, <2>2
  <2>4. TrueReports(l, r, told, phone[l]["call"])
    <3>1. TrueReports(l, wire[l], told, phone[l]["call"])
      BY <1>7, <2>1 DEF ReportsOf
    <3>2. /\ Len(r) \in Nat /\ Len(wire[l]) \in Nat
          /\ \A i \in 1 .. Len(wire[l]) : i \in 1 .. Len(r)
      BY <1>7, <2>1, <2>2
    <3> QED BY <2>2, <2>3, <3>1, <3>2, ReportsKept DEF IsCallReport
  <2>5. ReportsOf(l)'
    BY <1>7, <2>1, <2>3, <2>4 DEF ReportsOf
  <2> QED BY <1>6, <1>7, <2>1, <2>5
<1>10. ASSUME NEW l \in Links, NEW n \in Indicators, PhoneChanges(l, n)
       PROVE  ReportInv'
  <2> DEFINE m == Report(l, n)
             r == Append(wire[l], m)
  <2>1. /\ link[l] = "open"
        /\ UNCHANGED <<told, link, slcState, reporting, atBuffer>>
        /\ phone' = [phone EXCEPT ![l][n] = 1 - phone[l][n]]
        /\ wire' = IF reporting[l] THEN [wire EXCEPT ![l] = r] ELSE wire
    BY <1>10 DEF PhoneChanges, Report
  <2>2. /\ m \in Lines /\ m.kind = "CIEV"
        /\ m.values[1] = Index(l, n)
        /\ m.values[2] = 1 - phone[l][n]
    BY ReportTyped DEF Report, Result
  <2>3. /\ IsCallReport(l, m) <=> n = "call"
        /\ phone'[l]["call"] = IF n = "call" THEN m.values[2]
                                             ELSE phone[l]["call"]
    BY <1>t, <2>1, <2>2, IndexIs DEF IsCallReport
  <2> HIDE DEF m
  <2>4. /\ Len(r) = Len(wire[l]) + 1
        /\ \A i \in 1 .. Len(wire[l]) : r[i] = wire[l][i]
        /\ r[Len(wire[l]) + 1] = m
    BY <1>7, <2>1, <2>2, AppendProperties
  <2>5. CASE ~reporting[l]
    <3>1. \A i \in 1 .. Len(wire[l]) : ~IsCallReport(l, wire[l][i])
      BY <1>7, <2>1, <2>5 DEF ReportsOf, IsCallReport
    <3>2. TrueReports(l, wire[l], told, phone'[l]["call"])
      BY <1>7, <2>1, <2>5, <3>1 DEF ReportsOf, TrueReports
    <3> QED BY <1>6, <1>7, <2>1, <2>5, <3>2 DEF ReportsOf
  <2>6. CASE reporting[l]
    <3>1. wire'[l] = r
      BY <1>t, <2>1, <2>6
    <3>2. TrueReports(l, r, told, phone'[l]["call"])
      <4>1. CASE n = "call"
        BY <1>7, <2>1, <2>2, <2>3, <4>1, ReportsNew
      <4>2. CASE n # "call"
        <5>1. TrueReports(l, wire[l], told, phone'[l]["call"])
          BY <1>7, <2>1, <2>3, <4>2 DEF ReportsOf
        <5>2. /\ Len(r) \in Nat /\ Len(wire[l]) \in Nat
              /\ \A i \in 1 .. Len(wire[l]) : i \in 1 .. Len(r)
          BY <1>7, <2>1, <2>4
        <5>3. \A i \in 1 .. Len(r) :
                i \in 1 .. Len(wire[l]) \/ ~IsCallReport(l, r[i])
          BY <1>7, <2>1, <2>3, <2>4, <4>2
        <5> HIDE DEF r
        <5> QED BY <2>4, <5>1, <5>2, <5>3, ReportsKept
      <4> QED BY <4>1, <4>2
    <3> QED BY <1>6, <1>7, <2>1, <2>6, <3>1, <3>2 DEF ReportsOf
  <2> QED BY <2>5, <2>6
<1>11. CASE UNCHANGED <<told, link, slcState, reporting, wire, phone,
                        atBuffer>>
  BY <1>r, <1>i, <1>11 DEF ReportsOf, Alive
\* Before +CMER nothing is reported, so neither the buffer nor the channel
\* holds a report.
<1>12. ASSUME NEW l \in Links, Receive(l), Leftover(l) PROVE ReportInv'
  <2>1. /\ link[l] = "open" /\ UNCHANGED <<link, reporting, phone>>
        /\ \A k \in Links : k # l => link[k] # "open"
        /\ wire[l] \in Seq(Lines) /\ wire[l] # <<>>
    BY <1>i, <1>7, <1>12, LineReceive
  <2>2. /\ slcState = "waitingBRSFResponse" /\ slcState' = slcState
        /\ told' \in {told, "ringing"}
    BY <1>i, <1>12 DEF Leftover
  <2>3. /\ ~reporting[l] /\ told \notin {"active", "ended"}
        /\ \A i \in 1 .. Len(wire[l]) : wire[l][i].kind # "CIEV"
    BY <1>i, <2>1, <2>2 DEF ReportsOf
  <2>4. wire'[l] \in {Tail(wire[l]), <<EndOfLine>> \o Tail(wire[l])}
    BY <1>t, <1>12 DEF Leftover, Joins, Displaces, Ends
  <2>5. \A i \in 1 .. Len(wire'[l]) : wire'[l][i].kind # "CIEV"
    <3>1. EndOfLine.kind # "CIEV"
      BY DEF EndOfLine
    <3>2. CASE wire'[l] = Tail(wire[l])
      BY <2>1, <2>3, <3>2, TailOf
    <3>3. CASE wire'[l] = <<EndOfLine>> \o Tail(wire[l])
      BY <2>1, <2>3, <3>1, <3>3, TailOf
    <3> QED BY <2>4, <3>2, <3>3
  <2>6. ReportsOf(l)'
    BY <2>1, <2>2, <2>3, <2>5 DEF ReportsOf, TrueReports, IsCallReport
  <2>7. \A k \in Links : k # l => ReportsOf(k)'
    BY <2>1 DEF ReportsOf
  <2>8. Head(wire[l]).kind # "CIEV"
    BY <2>1, <2>3, TailOf
  <2>9. atBuffer' # <<>> => atBuffer'[1].kind # "CIEV"
    BY <1>i, <1>12, <2>8 DEF Leftover, Joins, Displaces, Ends
  <2> QED BY <1>q, <2>1, <2>6, <2>7, <2>9 DEF Alive
<1>13. ASSUME NEW l \in Links, Receive(l) PROVE ReportInv'
  BY <1>i, <1>3, <1>12, <1>13, OrderlyReceive
<1> QED
  BY <1>1, <1>2, <1>4, <1>5, <1>8, <1>9, <1>10, <1>11, <1>13
  DEF Next, Callback, Environment, callCommand, keepAliveFires, vars

LEMMA ReportInit == Init => ReportInv
<1> SUFFICES ASSUME Init PROVE ReportInv
  OBVIOUS
<1> QED BY DEF Init, ReportInv

\* One channel at a time, a patient user and whole packets, whatever ends the
\* lines: once every report is delivered, the last call event osm-core was sent
\* says whether the phone is in a call.
THEOREM CallToldCorrect ==
  ASSUME Orderly PROVE Spec => []CallTold
<1>1. TypeOK /\ OrderlyInv /\ ReportInv /\ [Next]_vars => ReportInv'
  BY ReportStep
<1>2. TypeOK /\ ReportInv => CallTold
  <2> SUFFICES ASSUME TypeOK, ReportInv, Writable,
                      told \in {"active", "ended"},
                      \A i \in 1 .. Len(wire[rfcommChannel]) :
                        wire[rfcommChannel][i].kind # "CIEV"
               PROVE  (told = "active") = (phone[rfcommChannel]["call"] = 1)
    BY DEF CallTold
  <2>1. rfcommChannel \in Links /\ link[rfcommChannel] = "open"
    BY DEF Writable, TypeOK
  <2> QED BY <2>1 DEF ReportInv, TrueReports, IsCallReport
<1> QED BY <1>1, <1>2, ReportInit, TypeCorrect, OrderlyCorrect, PTL DEF Spec
=============================================================================
