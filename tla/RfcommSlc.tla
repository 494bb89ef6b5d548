----------------------------- MODULE RfcommSlc -----------------------------
(***************************************************************************)
(* RFCOMMHandsFreeController (osm-bt): the Mac as an HFP hands-free unit   *)
(* over raw RFCOMM channels.  It opens a channel or accepts one, runs the  *)
(* AT negotiation of the service level connection (SLC), then follows the  *)
(* phone's indicators and reports link and call events to osm-core.        *)
(*                                                                         *)
(* Bluetooth callbacks, the keep-alive timer and the commands of osm-core  *)
(* all run on the main run loop: each handler is one action.  The phone    *)
(* and the Bluetooth stack are the environment.                            *)
(*                                                                         *)
(* Abstraction: a link is one RFCOMM channel object; a link that is closed *)
(* may be opened again, as the next object to the same phone.  A line is   *)
(* its result code, the values it carries and (for the properties only)    *)
(* the command it answers.  A cut inside the text of a line either is      *)
(* joined again or leaves text that matches no result code, so fragments   *)
(* are cut between the text of a line and its terminator.  writeAsync on a *)
(* channel that is not open is lost.                                       *)
(*                                                                         *)
(* Line breaks: the buffer is a Swift String, whose elements are grapheme  *)
(* clusters.  CR LF together is ONE Character, equal neither to "\r" nor   *)
(* to "\n", so only a CR or LF that stands alone ends a line.  It does in  *)
(* the text of a phone that sends bare breaks, or whose packets end        *)
(* between CR and LF; it does not in that of the phones in Crlf.           *)
(***************************************************************************)
EXTENDS Naturals, Sequences

CONSTANTS
  Links,        \* RFCOMM channels: bounds those alive at one time
  NoLink,       \* rfcommChannel = nil
  Indicators,   \* names an AG may list in +CIND, "call" among them
  Layout,       \* the order in which the phone of a link lists them
  Refusable,    \* commands the phone may answer with ERROR
  Overlap,      \* a channel may open before the previous one is closed
  EagerUser,    \* call commands may be sent before the SLC is established
  Fragmented,   \* a line and its terminator may come in two packets
  Crlf,         \* phones whose lines end in CR LF within one packet
  MaxInFlight   \* commands and lines in flight before user, timer or phone
                \* add one of their own to a channel

ASSUME RfcommAssumption ==
  /\ NoLink \notin Links
  /\ "call" \in Indicators
  /\ Layout \in [Links -> Seq(Indicators)]
  /\ \A l \in Links : \A n \in Indicators :
       \E i \in 1 .. Len(Layout[l]) :
         /\ Layout[l][i] = n
         /\ \A j \in 1 .. Len(Layout[l]) : Layout[l][j] = n => j = i
  /\ Overlap \in BOOLEAN
  /\ EagerUser \in BOOLEAN
  /\ Fragmented \in BOOLEAN
  /\ Crlf \subseteq Links
  /\ MaxInFlight \in Nat

VARIABLES
  rfcommChannel,    \* self.rfcommChannel
  slcState,         \* self.slcState
  threeWay,         \* agFeatures & 0x01, the only bit that is read
  indicatorNames,   \* self.indicatorNames
  indicatorValues,  \* self.indicatorValues
  atBuffer,         \* self.atBuffer: the line it begins with and, as a
                    \* second entry, any one that follows it
  keepAlive,        \* keepAliveTimer is scheduled
  up,               \* the last link event sent was hfp_connected
  told,             \* the last call event sent since the link came up
  link,             \* the life of each channel in the Bluetooth stack
  asked,            \* commands the phone has not answered yet
  wire,             \* lines of the phone not delivered yet
  phone,            \* indicator values in the phone
  reporting         \* the phone has accepted AT+CMER

ctrlVars == <<rfcommChannel, slcState, threeWay, indicatorNames,
              indicatorValues, keepAlive, up, told>>
phoneVars == <<phone, reporting>>
vars == <<ctrlVars, atBuffer, link, asked, wire, phoneVars>>

\* SLCState without rfcommOpen, which startSLCNegotiation leaves at once.
Waiting == {"waitingBRSFResponse", "waitingCINDTest", "waitingCINDRead",
            "waitingCMER", "waitingCHLD"}
SLCStates == Waiting \cup {"idle", "slcEstablished", "appleExtensions"}

Commands == {"BRSF", "CIND=?", "CIND?", "CMER", "CHLD=?", "XAPL", "call"}
Kinds == {"BRSF", "names", "values", "CHLD", "XAPL", "OK", "ERROR",
          "CIEV", "CLIP", "end"}

\* "to" is the command a line answers, "none" for an unsolicited result.  A
\* +CIEV carries an index and a value.
Lines == {m \in [kind : Kinds, to : Commands \cup {"none"},
                 names : Seq(Indicators), values : Seq(Nat)] :
            m.kind = "CIEV" => m.values \in Nat \X {0, 1}}

isConnected == slcState \in {"slcEstablished", "appleExtensions"}

TypeOK ==
  /\ rfcommChannel \in Links \cup {NoLink}
  /\ slcState \in SLCStates
  /\ threeWay \in BOOLEAN
  /\ indicatorNames \in Seq(Indicators)
  /\ indicatorValues \in Seq(Nat)
  /\ atBuffer \in Seq(Lines)
  /\ keepAlive \in BOOLEAN
  /\ up \in BOOLEAN
  /\ told \in {"none", "ringing", "active", "ended"}
  /\ link \in [Links -> {"closed", "opening", "abandoned", "open",
                       "closing", "lost"}]
  /\ asked \in [Links -> Seq(Commands)]
  /\ wire \in [Links -> Seq(Lines)]
  /\ phone \in [Links -> [Indicators -> {0, 1}]]
  /\ reporting \in [Links -> BOOLEAN]

Init ==
  /\ rfcommChannel = NoLink
  /\ slcState = "idle"
  /\ threeWay = FALSE
  /\ indicatorNames = <<>>
  /\ indicatorValues = <<>>
  /\ atBuffer = <<>>
  /\ keepAlive = FALSE
  /\ up = FALSE
  /\ told = "none"
  /\ link = [l \in Links |-> "closed"]
  /\ asked = [l \in Links |-> <<>>]
  /\ wire = [l \in Links |-> <<>>]
  /\ phone \in [Links -> [Indicators -> {0, 1}]]
  /\ reporting = [l \in Links |-> FALSE]
--------------------------------------------------------------------------
(* Sending and the end of the negotiation.                                 *)

\* Whether a command written now reaches a phone.
Writable == rfcommChannel # NoLink /\ link[rfcommChannel] = "open"

Room(l) == Len(asked[l]) + Len(wire[l]) < MaxInFlight

sendAT(c) ==
  asked' = IF Writable
             THEN [asked EXCEPT ![rfcommChannel] = Append(@, c)]
             ELSE asked

slcCompleted ==
  /\ up' = TRUE
  /\ slcState' = "appleExtensions"
  /\ sendAT("XAPL")
  /\ keepAlive' = TRUE
  /\ UNCHANGED <<threeWay, indicatorNames, indicatorValues, told>>

\* From one state of the negotiation to the next, with its command.
Advance(s, c) ==
  /\ slcState' = s
  /\ sendAT(c)
  /\ UNCHANGED <<threeWay, indicatorNames, indicatorValues, keepAlive, up,
                 told>>
--------------------------------------------------------------------------
(* processATResponse: one line, by result code and SLC state.              *)

\* Mutant: the AG's 1-based index is used as it is (0-based array).
MutHandleCIEV(m) ==
  LET idx == m.values[1] + 1
      val == m.values[2]
      names == indicatorNames
  IN /\ indicatorValues' = IF idx \in 1 .. Len(indicatorValues)
                             THEN [indicatorValues EXCEPT ![idx] = val]
                             ELSE indicatorValues
     /\ told' = IF idx \in 1 .. Len(names) /\ names[idx] = "call"
                  THEN IF val = 1 THEN "active" ELSE "ended"
                  ELSE told
     /\ UNCHANGED <<slcState, threeWay, indicatorNames, keepAlive, up, asked>>

handleCIEV(m) ==
  LET idx == m.values[1]
      val == m.values[2]
      isCall == /\ idx \in 1 .. Len(indicatorNames)
                /\ indicatorNames[idx] = "call"
  IN /\ indicatorValues' = IF idx \in 1 .. Len(indicatorValues)
                             THEN [indicatorValues EXCEPT ![idx] = val]
                             ELSE indicatorValues
     /\ told' = CASE isCall /\ val = 1 -> "active"
                  [] isCall /\ val = 0 -> "ended"
                  [] OTHER -> told
     /\ UNCHANGED <<slcState, threeWay, indicatorNames, keepAlive, up, asked>>

handleIncomingCall ==
  /\ told' = "ringing"
  /\ UNCHANGED <<slcState, threeWay, indicatorNames, indicatorValues,
                 keepAlive, up, asked>>

\* Mutant: the answer itself, not the OK after it, moves the negotiation on.
MutOnBRSF(m) ==
  /\ slcState = "waitingBRSFResponse"
  /\ m.kind = "BRSF"
  /\ Advance("waitingCINDTest", "CIND=?")

OnBRSF(m) ==
  /\ slcState = "waitingBRSFResponse"
  /\ \/ /\ m.kind = "BRSF"
        /\ threeWay' = (m.values = <<1>>)
        /\ UNCHANGED <<slcState, indicatorNames, indicatorValues, keepAlive,
                       up, told, asked>>
     \/ m.kind = "OK" /\ Advance("waitingCINDTest", "CIND=?")

\* Mutant: names of an earlier +CIND are kept in front of the new ones.
MutOnCINDTest(m) ==
  /\ slcState = "waitingCINDTest"
  /\ \/ /\ m.kind \in {"names", "values"}
        /\ indicatorNames' = indicatorNames \o m.names
        /\ UNCHANGED <<slcState, threeWay, indicatorValues, keepAlive, up,
                       told, asked>>
     \/ m.kind = "OK" /\ Advance("waitingCINDRead", "CIND?")

\* Both replies start with +CIND: what is not a name is parsed to no name,
\* what is not a number to no value, so the other reply gives <<>>.
OnCINDTest(m) ==
  /\ slcState = "waitingCINDTest"
  /\ \/ /\ m.kind \in {"names", "values"}
        /\ indicatorNames' = m.names
        /\ UNCHANGED <<slcState, threeWay, indicatorValues, keepAlive, up,
                       told, asked>>
     \/ m.kind = "OK" /\ Advance("waitingCINDRead", "CIND?")

OnCINDRead(m) ==
  /\ slcState = "waitingCINDRead"
  /\ \/ /\ m.kind \in {"names", "values"}
        /\ indicatorValues' = m.values
        /\ UNCHANGED <<slcState, threeWay, indicatorNames, keepAlive, up,
                       told, asked>>
     \/ m.kind = "OK" /\ Advance("waitingCMER", "CMER")

\* Mutant: without three-way calling nobody completes the connection.
MutOnCMER(m) ==
  /\ slcState = "waitingCMER"
  /\ m.kind = "OK"
  /\ \/ threeWay /\ Advance("waitingCHLD", "CHLD=?")
     \/ /\ ~threeWay
        /\ UNCHANGED <<slcState, threeWay, indicatorNames, indicatorValues,
                       keepAlive, up, told, asked>>

\* hfFeatures offers three-way calling, so the AG's bit decides.
OnCMER(m) ==
  /\ slcState = "waitingCMER"
  /\ m.kind = "OK"
  /\ \/ threeWay /\ Advance("waitingCHLD", "CHLD=?")
     \/ ~threeWay /\ slcCompleted

OnCHLD(m) ==
  /\ slcState = "waitingCHLD"
  /\ m.kind = "OK"
  /\ slcCompleted

OnXAPL(m) ==
  /\ slcState = "appleExtensions"
  /\ m.kind \in {"OK", "XAPL"}
  /\ slcState' = "slcEstablished"
  /\ UNCHANGED <<threeWay, indicatorNames, indicatorValues, keepAlive, up,
                 told, asked>>

\* Whatever the state does not expect, ERROR included, is logged.
Handled(m) ==
  \/ m.kind \in {"CIEV", "CLIP"}
  \/ slcState \in Waiting /\ m.kind = "OK"
  \/ slcState = "waitingBRSFResponse" /\ m.kind = "BRSF"
  \/ /\ slcState \in {"waitingCINDTest", "waitingCINDRead"}
     /\ m.kind \in {"names", "values"}
  \/ slcState = "appleExtensions" /\ m.kind \in {"OK", "XAPL"}

processATResponse(m) ==
  /\ UNCHANGED rfcommChannel
  /\ \/ m.kind = "CIEV" /\ handleCIEV(m)
     \/ m.kind = "CLIP" /\ handleIncomingCall
     \/ OnBRSF(m)
     \/ OnCINDTest(m)
     \/ OnCINDRead(m)
     \/ OnCMER(m)
     \/ OnCHLD(m)
     \/ OnXAPL(m)
     \/ /\ ~Handled(m)
        /\ UNCHANGED <<slcState, threeWay, indicatorNames, indicatorValues,
                       keepAlive, up, told, asked>>
--------------------------------------------------------------------------
(* The Bluetooth stack's callbacks.                                        *)

\* Mutant: startSLCNegotiation is not called.
MutAdopt(l) ==
  /\ rfcommChannel' = l
  /\ slcState' = "rfcommOpen"
  /\ link' = [link EXCEPT ![l] = "open"]
  /\ UNCHANGED <<threeWay, indicatorNames, indicatorValues, keepAlive, up,
                 told, atBuffer, asked, wire, phoneVars>>

\* rfcommChannelOpened and rfcommChannelOpenComplete end the same way: the
\* state passes through rfcommOpen, startSLCNegotiation sends AT+BRSF.
Adopt(l) ==
  /\ rfcommChannel' = l
  /\ slcState' = "waitingBRSFResponse"
  /\ link' = [link EXCEPT ![l] = "open"]
  /\ asked' = [asked EXCEPT ![l] = Append(@, "BRSF")]
  /\ UNCHANGED <<threeWay, indicatorNames, indicatorValues, keepAlive, up,
                 told, atBuffer, wire, phoneVars>>

\* When a further channel may appear: at any time, or once the one before
\* has been reported closed.
LineFree == Overlap \/ \A k \in Links : link[k] = "closed"

rfcommChannelOpened(l) ==
  /\ link[l] = "closed"
  /\ LineFree
  /\ Adopt(l)

\* connect: the channel object is stored before it is open, slcState stays.
\* A failure of the ACL or of the open call itself changes nothing here.
connect(l) ==
  /\ link[l] = "closed"
  /\ LineFree
  /\ rfcommChannel' = l
  /\ link' = [link EXCEPT ![l] = "opening"]
  /\ UNCHANGED <<slcState, threeWay, indicatorNames, indicatorValues,
                 keepAlive, up, told, atBuffer, asked, wire, phoneVars>>

\* A rejected channel stays in rfcommChannel, only an error is sent.  Nothing
\* asks whether the channel is still wanted: that of a disconnect which came
\* before its completion is adopted, too.
rfcommChannelOpenComplete(l) ==
  /\ link[l] \in {"opening", "abandoned"}
  /\ \/ Adopt(l)
     \/ /\ link' = [link EXCEPT ![l] = "closed"]
        /\ UNCHANGED <<ctrlVars, atBuffer, asked, wire, phoneVars>>

\* A channel that goes away takes with it what was not delivered; the phone
\* ends its reports.
HangUp(l) ==
  /\ asked' = [asked EXCEPT ![l] = <<>>]
  /\ wire' = [wire EXCEPT ![l] = <<>>]
  /\ reporting' = [reporting EXCEPT ![l] = FALSE]

\* A channel that is closed before it is open may complete all the same.
disconnect ==
  /\ rfcommChannel # NoLink
  /\ link' = [link EXCEPT ![rfcommChannel] =
                CASE @ = "opening" -> "abandoned"
                  [] @ = "open" -> "closing"
                  [] OTHER -> @]
  /\ HangUp(rfcommChannel)
  /\ rfcommChannel' = NoLink
  /\ slcState' = "idle"
  /\ keepAlive' = FALSE
  /\ UNCHANGED <<threeWay, indicatorNames, indicatorValues, up, told,
                 atBuffer, phone>>

Dead(l) == link[l] \in {"abandoned", "closing", "lost"}

\* Mutant: a close after disconnect is not reported any more.
MutRfcommChannelClosed(l) ==
  /\ Dead(l)
  /\ link' = [link EXCEPT ![l] = "closed"]
  /\ rfcommChannel' = NoLink
  /\ slcState' = "idle"
  /\ keepAlive' = FALSE
  /\ up' = IF slcState = "idle" THEN up ELSE FALSE
  /\ told' = IF slcState = "idle" THEN told ELSE "none"
  /\ UNCHANGED <<threeWay, indicatorNames, indicatorValues, atBuffer, asked,
                 wire, phoneVars>>

\* Whichever channel closed: the argument is not compared with
\* rfcommChannel, and atBuffer and the indicators stay.
rfcommChannelClosed(l) ==
  /\ Dead(l)
  /\ link' = [link EXCEPT ![l] = "closed"]
  /\ rfcommChannel' = NoLink
  /\ slcState' = "idle"
  /\ keepAlive' = FALSE
  /\ up' = FALSE
  /\ told' = "none"
  /\ UNCHANGED <<threeWay, indicatorNames, indicatorValues, atBuffer, asked,
                 wire, phoneVars>>

EndOfLine == [kind |-> "end", to |-> "none", names |-> <<>>, values |-> <<>>]

Delivered(l) == wire' = [wire EXCEPT ![l] = Tail(@)]

\* rfcommChannelData, a whole line in the packet.  A line that answers makes
\* the controller send: asked changes with it.
ReceiveLine(l) ==
  /\ l \notin Crlf
  /\ link[l] = "open"
  /\ wire[l] # <<>>
  /\ Head(wire[l]).kind # "end"
  /\ atBuffer = <<>>
  /\ processATResponse(Head(wire[l]))
  /\ Delivered(l)
  /\ UNCHANGED <<atBuffer, link, phoneVars>>

\* What is left of a line when more text follows before a break: a number or
\* an exact match ends with the text, a prefix does not.  (The replies to
\* +CIND would change too, but the first break of a connection meets no state
\* that reads them.)
Glued(m) ==
  CASE m.kind \in {"OK", "CIEV"} -> [m EXCEPT !.kind = "ERROR"]
    [] m.kind = "BRSF" -> [m EXCEPT !.values = <<>>]
    [] OTHER -> m

Buffered == IF Len(atBuffer) = 1 THEN atBuffer[1] ELSE Glued(atBuffer[1])

\* A lone break completes whatever the buffer holds.
BreakFound ==
  \/ atBuffer = <<>> /\ UNCHANGED <<ctrlVars, asked>>
  \/ atBuffer # <<>> /\ processATResponse(Buffered)

\* The text of a line whose terminator is in a later packet.  Lines start
\* with a break.
ReceiveText(l) ==
  /\ l \notin Crlf
  /\ Fragmented \/ atBuffer # <<>>
  /\ link[l] = "open"
  /\ wire[l] # <<>>
  /\ Head(wire[l]).kind # "end"
  /\ BreakFound
  /\ atBuffer' = <<Head(wire[l])>>
  /\ wire' = [wire EXCEPT ![l] = <<EndOfLine>> \o Tail(@)]
  /\ UNCHANGED <<link, phoneVars>>

\* A line between CR LFs: no break is found, the text only grows.
ReceiveCRLF(l) ==
  /\ l \in Crlf
  /\ link[l] = "open"
  /\ wire[l] # <<>>
  /\ atBuffer' = IF Len(atBuffer) < 2 THEN Append(atBuffer, Head(wire[l]))
                                      ELSE atBuffer
  /\ Delivered(l)
  /\ UNCHANGED <<ctrlVars, link, asked, phoneVars>>

ReceiveEnd(l) ==
  /\ link[l] = "open"
  /\ wire[l] # <<>>
  /\ Head(wire[l]).kind = "end"
  /\ BreakFound
  /\ atBuffer' = <<>>
  /\ Delivered(l)
  /\ UNCHANGED <<link, phoneVars>>
--------------------------------------------------------------------------
(* Commands of osm-core and the keep-alive timer.                          *)

\* answerCall, rejectCall, endCall and dial send without looking at
\* slcState.  What a patient user sends waits for hfp_connected.
callCommand ==
  /\ EagerUser \/ isConnected
  /\ Writable
  /\ Room(rfcommChannel)
  /\ sendAT("call")
  /\ UNCHANGED <<ctrlVars, atBuffer, link, wire, phoneVars>>

keepAliveFires ==
  /\ keepAlive
  /\ isConnected
  /\ Writable
  /\ Room(rfcommChannel)
  /\ sendAT("CIND?")
  /\ UNCHANGED <<ctrlVars, atBuffer, link, wire, phoneVars>>
--------------------------------------------------------------------------
(* The phone (audio gateway) and the radio link: environment.              *)

Result(kind, to, names, values) ==
  [kind |-> kind, to |-> to, names |-> names, values |-> values]

OK(c) == Result("OK", c, <<>>, <<>>)

\* What a phone that accepts command c sends before the OK.
Answers(l, c) ==
  CASE c = "BRSF" -> {<<Result("BRSF", c, <<>>, <<b>>)>> : b \in {0, 1}}
    [] c = "CIND=?" -> {<<Result("names", c, Layout[l], <<>>)>>}
    [] c = "CIND?" ->
         {<<Result("values", c, <<>>,
                   [i \in 1 .. Len(Layout[l]) |-> phone[l][Layout[l][i]]])>>}
    [] c = "CHLD=?" -> {<<Result("CHLD", c, <<>>, <<>>)>>}
    [] c = "XAPL" -> {<<Result("XAPL", c, <<>>, <<>>)>>}
    [] c \in {"CMER", "call"} -> {<<>>}

PhoneAnswers(l) ==
  /\ link[l] = "open"
  /\ asked[l] # <<>>
  /\ asked' = [asked EXCEPT ![l] = Tail(@)]
  /\ LET c == Head(asked[l])
     IN \/ /\ \E a \in Answers(l, c) :
                wire' = [wire EXCEPT ![l] = @ \o a \o <<OK(c)>>]
           /\ reporting' = [reporting EXCEPT ![l] = @ \/ c = "CMER"]
        \/ /\ c \in Refusable
           /\ wire' = [wire EXCEPT ![l] =
                         Append(@, Result("ERROR", c, <<>>, <<>>))]
           /\ UNCHANGED reporting
  /\ UNCHANGED <<ctrlVars, atBuffer, link, phone>>

Index(l, n) == CHOOSE i \in 1 .. Len(Layout[l]) : Layout[l][i] = n

\* An indicator changes; it is reported once AT+CMER was accepted.
PhoneChanges(l, n) ==
  /\ link[l] = "open"
  /\ Room(l)
  /\ phone' = [phone EXCEPT ![l][n] = 1 - @]
  /\ wire' = IF reporting[l]
               THEN [wire EXCEPT ![l] =
                       Append(@, Result("CIEV", "none", <<>>,
                                        <<Index(l, n), 1 - phone[l][n]>>))]
               ELSE wire
  /\ UNCHANGED <<ctrlVars, atBuffer, link, asked, reporting>>

PhoneRings(l) ==
  /\ link[l] = "open"
  /\ Room(l)
  /\ wire' = [wire EXCEPT ![l] =
                Append(@, Result("CLIP", "none", <<>>, <<>>))]
  /\ UNCHANGED <<ctrlVars, atBuffer, link, asked, phoneVars>>

\* Out of range, or closed by the phone.
LinkLost(l) ==
  /\ link[l] = "open"
  /\ link' = [link EXCEPT ![l] = "lost"]
  /\ HangUp(l)
  /\ UNCHANGED <<ctrlVars, atBuffer, phone>>
--------------------------------------------------------------------------
Receive(l) ==
  ReceiveLine(l) \/ ReceiveText(l) \/ ReceiveEnd(l) \/ ReceiveCRLF(l)

Callback(l) ==
  rfcommChannelOpenComplete(l) \/ rfcommChannelClosed(l) \/ Receive(l)

Environment(l) ==
  \/ rfcommChannelOpened(l)
  \/ PhoneAnswers(l)
  \/ \E n \in Indicators : PhoneChanges(l, n)
  \/ PhoneRings(l)
  \/ LinkLost(l)

Next ==
  \/ \E l \in Links : connect(l) \/ Callback(l) \/ Environment(l)
  \/ disconnect
  \/ callCommand
  \/ keepAliveFires

Spec == Init /\ [][Next]_vars

\* The stack delivers callbacks and the phone answers commands; that the
\* user acts, the timer fires or a channel is opened is not assumed.
FairSpec ==
  /\ Spec
  /\ \A l \in Links : WF_vars(Callback(l)) /\ WF_vars(PhoneAnswers(l))
--------------------------------------------------------------------------
(* Properties.                                                             *)

\* The command each state of the negotiation waits for (the comments of
\* SLCState).
Awaited ==
  [s \in Waiting |->
     CASE s = "waitingBRSFResponse" -> "BRSF"
       [] s = "waitingCINDTest" -> "CIND=?"
       [] s = "waitingCINDRead" -> "CIND?"
       [] s = "waitingCMER" -> "CMER"
       [] s = "waitingCHLD" -> "CHLD=?"]

\* An OK carries no name: processATResponse takes the next one as the answer
\* to the command its state waits for.  So while it negotiates, no other
\* command may be unanswered, in the phone or on the way back.
AnswersAwaited ==
  slcState \in Waiting =>
    /\ \A i \in 1 .. Len(asked[rfcommChannel]) :
         asked[rfcommChannel][i] = Awaited[slcState]
    /\ \A i \in 1 .. Len(wire[rfcommChannel]) :
         wire[rfcommChannel][i].to \in {Awaited[slcState], "none"}

\* handleCIEV looks a name up by position.  From the read of the values on,
\* the names are those of the phone at the other end, not of an earlier one.
NamesOfThisPhone ==
  slcState \in SLCStates
               \ {"idle", "waitingBRSFResponse", "waitingCINDTest"} =>
    indicatorNames = Layout[rfcommChannel]

\* The parts of the inductive invariant behind the properties of an orderly
\* session (one channel at a time, a patient user, whole packets).

\* One channel at a time is all this needs.  There is one that is not closed;
\* it is the controller's unless it was given up, and only an open one has
\* anything in flight.
LineInv ==
  /\ \A k, l \in Links : link[k] # "closed" /\ link[l] # "closed" => k = l
  /\ \A l \in Links :
       /\ link[l] \in {"opening", "open"} => rfcommChannel = l
       /\ link[l] = "open" => slcState # "idle"
       /\ link[l] # "open" =>
            asked[l] = <<>> /\ wire[l] = <<>> /\ ~reporting[l]
  /\ slcState # "idle" =>
       rfcommChannel # NoLink /\ link[rfcommChannel] \in {"open", "lost"}

\* With whole packets, text waits in the buffer only where no break was found
\* on a phone of Crlf, and then up to the first break of the next connection.
\* What the buffer begins with moves no negotiation.
BufferInv ==
  /\ atBuffer # <<>> => /\ slcState \in {"idle", "waitingBRSFResponse"}
                        /\ atBuffer[1].kind \notin {"OK", "end"}
  /\ \A l \in Links : link[l] = "open" =>
       /\ l \in Crlf => slcState = "waitingBRSFResponse"
       /\ \A i \in 1 .. Len(wire[l]) :
            wire[l][i].kind = "end" =>
              i = 1 /\ Len(atBuffer) = 1 /\ l \notin Crlf
       /\ wire[l] # <<>> /\ (atBuffer = <<>> <=> l \in Crlf)
            => wire[l][1].kind # "OK"

Final(m) == m.kind \in {"OK", "ERROR"}

\* In the negotiation command c is with the phone or answered, and its final
\* result is the last answer on the way.
Flight(c, out, in) ==
  /\ out \in {<<>>, <<c>>}
  /\ \A i \in 1 .. Len(in) :
       /\ in[i].to \in {c, "none"}
       /\ in[i].to = c => out = <<>>
       /\ in[i].to = "none" => in[i].kind \in {"CIEV", "CLIP", "end"}
       /\ Final(in[i]) => \A j \in 1 .. Len(in) : j > i => in[j].to = "none"

FlightInv ==
  slcState \in Waiting =>
    Flight(Awaited[slcState], asked[rfcommChannel], wire[rfcommChannel])

\* The names are read before the OK that ends the test of +CIND, and only
\* there.
NamesComing(known, l, in) ==
  \A i \in 1 .. Len(in) :
    /\ in[i].kind = "names" => in[i].names = Layout[l]
    /\ in[i].kind # "values"
    /\ in[i].kind = "OK" =>
         \/ known = Layout[l]
         \/ \E j \in 1 .. Len(in) : j < i /\ in[j].kind = "names"

NamesInv ==
  /\ slcState = "waitingCINDTest" =>
       NamesComing(indicatorNames, rfcommChannel, wire[rfcommChannel])
  /\ NamesOfThisPhone

\* osm-core is told of a connection only between its two events.
UpInv ==
  /\ slcState \in Waiting => ~up
  /\ up => \E l \in Links : link[l] \in {"open", "closing", "lost"}

OrderlyInv == LineInv /\ BufferInv /\ FlightInv /\ NamesInv /\ UpInv

\* A report of the phone of link l about its call.
IsCallReport(l, m) ==
  /\ m.kind = "CIEV"
  /\ m.values[1] \in 1 .. Len(Layout[l])
  /\ Layout[l][m.values[1]] = "call"

\* The last report on the way gives the present value of the call indicator;
\* with none on the way, what osm-core was told last does.
TrueReports(l, in, said, call) ==
  LET Reports(i) == IsCallReport(l, in[i])
  IN /\ \A i \in 1 .. Len(in) :
          /\ Reports(i)
          /\ \A j \in 1 .. Len(in) : j > i => ~Reports(j)
          => in[i].values[2] = call
     /\ /\ \A i \in 1 .. Len(in) : ~Reports(i)
        /\ said \in {"active", "ended"}
        => (said = "active") = (call = 1)

\* Reports are made only when the names are known, and no event outlives the
\* connection it is about.
ReportInv ==
  /\ atBuffer # <<>> => atBuffer[1].kind # "CIEV"
  /\ told # "none" => \E l \in Links : link[l] \in {"open", "closing", "lost"}
  /\ \A l \in Links : link[l] = "open" =>
       /\ reporting[l] =>
            slcState \notin {"idle", "waitingBRSFResponse", "waitingCINDTest"}
       /\ ~reporting[l] =>
            /\ told \notin {"active", "ended"}
            /\ \A i \in 1 .. Len(wire[l]) : wire[l][i].kind # "CIEV"
       /\ TrueReports(l, wire[l], told, phone[l]["call"])

\* With every report delivered, the last call event sent to osm-core is what
\* the phone says: call_active in a call, call_ended out of one.
CallTold ==
  /\ Writable
  /\ atBuffer = <<>>
  /\ told \in {"active", "ended"}
  /\ \A i \in 1 .. Len(wire[rfcommChannel]) :
       wire[rfcommChannel][i].kind # "CIEV"
  => (told = "active") = (phone[rfcommChannel]["call"] = 1)

\* hfp_connected is sent once per connection: slcCompleted is not reached
\* again before hfp_disconnected was sent.
ConnectedOnce ==
  [][(slcState \in Waiting /\ isConnected') => ~up /\ up']_vars

\* A negotiation and a connection have a channel, and a connection has its
\* keep-alive timer, also where channels overlap.
SessionInv ==
  /\ slcState # "idle" => rfcommChannel # NoLink
  /\ isConnected => keepAlive

\* One channel at a time, a phone that accepts every command, and whose line
\* breaks are found, is negotiated with to the end, whatever was left in the
\* buffer: an open channel is connected or goes away.
EndsOn(l) ==
  (link[l] = "open" /\ rfcommChannel = l) ~> (isConnected \/ link[l] # "open")
NegotiationEnds == \A l \in Links \ Crlf : EndsOn(l)

\* README.md: "implements the full HFP 1.8 SLC negotiation sequence".  HFP
\* phones end their lines in CR LF.
HfpNegotiationEnds == \A l \in Links : EndsOn(l)

\* osm-core hears of the end of every connection it heard of, also after a
\* disconnect_hfp of its own, from a stack that calls back.
LossReported ==
  \A l \in Links : (up /\ Dead(l)) ~> ~up

\* ARCHITECTURE.md: hfp_disconnected means the HFP connection is lost.  It
\* is not sent while the connection in use is up and its channel open.
DisconnectedMeansLost ==
  [][up /\ ~up' => ~(isConnected /\ Writable)]_vars
=============================================================================
