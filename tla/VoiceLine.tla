---------------------------- MODULE VoiceLine ----------------------------
(***************************************************************************)
(* What the phone and the caller may expect of either pipeline.            *)
(* osm_core/audio/realtime.py: "Public interface matches AudioPipeline ... *)
(* so main.py can swap between them".  Whatever answers, a local chain of  *)
(* engines or a speech service, there is one call at a time, and what is   *)
(* put on the air in a call answers something said in that call.           *)
(*                                                                         *)
(* A query is what the caller said and the answer that is made to it.      *)
(***************************************************************************)
EXTENDS Naturals

CONSTANT Queries

VARIABLES
  inCall,   \* the pipeline takes part in a call
  caller,   \* how many calls there have been: names the present caller
  asked,    \* asked[q]: the caller who asked q, 0 if nobody has yet
  said      \* <<query, caller>>: the answer to query was spoken to caller

vars == <<inCall, caller, asked, said>>

Init ==
  /\ inCall = FALSE
  /\ caller = 0
  /\ asked = [q \in Queries |-> 0]
  /\ said = {}

\* start_call
CallStarts ==
  /\ ~inCall
  /\ inCall' = TRUE
  /\ caller' = caller + 1
  /\ UNCHANGED <<asked, said>>

\* The caller was heard out.
Asks(q) ==
  /\ inCall
  /\ asked[q] = 0
  /\ asked' = [asked EXCEPT ![q] = caller]
  /\ UNCHANGED <<inCall, caller, said>>

\* A piece of the answer reaches the one who asked.
Says(q) ==
  /\ inCall
  /\ asked[q] = caller
  /\ said' = said \cup {<<q, caller>>}
  /\ UNCHANGED <<inCall, caller, asked>>

\* end_call, or the pipeline gives the call up.
CallEnds ==
  /\ inCall' = FALSE
  /\ UNCHANGED <<caller, asked, said>>

Next ==
  \/ CallStarts
  \/ \E q \in Queries : Asks(q) \/ Says(q)
  \/ CallEnds

Spec == Init /\ [][Next]_vars
==========================================================================
