-------------------------- MODULE PipelinedServer --------------------------
(* What one connection of a pipelining HTTP server promises: requests are    *)
(* answered in the order they came, a response is finished before the next   *)
(* one begins to count, and the application is told that a response ended    *)
(* when it is finished, neither earlier nor after the next one.  ServCnn     *)
(* implements it (ServCnnAnswers).                                           *)
EXTENDS Naturals

CONSTANT NReq     \* requests the peer sends on the connection

VARIABLES
  arrived,   \* requests received
  answered,  \* responses handed to the socket in full
  ended,     \* responses the application was told the end of
  conn       \* "open", "broken" (the socket refuses packets), "closed"

vars == <<arrived, answered, ended, conn>>

Init == arrived = 0 /\ answered = 0 /\ ended = 0 /\ conn = "open"

(* A request arrives (procRead()).                                           *)
Arrive ==
  /\ conn = "open" /\ arrived < NReq
  /\ arrived' = arrived + 1
  /\ UNCHANGED <<answered, ended, conn>>

(* The last packet of the oldest response that is not over goes out: from    *)
(* starttx() or from sendData().                                             *)
Answer ==
  /\ conn = "open" /\ answered = ended /\ answered < arrived
  /\ answered' = answered + 1
  /\ UNCHANGED <<arrived, ended, conn>>

(* endCtrl(): the response that has gone out is over.                        *)
End ==
  /\ conn = "open" /\ ended < answered
  /\ ended' = ended + 1
  /\ UNCHANGED <<arrived, answered, conn>>

(* A packet is refused: for good, and if starttx() sent it the response ends *)
(* there.                                                                    *)
Break ==
  /\ conn = "open" /\ ended < arrived
  /\ conn' = "broken"
  /\ ended' \in {ended, ended + 1}
  /\ UNCHANGED <<arrived, answered>>

(* What is asked of a broken connection ends without being sent.             *)
GiveUp ==
  /\ conn = "broken" /\ ended < arrived
  /\ ended' = ended + 1
  /\ UNCHANGED <<arrived, answered, conn>>

(* close(): whatever is left ends.                                           *)
Close ==
  /\ conn # "closed"
  /\ conn' = "closed" /\ ended' = arrived
  /\ UNCHANGED <<arrived, answered>>

Next == Arrive \/ Answer \/ End \/ Break \/ GiveUp \/ Close

Spec == Init /\ [][Next]_vars
=============================================================================
