------------------------------- MODULE Notice -------------------------------
(***************************************************************************)
(* What the owner is promised of every message, be it an alert about the   *)
(* machine or a report of sales: he hears it once, and what becomes of it  *)
(* is written down once.                                                   *)
(*                                                                         *)
(* Once has a limit.  Every request for a message carries the same key,    *)
(* and is recognised by it until the key has run out.  No run takes up a   *)
(* message whose key has run out, but a run that began before may send     *)
(* after, and is then heard again.                                         *)
(*                                                                         *)
(* A message is open until it is sent, which it is only after the owner    *)
(* has heard it, or left to a person, which it may be while a request that *)
(* carries it is still on its way.  Claims, retries and jobs that stop are *)
(* the business of modules AlertDelivery and OwnerReport, which are shown  *)
(* to implement this module.                                               *)
(***************************************************************************)
EXTENDS Naturals

CONSTANT Messages

VARIABLES
  heard,    \* how often each message was broadcast
  verdict,  \* "open", "sent" or "left"
  expired,  \* the messages whose key has run out
  underway  \* the messages a run may still send, having begun before that

vars == <<heard, verdict, expired, underway>>

Verdicts == {"open", "sent", "left"}

TypeOK ==
  /\ heard \in [Messages -> Nat]
  /\ verdict \in [Messages -> Verdicts]
  /\ expired \subseteq Messages
  /\ underway \subseteq Messages

Init ==
  /\ heard = [m \in Messages |-> 0]
  /\ verdict = [m \in Messages |-> "open"]
  /\ expired = {}
  /\ underway = {}

-----------------------------------------------------------------------------

\* The first time, or again with a key that has run out on the way.
Announce(m) ==
  /\ m \in underway
  /\ heard[m] = 0 \/ m \in expired
  /\ heard' = [heard EXCEPT ![m] = @ + 1]
  /\ UNCHANGED <<verdict, expired, underway>>

\* Some open messages are settled; what was sent was heard.
Settle ==
  /\ verdict' \in [Messages -> Verdicts]
  /\ \A m \in Messages :
       verdict'[m] # verdict[m] =>
         /\ verdict[m] = "open"
         /\ verdict'[m] = "sent" => heard[m] > 0

\* Keys run out for good, and no run begins with one that has.
KeysRunOut ==
  /\ expired \subseteq expired' /\ expired' \subseteq Messages
  /\ underway' \subseteq Messages
  /\ underway' \intersect expired' \subseteq underway

Proceed == Settle /\ KeysRunOut /\ UNCHANGED heard

Next == Proceed \/ \E m \in Messages : Announce(m)

Spec == Init /\ [][Next]_vars
=============================================================================
