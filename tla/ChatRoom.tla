------------------------------ MODULE ChatRoom ------------------------------
(***************************************************************************)
(* What the chat server promises the people in a room, without queues and  *)
(* connections: names are not shared, everybody is sent the same posts in  *)
(* the same order for as long as they are in the room, and is shown them   *)
(* in that order.  If the room is lossy, a post may miss some of them.     *)
(***************************************************************************)
EXTENDS Sequences, Integers

CONSTANTS Member,  \* who may be in the room
          String,  \* names and texts; those without a name have the name ""
          Lossy    \* whether posts and replies may be lost

VARIABLES name,       \* name[m], for the members who are in the room
          transcript, \* transcript[m]: all that m was sent since it entered
          shown       \* shown[m]: what m has seen of it

roomVars == <<name, transcript, shown>>

Result(n) == [kind |-> "result", who |-> n, text |-> ""]
Refusal(reason) == [kind |-> "error", who |-> "", text |-> reason]
Arrived(n) == [kind |-> "arrived", who |-> n, text |-> ""]
Gone(n) == [kind |-> "gone", who |-> n, text |-> ""]
Message(n, text) == [kind |-> "message", who |-> n, text |-> text]

Reason == {"name already used", "invalid params", "not implemented"}

(* Frame f is added to what the members in S have. *)
Push(q, S, f) == [m \in Member |-> IF m \in S THEN Append(q[m], f) ELSE q[m]]
Missed == IF Lossy THEN SUBSET Member ELSE {{}}

Init ==
  /\ name = <<>>
  /\ transcript = [m \in Member |-> <<>>]
  /\ shown = [m \in Member |-> <<>>]

Enter(m) ==
  /\ m \notin DOMAIN name
  /\ name' = [d \in DOMAIN name \union {m} |-> IF d = m THEN "" ELSE name[d]]
  /\ UNCHANGED <<transcript, shown>>

(* The reply comes before the announcement. *)
TakeName(m, n) ==
  /\ m \in DOMAIN name
  /\ n \notin {name[d] : d \in DOMAIN name}
  /\ name' = [name EXCEPT ![m] = n]
  /\ \E mute, deaf \in Missed :
       transcript' = Push(Push(transcript, {m} \ mute, Result(n)),
                          DOMAIN name \ deaf, Arrived(n))
  /\ UNCHANGED shown

Refuse(m, reason) ==
  /\ m \in DOMAIN name
  /\ \E mute \in Missed : transcript' = Push(transcript, {m} \ mute, Refusal(reason))
  /\ UNCHANGED <<name, shown>>

Say(m, text) ==
  /\ m \in DOMAIN name
  /\ \E deaf \in Missed :
       transcript' = Push(transcript, DOMAIN name \ deaf, Message(name[m], text))
  /\ UNCHANGED <<name, shown>>

Show(m) ==
  /\ Len(shown[m]) < Len(transcript[m])
  /\ shown' = [shown EXCEPT ![m] = Append(@, transcript[m][Len(@) + 1])]
  /\ UNCHANGED <<name, transcript>>

Leave(m) ==
  /\ m \in DOMAIN name
  /\ name' = [d \in DOMAIN name \ {m} |-> name[d]]
  /\ \E deaf \in Missed :
       transcript' = [Push(transcript, DOMAIN name \ deaf, Gone(name[m])) EXCEPT ![m] = <<>>]
  /\ shown' = [shown EXCEPT ![m] = <<>>]

Next == \E m \in Member :
          \/ Enter(m)
          \/ \E n \in String : TakeName(m, n)
          \/ \E reason \in Reason : Refuse(m, reason)
          \/ \E text \in String : Say(m, text)
          \/ Show(m)
          \/ Leave(m)

Safety == Init /\ [][Next]_roomVars

(* What a member was sent it is shown, unless it leaves first. *)
ShownAll == \A m \in Member : shown[m] # transcript[m] ~> shown[m] = transcript[m]

Spec == Safety /\ ShownAll
=============================================================================
