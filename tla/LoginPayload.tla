---------------------------- MODULE LoginPayload ----------------------------
(***************************************************************************)
(* What GameDataStore promises its callers: one store that changes as a    *)
(* whole, of which a read gets the contents and a buffered read the        *)
(* serialised form, never that of contents half changed or changed since.  *)
(***************************************************************************)
CONSTANTS Thread, Content, Payload, Nothing

VARIABLES
  text,   \* the serialised form of the contents
  got     \* what each thread's last call gave it

Init ==
  /\ \E v \in Content : text = Payload[v]
  /\ got = [t \in Thread |-> Nothing]

Commit ==
  /\ \E v \in Content : text' = Payload[v]
  /\ UNCHANGED got

ReadBuffer(t) ==
  /\ got' = [got EXCEPT ![t] = text]
  /\ UNCHANGED text

ReadContent(t) ==
  /\ \E v \in Content : Payload[v] = text /\ got' = [got EXCEPT ![t] = v]
  /\ UNCHANGED text

Forget(t) ==
  /\ got' = [got EXCEPT ![t] = Nothing]
  /\ UNCHANGED text

Next == Commit \/ \E t \in Thread : ReadBuffer(t) \/ ReadContent(t) \/ Forget(t)

Spec == Init /\ [][Next]_<<text, got>>
=============================================================================
