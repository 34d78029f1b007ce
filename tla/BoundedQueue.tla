---------------------------- MODULE BoundedQueue ----------------------------
(***************************************************************************)
(* What the single-producer single-consumer ring promises its two users    *)
(* (src/realtime/ring.rs): values come out in the order they went in, each *)
(* once, no more than Capacity of them wait at a time, and what is left    *)
(* when both handles are gone is dropped.                                  *)
(***************************************************************************)
EXTENDS Naturals, Sequences

CONSTANTS Capacity, Values, None

VARIABLES
  queue,  \* the values waiting
  sent,   \* what the producer's last call answered
  got,    \* what the consumer's last call answered
  open    \* the handles still held

Init ==
  /\ queue = <<>>
  /\ sent = "nothing" /\ got = "nothing"
  /\ open = {"producer", "consumer"}

Push ==
  /\ Len(queue) < Capacity
  /\ \E v \in Values : queue' = Append(queue, v)
  /\ sent' = "ok"
  /\ UNCHANGED <<got, open>>

(* A refusal may come late: the producer may not have seen the last pops.  *)
Refuse ==
  /\ sent' \in {"refused", "full"}
  /\ UNCHANGED <<queue, got, open>>

SeeRoom ==
  /\ Len(queue) < Capacity
  /\ sent' = "notFull"
  /\ UNCHANGED <<queue, got, open>>

Pop ==
  /\ queue # <<>>
  /\ queue' = Tail(queue)
  /\ got' = Head(queue)
  /\ UNCHANGED <<sent, open>>

(* Likewise the consumer may not have seen the last pushes.                *)
Miss ==
  /\ got' \in {None, "empty"}
  /\ UNCHANGED <<queue, sent, open>>

SeeValue ==
  /\ queue # <<>>
  /\ got' = "notEmpty"
  /\ UNCHANGED <<queue, sent, open>>

Close ==
  /\ \E h \in open : open' = open \ {h}
  /\ UNCHANGED <<queue, sent, got>>

Drain ==
  /\ open = {} /\ queue # <<>>
  /\ queue' = Tail(queue)
  /\ UNCHANGED <<sent, got, open>>

Next ==
  \/ Push \/ Refuse \/ SeeRoom
  \/ Pop \/ Miss \/ SeeValue
  \/ Close \/ Drain

Spec == Init /\ [][Next]_<<queue, sent, got, open>>
=============================================================================
