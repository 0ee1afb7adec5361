--------------------------- MODULE DraftDelivery ---------------------------
(***************************************************************************)
(* What the message queue promises the person who queued a message: a     *)
(* draft is theirs until a delivery takes it, a delivery takes all of its  *)
(* drafts or none, and a draft that was taken leaves the queue only by     *)
(* their hand or when the delivery's text is part of the durable history.  *)
(* Otherwise it comes back.  Delivery is at least once: a delivery may be  *)
(* handed back although it was recorded, and consumed although it was      *)
(* handed back.  TurnMailbox is shown to implement this module.            *)
(***************************************************************************)
EXTENDS FiniteSets

CONSTANTS Messages, Deliveries

VARIABLES
  draft,      \* where each draft is: "absent", "pending" or "flying"
  batch,      \* the drafts each delivery was dispatched with
  logged      \* the deliveries whose text the history holds

dvars == <<draft, batch, logged>>

Pending == {m \in Messages : draft[m] = "pending"}
Move(S, place) == [m \in Messages |-> IF m \in S THEN place ELSE draft[m]]

Init == /\ draft = [m \in Messages |-> "absent"]
        /\ batch = [d \in Deliveries |-> {}]
        /\ logged = {}

Submit(m) == /\ draft[m] = "absent"
             /\ draft' = Move({m}, "pending")
             /\ UNCHANGED <<batch, logged>>

Withdraw(m) == /\ draft[m] = "pending"
               /\ draft' = Move({m}, "absent")
               /\ UNCHANGED <<batch, logged>>

\* A delivery keeps its drafts when it is sent again.
Dispatch(d, S) == /\ S # {} /\ S \subseteq Pending
                  /\ batch[d] \in {{}, S}
                  /\ draft' = Move(S, "flying")
                  /\ batch' = [batch EXCEPT ![d] = S]
                  /\ UNCHANGED logged

Log(d) == /\ batch[d] # {}
          /\ logged' = logged \cup {d}
          /\ UNCHANGED <<draft, batch>>

Consume(d) == /\ d \in logged
              /\ draft' = Move(batch[d], "absent")
              /\ UNCHANGED <<batch, logged>>

Return(d) == /\ \E S \in SUBSET batch[d] : draft' = Move(S, "pending")
             /\ UNCHANGED <<batch, logged>>

Next == \/ \E m \in Messages : Submit(m) \/ Withdraw(m)
        \/ \E d \in Deliveries : \/ Log(d) \/ Consume(d) \/ Return(d)
                                 \/ \E S \in SUBSET Messages : Dispatch(d, S)

Spec == Init /\ [][Next]_dvars
=============================================================================
