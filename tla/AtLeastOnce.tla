------------------------------- MODULE AtLeastOnce -------------------------------
(***************************************************************************)
(* What the transactional outbox promises: an event that was written is    *)
(* sent to the channel of its ride, its notification is queued, and only   *)
(* then is it marked as published.  How often it is sent is left open, and *)
(* so is the order.                                                        *)
(*                                                                         *)
(* Outbox is shown to implement this.                                      *)
(***************************************************************************)
CONSTANT Events

VARIABLES
  written,    \* the events that were committed with their transition
  sent,       \* those a subscriber of the channel was sent
  queued,     \* those whose notification was put on the queue
  marked      \* those that are marked as published

vars == <<written, sent, queued, marked>>

Init ==
  /\ written = {}
  /\ sent = {}
  /\ queued = {}
  /\ marked = {}

\* A transition commits the events in new.
Write(new) ==
  /\ new # {}
  /\ new \subseteq Events \ written
  /\ written' = written \cup new
  /\ UNCHANGED <<sent, queued, marked>>

Send(e) ==
  /\ e \in written
  /\ sent' = sent \cup {e}
  /\ UNCHANGED <<written, queued, marked>>

Queue(e) ==
  /\ e \in sent
  /\ queued' = queued \cup {e}
  /\ UNCHANGED <<written, sent, marked>>

Mark(batch) ==
  /\ batch \subseteq sent \cap queued
  /\ marked' = marked \cup batch
  /\ UNCHANGED <<written, sent, queued>>

Next ==
  \/ \E new \in SUBSET Events : Write(new)
  \/ \E e \in Events : Send(e) \/ Queue(e)
  \/ \E batch \in SUBSET Events : Mark(batch)

Spec == Init /\ [][Next]_vars

\* An event that can go on does go on, until it is marked.
FairSpec == Spec /\ \A e \in Events : WF_vars(Send(e) \/ Queue(e) \/ Mark({e}))
===================================================================================
