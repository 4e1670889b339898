--------------------------- MODULE TopicRefinement ---------------------------
(***************************************************************************)
(* The state engine's subscriptions implement ConflatingTopic: the         *)
(* versions are the sequence numbers of the published snapshots, a slot is *)
(* the pending list of a Subscription, and got is what its forwarder       *)
(* handed to the subscriber's function.                                    *)
(***************************************************************************)
EXTENDS StateEngine

Topic == INSTANCE ConflatingTopic
         WITH Subs <- Clients,
              latest <- current.seq,
              used <- {c \in Clients : fwd[c] # "none"},
              open <- subs,
              slot <- pending,
              got <- delivered

(* Engine.Subscribe, apply, Drain, Unsubscribe and Close keep the promise of
   ConflatingTopic: every step of the engine is a step of the topic or leaves
   it alone. *)
ImplementsTopic == Topic!Spec

=============================================================================
