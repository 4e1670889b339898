--------------------------- MODULE ConflatingTopic ---------------------------
(***************************************************************************)
(* What a subscription to the state engine promises, without polls, locks, *)
(* notify channels or forwarders: a topic whose versions are numbered.  A  *)
(* subscriber has one slot, which holds the newest version it has not been *)
(* given yet.  A subscriber that cannot be served is dropped.              *)
(***************************************************************************)
EXTENDS Integers

CONSTANT Subs   \* subscriptions; each is used once

VARIABLES
    latest,   \* number of the newest version, 0 before the first
    used,     \* subscriptions made so far
    open,     \* subscriptions that are served
    slot,     \* newest version not handed over yet, 0 if none
    got       \* last version handed over

topicVars == <<latest, used, open, slot, got>>

Init ==
    /\ latest = 0
    /\ used = {}
    /\ open = {}
    /\ slot = [s \in Subs |-> 0]
    /\ got = [s \in Subs |-> 0]

(* A new version replaces what the slots hold; some subscribers are dropped. *)
Publish ==
    /\ latest' = latest + 1
    /\ \E fit \in SUBSET open :
          /\ open' = fit
          /\ slot' = [s \in Subs |-> IF s \in fit THEN latest + 1
                                     ELSE IF s \in open THEN 0
                                     ELSE slot[s]]
    /\ UNCHANGED <<used, got>>

(* A subscription starts with the newest version, or is refused. *)
Open(s) ==
    /\ s \notin used
    /\ used' = used \cup {s}
    /\ \/ /\ open' = open \cup {s}
          /\ slot' = [slot EXCEPT ![s] = latest]
       \/ UNCHANGED <<open, slot>>
    /\ UNCHANGED <<latest, got>>

Take(s) ==
    /\ slot[s] # 0
    /\ got' = [got EXCEPT ![s] = slot[s]]
    /\ slot' = [slot EXCEPT ![s] = 0]
    /\ UNCHANGED <<latest, used, open>>

Leave(s) ==
    /\ s \in open
    /\ open' = open \ {s}
    /\ UNCHANGED <<latest, used, slot, got>>

Discard(s) ==
    /\ s \in used \ open
    /\ slot' = [slot EXCEPT ![s] = 0]
    /\ UNCHANGED <<latest, used, open, got>>

Next ==
    \/ Publish
    \/ \E s \in Subs : Open(s) \/ Take(s) \/ Leave(s) \/ Discard(s)

Spec == Init /\ [][Next]_topicVars

=============================================================================
