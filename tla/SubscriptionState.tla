-------------------------- MODULE SubscriptionState --------------------------
(***************************************************************************)
(* The subscription tracker that the venue adapters share:                 *)
(* SubscriptionState (crates/network/src/websocket/subscription.rs).  Its  *)
(* operations are functions of a record                                    *)
(*     confirmed            topics the venue has acknowledged              *)
(*     pending_subscribe    topics asked for and not acknowledged          *)
(*     pending_unsubscribe  topics given up and not acknowledged           *)
(*     reference_counts     how many subscribers each topic has            *)
(* A topic stands for its pair of channel and symbol: track_topic,         *)
(* untrack_topic and is_tracked are the operations of a set of such pairs. *)
(*                                                                         *)
(* Each operation is one step here.  The code keeps the sets in maps with  *)
(* locks of their own: confirm_subscribe and mark_failure look at one map  *)
(* and then write another, so that mark_unsubscribe on another thread can  *)
(* come between the two and leave a topic in two sets.                     *)
(***************************************************************************)
EXTENDS Integers

NoSubscriptions(Topics) ==
    [confirmed |-> {}, pending_subscribe |-> {}, pending_unsubscribe |-> {},
     reference_counts |-> [t \in Topics |-> 0]]

all_topics(s) == s.confirmed \cup s.pending_subscribe

mark_subscribe(s, topic) ==
    IF topic \in s.confirmed THEN s
    ELSE [s EXCEPT !.pending_unsubscribe = @ \ {topic},
                   !.pending_subscribe = @ \cup {topic}]

mark_unsubscribe(s, topic) ==
    [s EXCEPT !.pending_unsubscribe = @ \cup {topic}, !.confirmed = @ \ {topic},
              !.pending_subscribe = @ \ {topic}]

\* Mutant: a late confirmation is not ignored.
confirm_subscribe_late(s, topic) ==
    [s EXCEPT !.pending_subscribe = @ \ {topic}, !.confirmed = @ \cup {topic},
              !.pending_unsubscribe = @ \ {topic}]

confirm_subscribe(s, topic) ==
    IF topic \in s.pending_unsubscribe THEN s
    ELSE [s EXCEPT !.pending_subscribe = @ \ {topic}, !.confirmed = @ \cup {topic}]

\* Mutant: a stale acknowledgement is not ignored.
confirm_unsubscribe_stale(s, topic) ==
    [s EXCEPT !.pending_unsubscribe = @ \ {topic}, !.confirmed = @ \ {topic}]

confirm_unsubscribe(s, topic) ==
    IF topic \notin s.pending_unsubscribe THEN s
    ELSE [s EXCEPT !.pending_unsubscribe = @ \ {topic}, !.confirmed = @ \ {topic}]

mark_failure(s, topic) ==
    IF topic \in s.pending_unsubscribe THEN s
    ELSE [s EXCEPT !.confirmed = @ \ {topic}, !.pending_subscribe = @ \cup {topic}]

\* add_reference and remove_reference return whether the topic is the first or the last.
is_first_reference(s, topic) == s.reference_counts[topic] = 0
add_reference(s, topic) == [s EXCEPT !.reference_counts[topic] = @ + 1]
is_last_reference(s, topic) == s.reference_counts[topic] = 1
remove_reference(s, topic) ==
    IF s.reference_counts[topic] = 0 THEN s
    ELSE [s EXCEPT !.reference_counts[topic] = @ - 1]
=============================================================================
