-------------------------- MODULE OrderedBroadcast --------------------------
(***************************************************************************)
(* What the WebSocket server promises a subscriber, whatever the threads   *)
(* do: the handshake, numbered 0, and then every message broadcast since   *)
(* it subscribed, in order, none twice and none left out, until the server *)
(* gives it up.                                                            *)
(***************************************************************************)
EXTENDS Naturals, Sequences

CONSTANT Peers

VARIABLES
  published,    \* how many messages were broadcast
  subscribers,
  since,        \* how many of them before a peer subscribed
  stream        \* what each peer was sent

vars == <<published, subscribers, since, stream>>

Init ==
  /\ published = 0 /\ subscribers = {}
  /\ since = [p \in Peers |-> 0] /\ stream = [p \in Peers |-> <<>>]

Publish ==
  /\ published' = published + 1
  /\ UNCHANGED <<subscribers, since, stream>>

Handshake(p) ==
  /\ p \notin subscribers /\ stream[p] = <<>>
  /\ stream' = [stream EXCEPT ![p] = <<0>>]
  /\ UNCHANGED <<published, subscribers, since>>

Subscribe(p) ==
  /\ p \notin subscribers
  /\ subscribers' = subscribers \cup {p}
  /\ since' = [since EXCEPT ![p] = published]
  /\ UNCHANGED <<published, stream>>

Deliver(p) ==
  /\ p \in subscribers /\ stream[p] # <<>>
  /\ published = since[p] + Len(stream[p])
  /\ stream' = [stream EXCEPT ![p] = Append(@, published)]
  /\ UNCHANGED <<published, subscribers, since>>

Next ==
  Publish \/ \E p \in Peers : Handshake(p) \/ Subscribe(p) \/ Deliver(p)

Spec == Init /\ [][Next]_vars
=============================================================================
