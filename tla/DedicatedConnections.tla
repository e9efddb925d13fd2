------------------------ MODULE DedicatedConnections ------------------------
(***************************************************************************)
(* What the notification adapters of both databases promise about their    *)
(* dedicated connections, whatever registrations, losses, restores,        *)
(* unlistenNotify calls and destroy() do at the same time:                 *)
(*                                                                         *)
(*   - a channel has one connection at most, which is first set up, then   *)
(*     published, then withdrawn and closed: it never goes back;           *)
(*   - a published connection is replaced only after it was withdrawn, and *)
(*     closed only after that;                                             *)
(*   - once destroy() began, no connection is published.                   *)
(***************************************************************************)

CONSTANTS Channels,
          Conns,    \* identities of connections; a closed one's may be reused
          None      \* no connection

VARIABLES
    conn,       \* [Channels -> the connection it has or is given, or None]
    published,  \* the channels that listen on their connection
    leaving,    \* connections that are open and about to be closed
    destroyed   \* destroy() began

vars == <<conn, published, leaving, destroyed>>

Init ==
    /\ conn = [ch \in Channels |-> None]
    /\ published = {}
    /\ leaving = {}
    /\ destroyed = FALSE

Open(ch, c) ==
    /\ conn[ch] = None
    /\ c \notin leaving
    /\ \A other \in Channels : c # conn[other]
    /\ conn' = [conn EXCEPT ![ch] = c]
    /\ UNCHANGED <<published, leaving, destroyed>>

Publish(ch) ==
    /\ ~destroyed
    /\ conn[ch] # None
    /\ ch \notin published
    /\ published' = published \cup {ch}
    /\ UNCHANGED <<conn, leaving, destroyed>>

\* The channels S give up their connections; the connections C are closed.
Withdraw(S, C) ==
    /\ conn' = [ch \in Channels |-> IF ch \in S THEN None ELSE conn[ch]]
    /\ published' = published \ S
    /\ leaving' = (leaving \cup ({conn[ch] : ch \in S} \ {None})) \ C

\* Closed is what was withdrawn before, or was never published.
Close ==
    /\ \E S \in SUBSET Channels :
       \E C \in SUBSET (leaving \cup {conn[ch] : ch \in S \ published}) :
          Withdraw(S, C)
    /\ UNCHANGED destroyed

Destroy ==
    /\ ~destroyed
    /\ destroyed' = TRUE
    /\ \E S \in SUBSET Channels : Withdraw(S, {})

Next ==
    \/ \E ch \in Channels : Publish(ch) \/ \E c \in Conns : Open(ch, c)
    \/ Close
    \/ Destroy

Spec == Init /\ [][Next]_vars
=============================================================================
