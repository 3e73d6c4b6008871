------------------------------ MODULE VmmFdBroker ------------------------------
(***************************************************************************)
(* The hand-over of a CUDA VMM allocation in CUDAVMMTensorBridge           *)
(* (rl_engine/executors/bridge.py): publish exports the allocation as a    *)
(* file descriptor and starts a broker thread that sends it over a Unix    *)
(* socket, consumers in other processes connect, receive, map and check    *)
(* it, and release stops the thread and closes the descriptor.             *)
(*                                                                         *)
(* publish returns while the thread may not have bound its socket yet, and *)
(* release waits at most a second for the thread, so all of these overlap. *)
(* The descriptor is a number: once it is closed, another allocation of    *)
(* the same process may get it.                                            *)
(***************************************************************************)
EXTENDS Naturals, Sequences

CONSTANTS Consumers, Poke, Nobody

ASSUME ConnectionsAssumption == Poke \notin Consumers /\ Nobody \notin Consumers \cup {Poke}

VARIABLES
    broker,    \* where the broker thread is
    serving,   \* the connection it is sending to
    listening, \* the socket accepts connections
    pathThere, \* the socket file exists
    stop,      \* stop_event
    backlog,   \* connections not accepted yet
    fd,        \* what the exported descriptor's number refers to
    release,   \* where the publisher's release is
    timedOut,  \* thread.join(timeout=1) gave up
    con,       \* consumer -> where its attach is
    received   \* consumer -> the allocation whose descriptor it got

pubVars == <<release, timedOut>>
brokerVars == <<broker, serving>>
vars == <<broker, serving, listening, pathThere, stop, backlog, fd, release,
          timedOut, con, received>>

Init ==
    /\ broker = "starting"
    /\ serving = Nobody
    /\ listening = FALSE
    /\ pathThere = FALSE
    /\ stop = FALSE
    /\ backlog = <<>>
    /\ fd = "published"
    /\ release = "no"
    /\ timedOut = FALSE
    /\ con = [c \in Consumers |-> "idle"]
    /\ received = [c \in Consumers |-> "nothing"]

-----------------------------------------------------------------------------
(***************************************************************************)
(* The broker thread.                                                      *)
(***************************************************************************)
Bind ==
    /\ broker = "starting"
    /\ broker' = "loop"
    /\ listening' = TRUE
    /\ pathThere' = TRUE
    /\ UNCHANGED <<serving, stop, backlog, fd, pubVars, con, received>>

\* "while not stop_event.is_set()", then accept.
CheckStop ==
    /\ broker = "loop"
    /\ broker' = IF stop THEN "closing" ELSE "accept"
    /\ UNCHANGED <<serving, listening, pathThere, stop, backlog, fd, pubVars, con, received>>

Accept ==
    /\ broker = "accept"
    /\ backlog # <<>>
    /\ serving' = Head(backlog)
    /\ backlog' = Tail(backlog)
    /\ broker' = "send"
    /\ UNCHANGED <<listening, pathThere, stop, fd, pubVars, con, received>>

\* accept times out after 0.1 s without a connection.
AcceptTimesOut ==
    /\ broker = "accept"
    /\ backlog = <<>>
    /\ broker' = "loop"
    /\ UNCHANGED <<serving, listening, pathThere, stop, backlog, fd, pubVars, con, received>>

\* Mutant: when sending fails, the connection is left open.
SendLeavesOpen ==
    /\ broker = "send"
    /\ IF serving \in Consumers /\ con[serving] = "connected" /\ fd # "closed"
       THEN /\ received' = [received EXCEPT ![serving] = fd]
            /\ con' = [con EXCEPT ![serving] = "received"]
       ELSE UNCHANGED <<con, received>>
    /\ broker' = IF fd = "closed" THEN "closing" ELSE "loop"
    /\ serving' = Nobody
    /\ UNCHANGED <<listening, pathThere, stop, backlog, fd, pubVars>>

\* _send_fd: the peer gets whatever the number refers to now.  A peer that has
\* gone is skipped (BrokenPipeError); a closed descriptor is an OSError that
\* ends the thread, and the connection with it.
Send ==
    /\ broker = "send"
    /\ IF serving \in Consumers /\ con[serving] = "connected" /\ fd # "closed"
       THEN /\ received' = [received EXCEPT ![serving] = fd]
            /\ con' = [con EXCEPT ![serving] = "received"]
       ELSE /\ con' = [c \in Consumers |->
                         IF c = serving /\ con[c] = "connected" THEN "failed" ELSE con[c]]
            /\ UNCHANGED received
    /\ broker' = IF fd = "closed" THEN "closing" ELSE "loop"
    /\ serving' = Nobody
    /\ UNCHANGED <<listening, pathThere, stop, backlog, fd, pubVars>>

\* server.close(): connections that were never accepted are reset.
CloseServer ==
    /\ broker = "closing"
    /\ broker' = "ended"
    /\ listening' = FALSE
    /\ backlog' = <<>>
    /\ con' = [c \in Consumers |->
                 IF con[c] = "connected" /\ \E i \in DOMAIN backlog : backlog[i] = c
                 THEN "failed" ELSE con[c]]
    /\ UNCHANGED <<serving, pathThere, stop, fd, pubVars, received>>

-----------------------------------------------------------------------------
(***************************************************************************)
(* The publisher's release, in the trainer's own thread.                   *)
(***************************************************************************)
SetStop ==
    /\ release = "no"
    /\ stop' = TRUE
    /\ release' = "poke"
    /\ UNCHANGED <<brokerVars, listening, pathThere, backlog, fd, timedOut, con, received>>

\* Mutant: the thread is woken and not joined.
PokeWithoutJoin ==
    /\ release = "poke"
    /\ backlog' = IF listening /\ pathThere THEN Append(backlog, Poke) ELSE backlog
    /\ release' = "unlink"
    /\ UNCHANGED <<brokerVars, listening, pathThere, stop, fd, timedOut, con, received>>

\* A connection of release's own wakes accept; it may be refused.
PokeBroker ==
    /\ release = "poke"
    /\ backlog' = IF listening /\ pathThere THEN Append(backlog, Poke) ELSE backlog
    /\ release' = "join"
    /\ UNCHANGED <<brokerVars, listening, pathThere, stop, fd, timedOut, con, received>>

Join ==
    /\ release = "join"
    /\ timedOut' = (broker # "ended")
    /\ release' = "unlink"
    /\ UNCHANGED <<brokerVars, listening, pathThere, stop, backlog, fd, con, received>>

\* Mutant: the socket file is left behind.
UnlinkNothing ==
    /\ release = "unlink"
    /\ release' = "close"
    /\ UNCHANGED <<brokerVars, listening, pathThere, stop, backlog, fd, timedOut, con, received>>

UnlinkPath ==
    /\ release = "unlink"
    /\ pathThere' = FALSE
    /\ release' = "close"
    /\ UNCHANGED <<brokerVars, listening, stop, backlog, fd, timedOut, con, received>>

\* release_allocation closes the exported descriptor.
CloseFd ==
    /\ release = "close"
    /\ fd' = "closed"
    /\ release' = "done"
    /\ UNCHANGED <<brokerVars, listening, pathThere, stop, backlog, timedOut, con, received>>

\* The next publish gets the same number for another allocation.
ReuseNumber ==
    /\ release = "done"
    /\ fd = "closed"
    /\ fd' = "another"
    /\ UNCHANGED <<brokerVars, listening, pathThere, stop, backlog, pubVars, con, received>>

-----------------------------------------------------------------------------
(***************************************************************************)
(* Consumers: _attach_cuda_vmm_manifest.                                   *)
(***************************************************************************)
Connect(c) ==
    /\ con[c] = "idle"
    /\ IF listening /\ pathThere
       THEN /\ con' = [con EXCEPT ![c] = "connected"]
            /\ backlog' = Append(backlog, c)
       ELSE /\ con' = [con EXCEPT ![c] = "failed"]
            /\ UNCHANGED backlog
    /\ UNCHANGED <<brokerVars, listening, pathThere, stop, fd, pubVars, received>>

\* Import the received allocation, map it and compare every tensor with its
\* descriptor; on a mismatch everything is closed again and the attach raises.
MapAndCheck(c) ==
    /\ con[c] = "received"
    /\ con' = [con EXCEPT ![c] = IF received[c] = "published" THEN "attached" ELSE "failed"]
    /\ received' = [received EXCEPT ![c] = IF @ = "published" THEN @ ELSE "nothing"]
    /\ UNCHANGED <<brokerVars, listening, pathThere, stop, backlog, fd, pubVars>>

\* The consumer process dies, or gives the update back.
Leave(c) ==
    /\ con[c] \in {"connected", "received", "attached"}
    /\ con' = [con EXCEPT ![c] = "failed"]
    /\ received' = [received EXCEPT ![c] = "nothing"]
    /\ UNCHANGED <<brokerVars, listening, pathThere, stop, backlog, fd, pubVars>>

\* update_weights is called again with the same manifest.
Retry(c) ==
    /\ con[c] = "failed"
    /\ con' = [con EXCEPT ![c] = "idle"]
    /\ \A i \in DOMAIN backlog : backlog[i] # c
    /\ serving # c
    /\ UNCHANGED <<brokerVars, listening, pathThere, stop, backlog, fd, pubVars, received>>

BrokerNext == Bind \/ CheckStop \/ Accept \/ AcceptTimesOut \/ Send \/ CloseServer
ReleaseNext == PokeBroker \/ Join \/ UnlinkPath \/ CloseFd

Next ==
    \/ BrokerNext \/ SetStop \/ ReleaseNext \/ ReuseNumber
    \/ \E c \in Consumers : Connect(c) \/ MapAndCheck(c) \/ Leave(c) \/ Retry(c)

Spec == Init /\ [][Next]_vars

\* The broker is a running daemon thread, and a release or an attach that has
\* begun goes on; nobody has to publish, connect, retry or release.
FairSpec ==
    /\ Spec
    /\ WF_vars(BrokerNext)
    /\ WF_vars(ReleaseNext)
    /\ \A c \in Consumers : WF_vars(MapAndCheck(c))

-----------------------------------------------------------------------------
(***************************************************************************)
(* Properties.                                                             *)
(***************************************************************************)
TypeOK ==
    /\ broker \in {"starting", "loop", "accept", "send", "closing", "ended"}
    /\ serving \in Consumers \cup {Poke, Nobody}
    /\ listening \in BOOLEAN /\ pathThere \in BOOLEAN
    /\ stop \in BOOLEAN /\ timedOut \in BOOLEAN
    /\ backlog \in Seq(Consumers \cup {Poke})
    /\ fd \in {"published", "closed", "another"}
    /\ release \in {"no", "poke", "join", "unlink", "close", "done"}
    /\ con \in [Consumers -> {"idle", "connected", "received", "attached", "failed"}]
    /\ received \in [Consumers -> {"nothing", "published", "another"}]

\* The broker hands out a descriptor that is not the published allocation's
\* only if release stopped waiting for the thread.
WrongFdNeedsTimeout ==
    \A c \in Consumers : received[c] = "another" => timedOut

\* When release has returned, and did not have to give up on the thread, there
\* is no socket file, no thread and no listening socket left, and none of them
\* comes back.
ReleasedClean ==
    release = "done" /\ ~ timedOut => ~ pathThere /\ ~ listening /\ broker = "ended"

\* Nobody hangs: a consumer that connected gets a descriptor or an error, also
\* when release, the end of the thread or a closed descriptor comes between, and
\* release ends, and the broker thread with it.
HandOversEnd ==
    /\ \A c \in Consumers : con[c] = "connected" ~> con[c] # "connected"
    /\ stop ~> release = "done" /\ broker = "ended"
=============================================================================
