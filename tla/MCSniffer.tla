----------------------------- MODULE MCSniffer ------------------------------
(***************************************************************************)
(* Sniffer for TLC: a behaviour has either both signals and one stream,    *)
(* with all payloads but the headers of clients, or SIGUSR1 alone and all  *)
(* ids, with those headers.                                                *)
(***************************************************************************)
EXTENDS Sniffer

VARIABLE watched   \* what may happen in this behaviour

Watched == {[ids |-> {CHOOSE i \in Id : TRUE}, streams |-> 1, signals |-> T!Signals,
             payloads |-> {p \in Payload : p.from = SERVER \/ ~p.header}],
            [ids |-> Id, streams |-> MaxStreams, signals |-> {T!SIGUSR1},
             payloads |-> {p \in Payload : p.from = CLIENT /\ p.header}]}

MCInit == SnifferInit /\ watched \in Watched

MCNext == /\ SnifferNext
          /\ open' \subseteq watched.ids /\ opened' <= watched.streams
          /\ pending' \subseteq watched.signals
          /\ call' # NoCall => call'.payload \in watched.payloads
          /\ UNCHANGED watched

MCSpec == MCInit /\ [][MCNext]_<<all, watched>> /\ \A t \in T!Threads : WF_all(Run(t))
=============================================================================
