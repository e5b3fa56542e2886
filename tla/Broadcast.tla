------------------------------ MODULE Broadcast ------------------------------
(***************************************************************************)
(* What the fan-out of the service promises its clients, with no bucket,   *)
(* task or socket in sight: a client listens to one source for good, and   *)
(* from the first item it is sent it is sent every item of that source, in *)
(* order and once each, until the source gives it up.  A client that was   *)
(* given up, or that missed an item, is sent nothing more.                 *)
(***************************************************************************)
EXTENDS Naturals

CONSTANTS Clients, Sources, None

VARIABLES
    source,     \* client -> what it listens to, or None
    produced,   \* source -> the items it has produced
    got,        \* client -> the number of the last item it was sent, or 0
    dropped     \* the clients that were given up

Init ==
    /\ source = [c \in Clients |-> None]
    /\ produced = [f \in Sources |-> 0]
    /\ got = [c \in Clients |-> 0]
    /\ dropped = {}

Join(c) ==
    /\ source[c] = None
    /\ \E f \in Sources : source' = [source EXCEPT ![c] = f]
    /\ UNCHANGED <<produced, got, dropped>>

Produce(f) ==
    /\ produced' = [produced EXCEPT ![f] = @ + 1]
    /\ UNCHANGED <<source, got, dropped>>

Listeners(f) == {c \in Clients : source[c] = f /\ c \notin dropped}

\* Some listeners are sent the latest item, some others are given up.
Serve(f) ==
    \E sent, failed \in SUBSET Listeners(f) :
        /\ sent \cap failed = {}
        /\ \A c \in sent : got[c] = 0 \/ got[c] + 1 = produced[f]
        /\ got' = [c \in Clients |-> IF c \in sent THEN produced[f] ELSE got[c]]
        /\ dropped' = dropped \cup failed
        /\ UNCHANGED <<source, produced>>

Next ==
    \/ \E c \in Clients : Join(c)
    \/ \E f \in Sources : Produce(f) \/ Serve(f)

Spec == Init /\ [][Next]_<<source, produced, got, dropped>>
=============================================================================
