------------------------------ MODULE LiveValue ------------------------------
(***************************************************************************)
(* What a market-data stream promises its readers, with no queue, frame or *)
(* connection in sight: the venue's value changes, and now and then a      *)
(* reader is shown a value the venue really had, never one older than what *)
(* it was shown before.  A reader that starts over is shown nothing yet,   *)
(* and what it was shown earlier binds nobody any more.                    *)
(***************************************************************************)
EXTENDS Naturals, Sequences

CONSTANTS Readers, Books, None

VARIABLES
    hist,    \* the values the venue had, in order
    out      \* what each reader was shown last: the index and the value

Init ==
    /\ \E b \in Books : hist = <<b>>
    /\ out = [r \in Readers |-> None]

Publish ==
    /\ \E b \in Books : hist' = Append(hist, b)
    /\ UNCHANGED out

Show(r) ==
    /\ \E u \in 1..Len(hist) :
          /\ out[r] = None \/ u >= out[r].u
          /\ out' = [out EXCEPT ![r] = [u |-> u, book |-> hist[u]]]
    /\ UNCHANGED hist

StartOver(r) ==
    /\ out' = [out EXCEPT ![r] = None]
    /\ UNCHANGED hist

Next == Publish \/ \E r \in Readers : Show(r) \/ StartOver(r)

Spec == Init /\ [][Next]_<<hist, out>>
=============================================================================
