------------------------------ MODULE WriteBack ------------------------------
(***************************************************************************)
(* What a write-back buffer promises, whatever it is made of: a write is   *)
(* accepted, what was accepted is settled sooner or later (it is durable,  *)
(* or a truncate cut it off), and only settled bytes are vouched for.  A   *)
(* crash loses accepted bytes and nothing else.  Module Coalescer is shown *)
(* to implement this.                                                      *)
(***************************************************************************)
CONSTANTS File

VARIABLES
    accepted,   \* the bytes of each file accepted since the process started
    settled,    \* ... that are durable or cut off
    vouched,    \* ... that a successful fsync has vouched for
    forfeit     \* nothing is promised any more of these files

bytes == <<accepted, settled, vouched>>
vars  == <<bytes, forfeit>>

Init ==
    /\ accepted = [f \in File |-> {}]
    /\ settled = [f \in File |-> {}]
    /\ vouched = [f \in File |-> {}]
    /\ forfeit = {}

\* Of the sets in F only the one of file f may change, and it grows.
Grows(F, G, f) ==
    /\ F[f] \subseteq G[f]
    /\ \A g \in File \ {f} : G[g] = F[g]

Accept(f) ==
    /\ Grows(accepted, accepted', f)
    /\ UNCHANGED <<settled, vouched, forfeit>>

Settle(f) ==
    /\ Grows(settled, settled', f)
    /\ settled'[f] \subseteq settled[f] \cup accepted[f]
    /\ UNCHANGED <<accepted, vouched, forfeit>>

Vouch(f) ==
    /\ Grows(vouched, vouched', f)
    /\ vouched'[f] \subseteq vouched[f] \cup settled[f]
    /\ UNCHANGED <<accepted, settled, forfeit>>

\* A file that is given up may do anything, the others may not.
GiveUp(f) ==
    /\ forfeit' = forfeit \cup {f}
    /\ \A g \in File \ {f} : /\ accepted'[g] = accepted[g]
                             /\ settled'[g] = settled[g]
                             /\ vouched'[g] = vouched[g]

Crash ==
    /\ accepted' = [f \in File |-> {}]
    /\ UNCHANGED <<settled, vouched, forfeit>>

Next ==
    \/ \E f \in File : Accept(f) \/ Settle(f) \/ Vouch(f) \/ GiveUp(f)
    \/ Crash

Spec == Init /\ [][Next]_vars

=============================================================================
