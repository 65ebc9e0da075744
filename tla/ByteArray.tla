------------------------------ MODULE ByteArray ------------------------------
(***************************************************************************)
(* What the index is to its readers: an array per file in which a position *)
(* holds the number of the last write to it, or 0 when it was never        *)
(* written, was truncated away or belongs to a deleted file.  Module       *)
(* StripeLog is shown to implement this, operation by operation.           *)
(***************************************************************************)
EXTENDS Integers

CONSTANTS File, Pos

VARIABLES content, writes

vars == <<content, writes>>

Init == content = [f \in File |-> [pos \in Pos |-> 0]] /\ writes = 0

\* What an operation makes of one array.
Written(array, a, b) ==
    [pos \in Pos |-> IF pos \in a .. b THEN writes + 1 ELSE array[pos]]

Cut(array, size) == [pos \in Pos |-> IF pos < size THEN array[pos] ELSE 0]

Emptied == [pos \in Pos |-> 0]

\* The sets of one element bind the arrays, which may be costly to evaluate.
Write(f, a, b) ==
    /\ writes' = writes + 1
    /\ \E was \in {content}, now \in {content'} :
          now = [was EXCEPT ![f] = Written(was[f], a, b)]

Truncate(f, size) ==
    /\ writes' = writes
    /\ \E was \in {content}, now \in {content'} :
          now = [was EXCEPT ![f] = Cut(was[f], size)]

Delete(f) ==
    /\ writes' = writes
    /\ \E was \in {content}, now \in {content'} :
          now = [was EXCEPT ![f] = Emptied]

Next == \E f \in File : \/ \E a, b \in Pos : a <= b /\ Write(f, a, b)
                        \/ \E size \in Pos : Truncate(f, size)
                        \/ Delete(f)

Spec == Init /\ [][Next]_vars

=============================================================================
