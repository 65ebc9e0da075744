-------------------------------- MODULE Keys --------------------------------
(***************************************************************************)
(* The keyspace all layers share (kv/keys.go) and the range scans over it  *)
(* (kv/db.go).  A key is a sequence of bytes: a tag, big-endian integers   *)
(* of fixed width, and in a dirent the name.  A byte has Radix values here *)
(* instead of 256, and the integers have the widths the constants give     *)
(* instead of 8, 4 and 8 bytes.                                            *)
(***************************************************************************)
EXTENDS Integers, Sequences

CONSTANTS Radix,                            \* bytes are 0 .. Radix-1
          InodeLen, StripeLen, SeqLen       \* widths, in bytes

\* Four tags in the order of their letters, none of them the last byte.
ASSUME KeysAssumption ==
    /\ Radix \in Nat /\ Radix > 4
    /\ {InodeLen, StripeLen, SeqLen} \subseteq Nat \ {0}

tagStoreMeta == 0   \* 'M'
tagDirent    == 1   \* 'd'
tagNode      == 2   \* 'n'
tagStripe    == 3   \* 's'

\* How many numbers n bytes tell apart: Radix to the n.
Power(n) ==
    LET power[k \in 0 .. n] == IF k = 0 THEN 1 ELSE Radix * power[k - 1]
    IN  power[n]

\* MUTANT: little-endian.
PutUintLittle(x, width) ==
    [k \in 1 .. width |-> (x \div Power(k - 1)) % Radix]

PutUint(x, width) ==
    [k \in 1 .. width |-> (x \div Power(width - k)) % Radix]

Uint(bytes) ==
    LET value[n \in 0 .. Len(bytes)] ==
            IF n = 0 THEN 0 ELSE value[n - 1] * Radix + bytes[n]
    IN  value[Len(bytes)]

StoreNextInodeKey == <<tagStoreMeta, 1, 2>>

NodeKey(inode) == <<tagNode>> \o PutUint(inode, InodeLen)

DirentPrefix(parent) == <<tagDirent>> \o PutUint(parent, InodeLen)

DirentKey(parent, name) == DirentPrefix(parent) \o name

StripeAllPrefix == <<tagStripe>>

StripePrefix(inode) == <<tagStripe>> \o PutUint(inode, InodeLen)

FragmentStripePrefix(inode, stripeID) ==
    StripePrefix(inode) \o PutUint(stripeID, StripeLen)

FragmentKey(inode, stripeID, seq) ==
    FragmentStripePrefix(inode, stripeID) \o PutUint(seq, SeqLen)

StripeInodeFromFragmentKey(k) == Uint(SubSeq(k, 2, 1 + InodeLen))

StripeIDFromFragmentKey(k) ==
    Uint(SubSeq(k, 2 + InodeLen, 1 + InodeLen + StripeLen))

IsFragmentKey(k) == Len(k) = 1 + InodeLen + StripeLen + SeqLen

-----------------------------------------------------------------------------
(* Scans *)

\* Pebble compares keys as byte strings.
Less(k, l) ==
    \E n \in 1 .. Len(l) :
        /\ n <= Len(k) => k[n] < l[n]
        /\ n <= Len(k) + 1
        /\ \A p \in 1 .. n - 1 : k[p] = l[p]

NoBound == <<>>   \* a nil upper bound

\* MUTANT: a byte that overflows stays in the bound, as zero.
PrefixUpperBoundKeepsZeros(prefix) ==
    LET room == {n \in DOMAIN prefix : prefix[n] # Radix - 1}
    IN  IF room = {} THEN NoBound
        ELSE [prefix EXCEPT ![Len(prefix)] = (@ + 1) % Radix]

\* Bump the last byte; a byte that overflows is dropped, and the bump goes
\* on to the one before it.
PrefixUpperBound(prefix) ==
    LET room == {n \in DOMAIN prefix : prefix[n] # Radix - 1}
        last == CHOOSE n \in room : \A p \in room : p <= n
    IN  IF room = {} THEN NoBound
        ELSE SubSeq(prefix, 1, last - 1) \o <<prefix[last] + 1>>

\* What an iterator over [lo, hi) of a store with these keys visits.
Iter(keys, lo, hi) ==
    {k \in keys : ~Less(k, lo) /\ (hi = NoBound \/ Less(k, hi))}

PrefixScan(keys, prefix) == Iter(keys, prefix, PrefixUpperBound(prefix))

=============================================================================
