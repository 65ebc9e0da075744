---------------------------- MODULE MCStripeLog ----------------------------
(* Values of the constants of StripeLog for model checking. *)
EXTENDS StripeLog

\* Bytes 0 .. 4, so that inode 4 and inode 24 end in the last byte: the
\* bound of 4 carries into the byte before it, the bound of 24 into the tag.
Files == {4, 5, 24}

\* Ranges of file 5 that cross a stripe, nest and straddle (and touch, after
\* a truncate); its neighbours are written whole.
Appends == {<<5, 11, 4>>, <<5, 11, 3>>, <<5, 13, 2>>, <<4, 11, 4>>, <<24, 11, 4>>}

\* A name that makes the dirent's key as long as a fragment's.
Names == {<<3, 4, 4>>}

=============================================================================
