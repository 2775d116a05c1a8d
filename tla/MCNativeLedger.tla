---------------------------- MODULE MCNativeLedger ----------------------------
(* A small chain: two accounts, a reward that halves and runs into the cap.  *)
EXTENDS NativeLedger

Envelope(from, to, amount, fee, nonce, valid_before) ==
    [authentic |-> TRUE, from |-> from, to |-> to, amount |-> amount, fee |-> fee,
     nonce |-> nonce, valid_before |-> valid_before]

\* Two spends of `a` in sequence, one back from `b`, a self-transfer, a transfer
\* whose amount + fee does not fit in an amount.
MCEnvelopes ==
    {Envelope("a", "b", 3, 1, 0, 9),
     Envelope("a", "b", 1, 1, 1, 9),
     Envelope("b", "a", 2, 0, 0, 4),
     Envelope("a", "a", 4, 1, 1, 9),
     Envelope("b", "a", 12, 5, 0, 9)}

=============================================================================
