--------------------------- MODULE MCBlockListener ---------------------------
(* BlockListener on a short chain, whose first block holds the transfers     *)
(* and the others confirm them.                                             *)
EXTENDS BlockListener

CONSTANTS a, b, tk, h1, h2

Transfer(hash, blocks, pos, token, from, to) ==
  [hash |-> hash, blocks |-> blocks, pos |-> pos, token |-> token, from |-> from, to |-> to]

\* Two handlers of one transaction, and another transaction behind it in the
\* block, which the chain reverts.
MCTransfers ==
  { Transfer(h1, {1}, 0, Native, a, b),
    Transfer(h1, {1}, 0, tk, b, a),
    Transfer(h2, {1}, 1, Native, b, a) }

\* Two transactions in one block: the second waits until the first is settled.
\* A fork may move the first to the next block.
MCQueue ==
  { Transfer(h1, {1, 2}, 0, Native, a, b),
    Transfer(h2, {1}, 1, Native, b, a) }
=============================================================================
