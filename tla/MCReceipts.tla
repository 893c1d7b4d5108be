------------------------------ MODULE MCReceipts ----------------------------
\* Instances of Receipts for TLC.
EXTENDS Receipts, TLC

Symmetry == Permutations(ReceiptID)
============================================================================
