----------------------- MODULE ClosingReceiptsClaims -----------------------
(***************************************************************************)
(* What the docs of the repository say of closing receipts and the code    *)
(* does not keep: a run refutes it.                                        *)
(***************************************************************************)
EXTENDS ClosingReceipts

(***************************************************************************)
(* "A duplicate of the closing receipt is ruled out by construction", with *)
(* an admin who looks into the cabinet wherever the panel asks for it.     *)
(***************************************************************************)
DuplicateIsRuledOut == \A p \in Payments : AtBank(p) <= 1
============================================================================
