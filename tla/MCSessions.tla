------------------------------- MODULE MCSessions ------------------------------
(* Sessions for TLC, with the two sessions 0 and 1.                              *)
EXTENDS Sessions

\* What TLC tells states apart by.  The sessions are interchangeable, so the current one
\* comes first; cur_txn is left out, which no action reads (SubqueryReadsOwn does).
Ordered(f) == IF cur_session = 0 THEN <<f[0], f[1]>> ELSE <<f[1], f[0]>>
StateView == <<up, Ordered(sess), next_txn, committed_below, txnlog, dataVars, crashes,
               live, Ordered(begun), Ordered(ins), Ordered(del), clobbered, forgotten>>
================================================================================
