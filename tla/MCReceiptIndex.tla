--------------------------- MODULE MCReceiptIndex ---------------------------
(* Three batches: one of one leaf, one of five with a request split over two *)
(* items, and one that settles the rest of two earlier requests as debt.     *)
EXTENDS ReceiptIndex

SmallBatches ==
  << [items |-> <<[sp |-> "a", rids |-> {1}]>>, recorded |-> {1}],
     [items |-> <<[sp |-> "b", rids |-> {2, 5, 3}], [sp |-> "a", rids |-> {3, 4, 6}]>>,
      recorded |-> {2, 3}],
     [items |-> <<[sp |-> "a", rids |-> {1, 3, 7}]>>, recorded |-> {7}] >>
=============================================================================
