------------------------------- MODULE PageQueue -------------------------------
(***************************************************************************)
(* Page replacement as a queue of pages: a page that is not in memory is   *)
(* let in by evicting the page that came first, and then becomes the last; *)
(* one replacement at a time.  When there is no swap frame for the evicted *)
(* page the replacement is given up, and the queue stays one page shorter. *)
(***************************************************************************)
EXTENDS Sequences, SequencesExt, Naturals

CONSTANT Pages

VARIABLES queue,      \* the pages in memory, the last to come first
          replacing   \* a page has been evicted and none let in yet

Evict == /\ ~replacing /\ Len(queue) > 1
         /\ queue' = Front(queue) /\ replacing' = TRUE

LetIn(p) == /\ replacing
            /\ queue' = <<p>> \o queue /\ replacing' = FALSE

GiveUp == replacing /\ replacing' = FALSE /\ UNCHANGED queue

Init == queue \in Seq(Pages) /\ replacing = FALSE
Next == Evict \/ GiveUp \/ \E p \in Pages : LetIn(p)
Spec == Init /\ [][Next]_<<queue, replacing>>
=============================================================================
