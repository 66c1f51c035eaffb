----------------------- MODULE MCDocumentLifecycle -----------------------
(* Small instances of DocumentLifecycle for TLC: see the .cfg files.      *)
EXTENDS DocumentLifecycle, TLC

\* What an ingest leaves that read every page but one: ready, and the chunks
\* of the pages that were read are indexed.
Indexed ==
  \E failed \in Page :
    LET read == Page \ {failed}
        made == {[page |-> p, era |-> 0, header |-> Cardinality(read) >= MinPages] :
                   p \in read}
    IN  /\ doc = [row |-> "live", status |-> "ready"]
        /\ leaving = FALSE /\ blob = TRUE
        /\ pages = [p \in Page |-> IF p = failed THEN "failed" ELSE "parsed"]
        /\ chunks = made /\ points = made /\ era = 0
        /\ tasks = {} /\ sent = 0 /\ owed = {}
        /\ run = [w \in Worker |-> Idle]
        /\ purge = NoPurge
        /\ history = [h \in Remembered |-> FALSE]
        /\ faults = 0

MCSpec ==
  /\ Init \/ Indexed
  /\ [][Next]_vars
  /\ WF_vars(Removal) /\ \A w \in Worker : WF_vars(Ingest(w))
=============================================================================
