---------------------------- MODULE MCDocumentParse ----------------------------
(* Instances of DocumentParse for TLC. *)
EXTENDS DocumentParse

One == {CHOOSE i \in Images : TRUE}
User == {"cancel", "delete"}

\* The hand-over with all its images, anything that can go wrong with one of
\* them, and the user stepping in, with an image and with any failure.
MCSetups ==
  {[images |-> Images, faults |-> faults, requests |-> {}] :
     faults \in {{"redis", "redeliver"},
                 {"convert", "vision", "enqueue", "redis", "crash"}}}
  \cup {[images |-> One, faults |-> Outcomes \cup FaultKinds, requests |-> {}],
        [images |-> One, faults |-> {"vector"}, requests |-> User],
        [images |-> {}, requests |-> User,
         faults |-> {"vector", "cleanup", "database", "unread", "probe", "crash"}]}
=============================================================================
