------------------------------ MODULE TapHandle ------------------------------
(***************************************************************************)
(* What the driver and the I/O manager make, together, of the one handle   *)
(* of a TAP device: a request is made only on an open handle; the cleanup  *)
(* of the handle may complete some of the requests; the next open comes    *)
(* after all of them are complete.                                         *)
(***************************************************************************)
CONSTANT Requests

VARIABLES
  handle,      \* closed, open or cleaned up
  outstanding  \* the requests that are not complete

handleVars == <<handle, outstanding>>

HandleInit == handle = "closed" /\ outstanding = {}

Open ==
  /\ handle = "closed"
  /\ handle' = "open"
  /\ UNCHANGED outstanding

Issue(r) ==
  /\ handle = "open"
  /\ r \notin outstanding
  /\ outstanding' = outstanding \cup {r}
  /\ UNCHANGED handle

Finish(done) ==
  /\ outstanding' = outstanding \ done
  /\ UNCHANGED handle

Cleanup(done) ==
  /\ handle = "open"
  /\ handle' = "cleaned"
  /\ outstanding' = outstanding \ done

Close ==
  /\ handle = "cleaned"
  /\ outstanding = {}
  /\ handle' = "closed"
  /\ UNCHANGED outstanding

HandleNext ==
  \/ Open \/ Close
  \/ \E r \in Requests : Issue(r)
  \/ \E done \in SUBSET Requests : Finish(done) \/ Cleanup(done)

HandleSpec == HandleInit /\ [][HandleNext]_handleVars
=============================================================================
