------------------------------- MODULE TapLoan -------------------------------
(***************************************************************************)
(* What the receive path promises to its two users: the buffer of a write  *)
(* is lent to the host as the frame it receives, once, and the write is    *)
(* complete when the host gives it back, so that for all the time of the   *)
(* loan the request is outstanding and the handle it was made on not       *)
(* closed.  Frames that the driver makes itself are lent in the same way,  *)
(* for no write.  TapReceivePath implements this module (its property      *)
(* LoanRefinement).                                                        *)
(***************************************************************************)
EXTENDS TapHandle

CONSTANTS
  Buffers,  \* the net buffer lists that carry frames to the host
  NoWrite   \* the frame is the driver's own

VARIABLE lent  \* the loans: <<the buffer, the write whose frame it carries>>

loanVars == <<handleVars, lent>>

IsLent(w) == \E n \in Buffers : <<n, w>> \in lent
InUse(n) == \E w \in Requests \cup {NoWrite} : <<n, w>> \in lent

LoanInit == HandleInit /\ lent = {}

\* A write is refused, or its frame not wanted by the host.
Refuse(w) ==
  /\ ~IsLent(w)
  /\ Finish({w})
  /\ UNCHANGED lent

Lend(n, w) ==
  /\ ~InUse(n)
  /\ w # NoWrite => w \in outstanding /\ ~IsLent(w)
  /\ lent' = lent \cup {<<n, w>>}
  /\ UNCHANGED handleVars

GiveBack(n, w) ==
  /\ <<n, w>> \in lent
  /\ lent' = lent \ {<<n, w>>}
  /\ Finish({w})

LoanNext ==
  \/ (Open \/ Close \/ Cleanup({})) /\ UNCHANGED lent
  \/ \E w \in Requests : (Issue(w) /\ UNCHANGED lent) \/ Refuse(w)
  \/ \E n \in Buffers, w \in Requests \cup {NoWrite} : Lend(n, w) \/ GiveBack(n, w)

LoanSpec == LoanInit /\ [][LoanNext]_loanVars
=============================================================================
