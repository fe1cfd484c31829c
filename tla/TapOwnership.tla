---------------------------- MODULE TapOwnership ----------------------------
(***************************************************************************)
(* What the reference count of an adapter context promises: a context      *)
(* lives from its allocation until the last of its owners lets go, only a  *)
(* live context gets new owners, and a freed one never has any.            *)
(***************************************************************************)
EXTENDS FiniteSets

CONSTANTS Contexts, Owners

VARIABLES
  life,    \* each context: not yet allocated, live or freed
  owners   \* the owners of each context

ownershipVars == <<life, owners>>

OwnershipInit ==
  /\ life = [c \in Contexts |-> "none"]
  /\ owners = [c \in Contexts |-> {}]

Allocate(c, o) ==
  /\ life[c] = "none"
  /\ life' = [life EXCEPT ![c] = "live"]
  /\ owners' = [owners EXCEPT ![c] = {o}]

Share(c, o) ==
  /\ owners[c] # {}
  /\ o \notin owners[c]
  /\ owners' = [owners EXCEPT ![c] = @ \cup {o}]
  /\ UNCHANGED life

Drop(c, o) ==
  /\ o \in owners[c]
  /\ owners' = [owners EXCEPT ![c] = @ \ {o}]
  /\ life' = IF owners'[c] = {} THEN [life EXCEPT ![c] = "freed"] ELSE life

OwnershipNext ==
  \E c \in Contexts, o \in Owners : Allocate(c, o) \/ Share(c, o) \/ Drop(c, o)

OwnershipSpec == OwnershipInit /\ [][OwnershipNext]_ownershipVars
=============================================================================
