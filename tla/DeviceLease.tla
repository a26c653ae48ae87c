----------------------------- MODULE DeviceLease -----------------------------
(***************************************************************************)
(* What the cluster promises about a board's serial port: at any time at   *)
(* most one owner (a job id, a read id, a monitor session, an API client)  *)
(* holds the lease of a path.  A lease is granted only while nobody holds  *)
(* it; it ends when its holder gives it back or when the cluster takes it  *)
(* away (expiry, a re-plug, maintenance), possibly several at once.        *)
(* DeviceRegistry, in which locks are looked up first and used later,      *)
(* implements it.                                                          *)
(***************************************************************************)
CONSTANTS Paths,    \* device paths, the keys of the registry
          Owners,   \* reservation owners
          NoOwner   \* the empty owner string of a free lock, not in Owners

VARIABLE holder     \* holder[p] is the owner of p's lease, or NoOwner

Init == holder = [p \in Paths |-> NoOwner]

Grant(p, o) ==
  /\ holder[p] = NoOwner
  /\ holder' = [holder EXCEPT ![p] = o]

End(S) == holder' = [p \in Paths |-> IF p \in S THEN NoOwner ELSE holder[p]]

Next ==
  \/ \E p \in Paths, o \in Owners : Grant(p, o)
  \/ \E S \in SUBSET Paths : End(S)

Spec == Init /\ [][Next]_holder
-----------------------------------------------------------------------------
TypeOK == holder \in [Paths -> Owners \cup {NoOwner}]

\* A lease never passes from one owner straight to another: DeviceLock.Reserve
\* refuses a lock that is not available, so between two owners the board is
\* free for an instant and the first owner's port can be closed.
Handover(p) == holder[p] # NoOwner /\ holder'[p] \notin {NoOwner, holder[p]}
NoHandover == [][\A p \in Paths : ~ Handover(p)]_holder
=============================================================================
