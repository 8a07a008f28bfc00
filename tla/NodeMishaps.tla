------------------------------ MODULE NodeMishaps ------------------------------
(***************************************************************************)
(* NodeAgent with a history of what went wrong with each lease.            *)
(*                                                                         *)
(* Calls that fail, and goroutines that meet on one lease, break some of   *)
(* the node's promises, and the findings show how.  Here each such mishap  *)
(* is written down for the lease it happens to, so that the promises can   *)
(* be stated for every lease it has not happened to, whatever the number   *)
(* of goroutines at work and whatever becomes of other leases.  The        *)
(* history is read off the step and never read by one.                     *)
(***************************************************************************)
EXTENDS NodeAgent

VARIABLE amiss   \* the mishaps of each lease (history)

hvars == <<vars, amiss>>

Mishap == {"lost", "refused", "unremoved", "early", "crowded", "late", "crossed"}

\* Where a goroutine is that opens a session, between claiming and metering.
Opening == {"provision", "await", "publish", "reach", "settle", "meter"}

\* Where one may still put up the tunnel or take it down.
Meddling == {"provision", "await", "publish", "reach", "settle", "burn", "end", "reap", "clear"}

\* Where one settles a session, and where it has read what is owed.
Settling == {"owed", "refund", "mark"}
Refunding == {"refund", "mark"}

WorksOn(t, l, pcs) == thread[t].id = l /\ thread[t].pc \in pcs

\* A call moved money and was reported as failed: settleLost, refundLost.
Lost(l) == faults' > faults /\ (paid'[l] > paid[l] \/ returned'[l] > returned[l])

\* A refund was reported as failed.
Refused(l) == \E t \in Threads : thread[t].id = l /\ RefundFails(t)

\* Docker did not remove the container.
Unremoved(l) == \E t \in Threads : thread[t].id = l /\ ReapFails(t)

\* The lease is ended while a handler is still opening it.
Early(l) ==
  /\ IsLive(l) /\ IsTerminal(lease'[l])
  /\ \E t \in Threads : WorksOn(t, l, Opening) /\ thread'[t] = thread[t]

\* The slot is claimed while an earlier lease is still being put up or taken down.
Crowded(l) ==
  /\ l \in DOMAIN lease' \ DOMAIN lease
  /\ \E t \in Threads : thread[t].id \in DOMAIN lease /\ thread[t].pc \in Meddling

\* A payment is banked on a lease that is over.
Late(l) == l \in DOMAIN lease /\ IsTerminal(lease[l]) /\ lease'[l].credit > lease[l].credit

\* Somebody else is settling it as its settlement begins, or its credit changes
\* after a settlement has read it.
Crossed(l) ==
  \E t, u \in Threads :
    /\ t # u
    /\ \/ /\ WorksOn(t, l, {"debt"}) /\ thread'[t].pc = "owed"
          /\ WorksOn(u, l, Settling)
       \/ /\ WorksOn(u, l, Refunding) /\ thread'[t] # thread[t] /\ ~WorksOn(t, l, Settling)
          /\ lease'[l].credit # lease[l].credit

Happens(l, mishap) ==
  CASE mishap = "lost" -> Lost(l)
    [] mishap = "refused" -> Refused(l)
    [] mishap = "unremoved" -> Unremoved(l)
    [] mishap = "early" -> Early(l)
    [] mishap = "crowded" -> Crowded(l)
    [] mishap = "late" -> Late(l)
    [] mishap = "crossed" -> Crossed(l)

HInit == Init /\ amiss = [l \in Leases |-> {}]

HNext ==
  /\ Next
  /\ amiss' = [l \in Leases |-> amiss[l] \cup {m \in Mishap : Happens(l, m)}]

HSpec == HInit /\ [][HNext]_hvars

HistoryOK == amiss \in [Leases -> SUBSET Mishap]

\* None of these has happened to l.
Spared(l, mishaps) == amiss[l] \cap mishaps = {}

-----------------------------------------------------------------------------
(* What the node promises of a lease that has been spared.                 *)

\* A transfer has been made for l and is about to be written down.
BeingMarked(l) == \E t \in Threads : WorksOn(t, l, {"mark"})

\* Every tinybar the facilitator settled is the provider's, the renter's, in the
\* hands of a handler about to bank it, or was transferred back, and none of it
\* twice: while a session is sold, run, ended and settled, by however many
\* goroutines, unless a call lied about it or two of them settled it at once.
EveryTinybarOnce ==
  \A l \in DOMAIN lease :
    Spared(l, {"lost", "crossed"}) /\ ~BeingMarked(l)
      => paid[l] = lease[l].burned + lease[l].credit + HeldFor(l) + returned[l]

\* What a session says was returned is what was transferred, from the moment it is
\* written down (MarkSettled records what its last caller says).
RefundedIsReturned ==
  \A l \in DOMAIN lease :
    Spared(l, {"lost", "crossed"}) /\ ~BeingMarked(l) => lease[l].refunded = returned[l]

\* A session that is over and holds credit has somebody on the way to return it,
\* unless a refund failed, which nobody retries, or the credit came too late.
EndedOwesNothing ==
  \A l \in DOMAIN lease :
    IsTerminal(lease[l]) /\ lease[l].credit > 0 /\ Spared(l, {"refused", "late"})
      => \E t \in Threads : WorksOn(t, l, {"reap", "clear", "debt"} \cup Settling)
                            /\ thread[t].op \in {"stop", "sweep"}

\* A lease that is over has its container only until its reaper gets to it, a frozen
\* one too, unless docker refused or it was ended while still being set up
\* (reapLeaseResources).
NothingLeftBehind ==
  \A l \in DOMAIN lease :
    IsTerminal(lease[l]) /\ box[l] \in {"running", "frozen"} /\ Spared(l, {"unremoved", "early"})
      => \E t \in Threads : WorksOn(t, l, {"reap"})

\* A session that was sold the node when nobody was still clearing up after another
\* is served by the tunnel for as long as it lives; and one that is over is served
\* only until its teardown gets to the tunnel, unless it was ended while still being
\* set up.
TunnelServesTheHolder ==
  \A l \in DOMAIN lease :
    /\ IsLive(l) /\ lease[l].metered /\ Spared(l, {"crowded"}) => tunnel = l
    /\ IsTerminal(lease[l]) /\ tunnel = l /\ Spared(l, {"early"})
         => \E t \in Threads : WorksOn(t, l, {"reap", "clear"})
=============================================================================
