-------------------------- MODULE ForwardingLease --------------------------
(***************************************************************************)
(* What a ZForwarding promises about the page it forwards, with the        *)
(* reference count, the condition lock and the compare-and-swap loops left *)
(* out: who may look at the page, and when its memory may be overwritten.  *)
(*                                                                         *)
(* The relocation itself is one party (relocating), the threads that call  *)
(* retain_page are the others (holders).  The page goes from "open" (any   *)
(* thread may retain it) to "sealed" (an in-place relocation asked for     *)
(* exclusive use, nobody can retain it any more) to "exclusive" (in-place  *)
(* relocation overwrites it); it is "recycled" when its memory is handed   *)
(* to somebody else.                                                       *)
(***************************************************************************)
CONSTANT Users          \* the threads that may retain the page

VARIABLES holders,      \* the users that retain the page
          relocating,   \* the relocation still holds its own reference
          lease         \* "open", "sealed", "exclusive" or "recycled"

leaseVars == <<holders, relocating, lease>>

LeaseInit ==
  /\ holders = {}
  /\ relocating = TRUE
  /\ lease = "open"

\* The last release closes the page: a page nobody holds is never retained.
Retain(u) ==
  /\ lease = "open"
  /\ relocating \/ holders # {}
  /\ u \notin holders
  /\ holders' = holders \cup {u}
  /\ UNCHANGED <<relocating, lease>>

Release(u) ==
  /\ u \in holders
  /\ holders' = holders \ {u}
  /\ UNCHANGED <<relocating, lease>>

Seal ==
  /\ lease = "open"
  /\ relocating
  /\ lease' = "sealed"
  /\ UNCHANGED <<holders, relocating>>

GrantExclusive ==
  /\ lease = "sealed"
  /\ holders = {}
  /\ lease' = "exclusive"
  /\ UNCHANGED <<holders, relocating>>

RelocationDone ==
  /\ lease \in {"open", "exclusive"}
  /\ relocating
  /\ relocating' = FALSE
  /\ UNCHANGED <<holders, lease>>

Recycle ==
  /\ ~relocating
  /\ holders = {}
  /\ lease \in {"open", "exclusive"}
  /\ lease' = "recycled"
  /\ UNCHANGED <<holders, relocating>>

LeaseNext ==
  \/ \E u \in Users : Retain(u) \/ Release(u)
  \/ Seal
  \/ GrantExclusive
  \/ RelocationDone
  \/ Recycle

LeaseSpec == LeaseInit /\ [][LeaseNext]_leaseVars
=============================================================================
