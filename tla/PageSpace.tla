----------------------------- MODULE PageSpace -----------------------------
(***************************************************************************)
(* What the OS/2 page allocator of LOCUTUS (locutus/os2mem.c) keeps of its *)
(* promise: pages are only ever added to the used ones, and a block is     *)
(* granted at or above the page asked for, on pages that were free, all    *)
(* but the last of them for certain.                                       *)
(***************************************************************************)
EXTENDS Integers, Sequences

VARIABLES used,                \* pages marked in PFBitmap, or lost behind it
          granted              \* the blocks granted, in order

spaceVars == <<used, granted>>

PagesOf(b) == b.base .. b.base + b.pages - 1
LastPage(b) == b.base + b.pages - 1

SpaceInit == used \subseteq Nat /\ granted = <<>>

Grant(b) ==
    /\ b.base >= b.wanted
    /\ b.base \notin used
    /\ PagesOf(b) \cap used \subseteq {LastPage(b)}
    /\ used' = used \cup PagesOf(b)
    /\ granted' = Append(granted, b)

\* A step grants the block that the history then ends with.
SpaceNext == granted' # granted /\ Grant(granted'[Len(granted')])

SpaceSpec == SpaceInit /\ [][SpaceNext]_spaceVars
=============================================================================
