---------------------------- MODULE MCGpioChannels ----------------------------
(***************************************************************************)
(* Instance of GpioChannels for TLC: two lines; an application, and the    *)
(* discover tool on the same catalog file without mappings of its own.     *)
(***************************************************************************)
EXTENDS GpioChannels, TLC

CONSTANTS l1, l2, app, tool

MCLines == {l1, l2}
MCApps == {app, tool}
MCMappers == {app}
LineSymmetry == Permutations(MCLines)
MCTypes == {BoolOutput, IntInput(8)}

(* What TLC tells states apart by: what a later step or a property can still *)
(* look at.  A catalog is looked at until it is saved, and then where the    *)
(* lines are that are mapped, or may be; the tool maps none, so nobody sees  *)
(* whether it builds.  Of a built context only the lines count that it       *)
(* holds, with their definitions and whether they were contested.            *)
Mapped(p) == IF Open(p) THEN Lines ELSE {l \in Lines : Offered(p, l) # {}}
HeldBy(p) == {l \in Lines : consumer[l] = p}
Sure(p) == HeldBy(p) \ contested[p]

Seen ==
  <<kernel, files, request, asked, stage[app],
    IF stage[tool] = "built" THEN "ready" ELSE stage[tool],
    IF stage[tool] = "scanned" THEN catalog[tool] ELSE {},
    IF stage[app] = "scanned" THEN catalog[app] ELSE catalog[app] \cap Mapped(app),
    IF stage[app] = "built" THEN SelectSeq(defs[app], LAMBDA d : d.line \in Sure(app)) ELSE defs[app],
    stage[app] \in {"new", "scanned"} /\ restored[app],
    IF stage[app] = "built" THEN contested[app] \cap HeldBy(app) ELSE contested[app]>>
===============================================================================
