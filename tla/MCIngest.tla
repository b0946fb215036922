----------------------------- MODULE MCIngest -----------------------------
(***************************************************************************)
(* A bar takes two ticks, a file of the lake holds three keys.             *)
(***************************************************************************)
EXTENDS Ingest

CONSTANTS bars, dead, feed, j1, j2

Bars == <<bars, dead>>
Files == <<feed>>
Keys == (bars :> {0, 2}) @@ (dead :> {0, 1}) @@ (feed :> {0, 1})
Widths == (bars :> 2) @@ (dead :> 1) @@ (feed :> 1)
Listings == (bars :> 0) @@ (dead :> 0) @@ (feed :> 0)
Ends == (bars :> 9) @@ (dead :> 3) @@ (feed :> 9)
SomeFloors == {0}
SomeCeilings == {2}
Sessions == [Keys EXCEPT ![feed] = {0, 1, 2}]
=============================================================================
