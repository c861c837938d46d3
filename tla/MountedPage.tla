----------------------------- MODULE MountedPage -----------------------------
(***************************************************************************)
(* The page that is mounted (src/views/src/App.tsx): a record with the     *)
(* state of its component, which is gone when another page takes its place.*)
(***************************************************************************)
EXTENDS PageRequests

CONSTANT MaxClicks  \* bound: how many times the user acts, up to each page

Routes == {"home", "connections", "sessions", "settings"}

ASSUME MaxClicksAssumption == MaxClicks \in [Routes -> Nat]

VARIABLE page       \* the state of the page, with its route

On(route) == page.route = route
Click == ClickOf(MaxClicks[page.route])
=============================================================================
