--------------------------------- MODULE MCFeed ---------------------------------
(***************************************************************************)
(* A small instance of the feed: one job, two pages, and a buffer that     *)
(* fills.  Either the first page is alone and does all a page can do, or   *)
(* both are open before the job runs and the second does not read; it is   *)
(* loaded again when all is over, and the first goes on alone.             *)
(***************************************************************************)
EXTENDS Feed, TLC

CONSTANTS second

Alone == page[second] = "check"

\* Both pages have fetched the list and are registered.
Beside ==
  /\ Idle
  /\ clients = Windows /\ live = {} /\ token = Windows
  /\ page = [w \in Windows |-> "open"] /\ link \in [Windows -> Codes]
  /\ shown = [w \in Windows |-> status]

AllOver == fan = None /\ buffer = <<>> /\ \A j \in Jobs : Ended(j) /\ Quiet(j)

MCPageNext ==
  \/ Alone /\ PageNext /\ Alone'
  \/ ~ Alone /\ \E w \in Windows \ {second} : OnMessage(w) \/ OnClose(w)
  \/ AllOver /\ Reload(second)

MCSpec == (Init \/ Beside) /\ [][JobNext \/ SendNext \/ MCPageNext]_vars /\ Fairness
=================================================================================
