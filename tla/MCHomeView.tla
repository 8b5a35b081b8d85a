------------------------------ MODULE MCHomeView ------------------------------
(* One demo account, one real account with any of the dates, one id for     *)
(* accounts the user adds, and another tab that edited the demo account.    *)
EXTENDS HomeView

CONSTANTS n1, n2

SomeDates ==
  {[form |-> f, month |-> m, day |-> d, padded |-> p] :
     f \in Forms, m \in {3, 11}, d \in {5, 13}, p \in BOOLEAN}

On(d) == [form |-> "yearFirst", month |-> 3, day |-> d, padded |-> TRUE]
ThePicks == {On(5), On(13)}
TheNear == {On(5)}
Only(i, n, d) == {[id |-> i, name |-> n, date |-> d]}
TheFallback == Only("demo-1", n1, On(5))
TheOtherLists == {Only("demo-1", n2, On(13))}
TheServers == {Only("real-1", n2, d) : d \in SomeDates}
=============================================================================
