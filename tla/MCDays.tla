-------------------------------- MODULE MCDays ---------------------------------
(* DayPlan: two days of twelve units, their settings and slates.  Lifecycle: a plan *)
(* of one window and one of two.                                                    *)
EXTENDS Days

Tennis == "tennis"
Football == "football"
MCLength == (Tennis :> 1) @@ (Football :> 3)
MCOffsets == [t \in -30 .. 60 |-> IF t % 2 = 0 THEN [open |-> -1, close |-> 1]
                                  ELSE [open |-> 1, close |-> 0]]
Base == [lead |-> 1, trail |-> 1, minGap |-> 1, minGames |-> 1, maxBlocks |-> 3,
         session |-> 0, jitter |-> FALSE, shift |-> FALSE, downtime |-> 2, maxDaily |-> 5,
         fill |-> FALSE, todayOnly |-> FALSE, pairedOnly |-> FALSE, mids |-> {1, 3},
         pins |-> <<>>, only |-> <<>>]
Range1(a, b) == [from |-> a, to |-> b]
MCConfigs ==
  {Base,
   [Base EXCEPT !.fill = TRUE, !.todayOnly = TRUE],
   [Base EXCEPT !.session = 2, !.fill = TRUE, !.todayOnly = TRUE, !.pins = <<Range1(5, 7)>>],
   [Base EXCEPT !.session = 2, !.jitter = TRUE, !.pairedOnly = TRUE],
   [Base EXCEPT !.jitter = TRUE, !.shift = TRUE, !.minGames = 2, !.maxBlocks = 1],
   [Base EXCEPT !.maxDaily = 0, !.only = <<Range1(3, 6), Range1(6, 8)>>],
   [Base EXCEPT !.only = <<Range1(10, 2)>>, !.pins = <<Range1(9, 1)>>]}
MCSlates == {<<[at |-> a, sport |-> Tennis, mid |-> 1], [at |-> b, sport |-> Football, mid |-> 2],
             [at |-> c, sport |-> Tennis, mid |-> 3]>> :
             a \in {2, 4, 9}, b \in {3, 5, 8}, c \in {6, 10, 15}}
MCPlans == {{[o |-> 1, c |-> LastTime + 1]}, {[o |-> 0, c |-> 1], [o |-> 2, c |-> 4]}}
================================================================================
