--------------------------- MODULE MCQuotaManager ---------------------------
(* Small instances of QuotaManager for TLC: two clock ticks a second. *)
EXTENDS QuotaManager, TLC

CONSTANTS m1, m2, k1, k2

Lengths == [perSecond |-> 2, perMinute |-> 4]
\* One limiter on two windows.
OneManager == m1 :> <<[window |-> "perSecond", limit |-> 2],
                      [window |-> "perMinute", limit |-> 3]>>
\* A limiter for the application and a stricter one on a route.
TwoManagers == (m1 :> <<[window |-> "perSecond", limit |-> 3]>>)
            @@ (m2 :> <<[window |-> "perSecond", limit |-> 2],
                        [window |-> "perMinute", limit |-> 3]>>)
\* Windows whose limits are far apart.
WideManager == m1 :> <<[window |-> "perSecond", limit |-> 2],
                       [window |-> "perMinute", limit |-> 5]>>
=============================================================================
