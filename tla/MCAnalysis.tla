------------------------------ MODULE MCAnalysis ------------------------------
EXTENDS Analysis
\* Three BSSIDs in a chain: the first two and the last two have related
\* addresses, the first and the last have not; likewise their RSSIs.
Profile(peak, name, stations, qbss) ==
  [peak |-> peak, name |-> name, stations |-> stations, qbss |-> qbss]
Unmeasured == Profile(None, 1, None, TRUE)
Weak == Profile(50, None, 2, TRUE)
Medium == Profile(52, 1, 1, TRUE)
Strong == Profile(54, None, 3, FALSE)
MCBssids == {1, 5, 6}
MCProfiles ==
  [b \in MCBssids |->
     {[bssid |-> b, seen |-> 0] @@ profile :
        profile \in CASE b = 1 -> {Unmeasured, Weak}
                      [] b = 5 -> {Medium, Strong}
                      [] b = 6 -> {Weak, Medium, Strong}}]

\* Frames of two of them, heard or not: equal ratios and a lower one.
MCSenders == {1, 5}
MCCounts == {[retries |-> 1, eligible |-> 2], [retries |-> 2, eligible |-> 6]}

\* Frames of BSSID 1 on the target's channel and off it, of another access
\* point that is a link partner too, of two clients, and a corrupt one.
BeaconOf(bssid, primary) ==
  [bssid |-> bssid, ta |-> bssid, ra |-> 99, other |-> None, kind |-> "beacon",
   retry |-> FALSE, bad |-> FALSE, primary |-> primary]
Data(bssid, ta, ra, retried, bad) ==
  [bssid |-> bssid, ta |-> ta, ra |-> ra, other |-> None, kind |-> "data",
   retry |-> retried, bad |-> bad, primary |-> None]
MCShapes ==
  {BeaconOf(1, 36), BeaconOf(1, 40), BeaconOf(2, 40), Data(1, 11, 1, TRUE, FALSE),
   Data(None, 2, 1, FALSE, FALSE), Data(1, 1, 12, FALSE, FALSE), Data(1, 11, 1, TRUE, TRUE)}

\* Requests that are granted, replaced and refused; the channels of access
\* points inside the capture, wider than it, punctured, and next to it.
Ask(band, primary, width, centers) ==
  [band |-> band, primary |-> primary, width |-> width, centers |-> centers]
MCRequests ==
  {Ask("5", 5180, None, << >>), Ask("5", 5340, None, << >>), Ask("5", 5180, 40, <<5190>>),
   Ask("5", 5180, 160, <<5250>>), Ask("5", 5180, 8080, <<5210, 5775>>), Ask("5", 5180, 80, <<5290>>),
   Ask("6", 5975, None, << >>), Ask("2.4", 2437, None, << >>)}
Bonded(primary, width, centers, punct) ==
  [primary |-> primary, width |-> width, centers |-> centers, punct |-> punct, complete |-> TRUE]
MCChannels ==
  [band \in {"2.4", "5", "6"} |->
     CASE band = "2.4" -> {Bonded(2437, 20, <<2437>>, {}), Bonded(2437, 40, <<2427>>, {})}
       [] band = "5" -> {Bonded(5180, 20, <<5180>>, {}), Bonded(5180, 40, <<5190>>, {}),
                         Bonded(5180, 80, <<5210>>, {}), Bonded(5180, 160, <<5250>>, {}),
                         Bonded(5180, 8080, <<5210, 5775>>, {}), Bonded(5180, 160, <<5250>>, {4, 5, 6, 7}),
                         Bonded(5200, 20, <<5200>>, {})}
       [] band = "6" -> {Bonded(5975, 80, <<5985>>, {}), Bonded(5975, 160, <<6025>>, {}),
                         Bonded(5975, 8080, <<5985, 6225>>, {}), Bonded(5975, 320, <<6105>>, {})}]
MCAdapters ==
  {[widths |-> {20, 40, 80, 160, 8080}, frequencies |-> {}, puncturing |-> FALSE, known |-> TRUE],
   [widths |-> {20}, frequencies |-> {}, puncturing |-> FALSE, known |-> FALSE],
   [widths |-> {20, 40, 80}, frequencies |-> {5180, 5200, 5240, 2437}, puncturing |-> FALSE, known |-> TRUE]}
=============================================================================
