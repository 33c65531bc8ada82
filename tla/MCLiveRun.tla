------------------------------ MODULE MCLiveRun ------------------------------
EXTENDS LiveRun
InventoryV == <<"mon0", "wlan0">>
State(mode, up, channel) == [id |-> 0, mode |-> mode, up |-> up, channel |-> channel]
\* A managed interface beside the captured monitor, up and tuned or down, and
\* a monitor beside a captured interface that was managed.
FoundV ==
  {[mon0 |-> State("monitor", TRUE, "home"), wlan0 |-> State("managed", TRUE, "none")],
   [mon0 |-> State("monitor", FALSE, "none"), wlan0 |-> State("managed", TRUE, "none")],
   [mon0 |-> State("managed", TRUE, "none"), wlan0 |-> State("monitor", TRUE, "home")]}
=============================================================================
