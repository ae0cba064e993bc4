----------------------------- MODULE MCServices -----------------------------
(* Instance of Services for TLC, with two calls together: t1 calls any     *)
(* function, but for those whose script is another's up to the code they   *)
(* report; t2 calls a rival, which takes the lock at once or releases one  *)
(* it was refused.                                                         *)
EXTENDS Services, TLC

CONSTANTS t1, t2
Alike  == {"file_seek", "file_delete", "gnss_on", "gnss_off", "gpio_write", "gpio_configPort", "geo_query",
           "ntwk_deactivateNetwork", "ntwk_getRegistrationStatus", "tlsGetOptions", "mdminfo_signalRSSI",
           "mdminfo_signalBars", "ltem_setProviderScanSeq", "ltem_setIotMode", "NTWK_applyDefaulNetwork"}
Rivals == {"ntwk_setNetworkConfig"}
Instance == t1 :> (Names \ (Alike \cup Rivals)) @@ t2 :> Rivals
=============================================================================
