--------------------------- MODULE MCGatewaySetup ---------------------------
(* GatewaySetup with two networks and the configurations that differ in what *)
(* the migration and the station look at, for TLC.                           *)
EXTENDS GatewaySetup

CONSTANTS home, guest, pc

Input(ssid, password, server, port) ==
    [configured |-> TRUE, ssid |-> ssid, password |-> password, server |-> server, port |-> port]

MCInputs == {Input(home, home, NoText, LegacyPort), Input(home, home, pc, LegacyPort),
             Input(guest, home, NoText, DefaultPort)}
=============================================================================
