---------------------------- MODULE MCDeviceTable ----------------------------
(* DeviceTable with WiFi interfaces w0 and w1, Ethernet interfaces e0 and e1, *)
(* a name, short, that is a prefix of both WiFi names, and one that no device *)
(* has, foreign.                                                              *)
EXTENDS DeviceTable

CONSTANTS w0, w1, e0, e1, short, foreign

Same(names) == {<<n, n>> : n \in names}

\* One WiFi and one Ethernet device, called by their names.
OneEach         == <<w0, e0>>
OneEachKinds    == <<"wifi", "ethernet">>
OneEachNames    == {w0, e0}
OneEachPrefixes == Same({w0, e0})

\* Two WiFi devices; clients abbreviate and mistake names.
Two             == <<w0, w1>>
TwoKinds        == <<"wifi", "wifi">>
TwoNames        == {w0, w1, short, foreign}
TwoPrefixes     == Same({w0, w1}) \cup {<<short, w0>>, <<short, w1>>}
FirstTwo        == {1, 2}

\* Two WiFi devices and two Ethernet ones, of which one has no library, called by
\* their names.
TwoWifi         == <<w0, w1, e0, e1>>
TwoWifiKinds    == <<"wifi", "wifi", "ethernet", "ethernet">>
TwoWifiNames    == {w0, w1, e0, e1}
TwoWifiPrefixes == Same({w0, w1, e0, e1})
FirstThree      == {1, 2, 3}

Supplicant == {"supplicant"}
Failing    == {"ifconfig", "supplicant", "down"}
=============================================================================
